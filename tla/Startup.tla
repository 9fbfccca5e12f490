------------------------------ MODULE Startup -------------------------------
(***************************************************************************)
(* API processes starting, being killed and starting again over one        *)
(* database that may be away: the entrypoint's migration, create_app       *)
(* (api/app.py) with create_all and the bootstrap admin (auth_service.py), *)
(* the lifespan's wait with backoff (database.py, common/retry.py), then   *)
(* readiness, and the registration of users by an admin.                   *)
(* Every call of the database is a step; it fails while the database is    *)
(* away.  The passwords and the signature of a token are left out: a       *)
(* caller is somebody who has an account.                                  *)
(***************************************************************************)
EXTENDS Integers, FiniteSets, FiniteSetsExt

CONSTANTS
  Procs,                 \* API processes
  Names, Admin,          \* usernames; the one of the bootstrap settings
  Roles,                 \* the roles a registration may ask for
  Attempts,              \* db_connect_attempts
  BaseDelay, MaxDelay,   \* of the backoff, in units of time
  MaxOutages,            \* bound: the database goes away this often
  MaxKills               \* bound: processes killed

ASSUME StartupAssumption ==
  /\ Admin \in Names
  /\ Names \cap Procs = {} /\ "setup" \notin Names \cup Procs
  /\ Roles \subseteq {"viewer", "operator", "admin"}
  /\ Attempts \in Nat \ {0}
  /\ BaseDelay \in Nat /\ MaxDelay \in Nat
  /\ MaxOutages \in Nat /\ MaxKills \in Nat

VARIABLES
  settings,    \* what the environment sets, the same for every process
  up,          \* the database answers
  schema,      \* the tables exist
  users,       \* rows of the users table, with who put them there
  pc,          \* where each process is
  attempt,     \* retry_call: the attempt being made
  waited,      \* the time it has slept
  found,       \* db_ready: wait_until_ready returned TRUE
  skipped,     \* this start of the process caught an error of the bootstrap
  pending,     \* a registration that has found its name free
  outages, kills

envVars == <<settings, up, schema, outages, kills>>
procVars == <<pc, attempt, waited, found, skipped, pending>>
vars == <<envVars, users, procVars>>

Flags == [migrates : BOOLEAN, creates : BOOLEAN, bootstraps : BOOLEAN]
Places == {"off", "migrate", "check_tables", "create_tables", "count", "insert",
           "probe", "serving"}
Rows == [name : Names, role : {"viewer", "operator", "admin"},
         by : Names \cup Procs \cup {"setup"}]
NoOne == [name |-> "", role |-> "", by |-> ""]

Goto(p, place) == pc' = [pc EXCEPT ![p] = place]
OnlyMoves(p, place) ==
  Goto(p, place) /\ UNCHANGED <<envVars, users, attempt, waited, found, skipped, pending>>

(* What a process knows before it has done anything.                       *)
Fresh(p) ==
  /\ attempt' = [attempt EXCEPT ![p] = 1]
  /\ waited' = [waited EXCEPT ![p] = 0]
  /\ found' = [found EXCEPT ![p] = FALSE]
  /\ skipped' = [skipped EXCEPT ![p] = FALSE]

-----------------------------------------------------------------------------
(* The entrypoint and create_app.                                          *)

(* With migrations the entrypoint runs alembic first; without, create_app  *)
(* is called at once.                                                      *)
Start(p) ==
  /\ pc[p] = "off"
  /\ pc' = [pc EXCEPT ![p] = IF settings.migrates THEN "migrate"
                             ELSE IF settings.creates THEN "check_tables" ELSE "count"]
  /\ UNCHANGED <<envVars, users, attempt, waited, found, skipped, pending>>

(* alembic upgrade head; the script stops at an error (set -e).            *)
Migrate(p) ==
  /\ pc[p] = "migrate"
  /\ schema' = (schema \/ up)
  /\ Goto(p, IF ~ up THEN "off" ELSE IF settings.creates THEN "check_tables" ELSE "count")
  /\ UNCHANGED <<settings, up, users, outages, kills, attempt, waited, found, skipped, pending>>

(* create_all looks which tables are missing and then creates them; an     *)
(* error of either leaves create_app, and the process ends.                *)
CheckTables(p) ==
  /\ pc[p] = "check_tables"
  /\ OnlyMoves(p, IF ~ up THEN "off" ELSE IF schema THEN "count" ELSE "create_tables")

CreateTables(p) ==
  /\ pc[p] = "create_tables"
  /\ schema' = (schema \/ up)
  /\ Goto(p, IF up /\ ~ schema THEN "count" ELSE "off")
  /\ UNCHANGED <<settings, up, users, outages, kills, attempt, waited, found, skipped, pending>>

(* Seeded fault: a table with users is taken for an empty one.           *)
NobodyYet == users # {}

UsersTableIsEmpty == users = {}

(* What the try block around the bootstrap does with an error.             *)
SkipBootstrap(p) ==
  /\ skipped' = [skipped EXCEPT ![p] = TRUE]
  /\ Goto(p, "probe")
  /\ UNCHANGED <<envVars, users, attempt, waited, found, pending>>

(* ensure_bootstrap_admin: the settings, then the count and the look for   *)
(* the name, which an empty table cannot hold.                             *)
CountUsers(p) ==
  /\ pc[p] = "count"
  /\ IF ~ settings.bootstraps THEN OnlyMoves(p, "probe")
     ELSE IF ~ (up /\ schema) THEN SkipBootstrap(p)
     ELSE OnlyMoves(p, IF UsersTableIsEmpty THEN "insert" ELSE "probe")

(* Seeded fault: usernames are not unique.                               *)
AnyName(name) == TRUE

(* The unique constraint of users.username.                                *)
NameIsFree(name) == \A u \in users : u.name # name

InsertAdmin(p) ==
  /\ pc[p] = "insert"
  /\ IF up /\ NameIsFree(Admin)
     THEN /\ users' = users \cup {[name |-> Admin, role |-> "admin", by |-> p]}
          /\ Goto(p, "probe")
          /\ UNCHANGED <<envVars, attempt, waited, found, skipped, pending>>
     ELSE SkipBootstrap(p)

-----------------------------------------------------------------------------
(* wait_until_ready: retry_call around SELECT 1.                           *)

(* The powers of two.                                                      *)
TwoTo[n \in 0 .. Attempts] == IF n = 0 THEN 1 ELSE 2 * TwoTo[n-1]

Backoff(n) == BaseDelay * TwoTo[n-2]

(* Seeded fault: the delay is not capped.                                *)
UncappedDelay(n) == Backoff(n)

(* The delay before attempt n.                                             *)
DelayFor(n) == IF Backoff(n) < MaxDelay THEN Backoff(n) ELSE MaxDelay

(* Seeded fault: the attempts are not counted.                           *)
ProbeForever(p) ==
  /\ pc[p] = "probe"
  /\ Goto(p, IF up THEN "serving" ELSE "probe")
  /\ found' = [found EXCEPT ![p] = up]
  /\ UNCHANGED <<envVars, users, attempt, waited, skipped, pending>>

(* An attempt; after a failed one, but the last, the sleep and the next.   *)
Probe(p) ==
  /\ pc[p] = "probe"
  /\ IF up \/ attempt[p] = Attempts
     THEN /\ Goto(p, "serving")
          /\ found' = [found EXCEPT ![p] = up]
          /\ UNCHANGED <<attempt, waited>>
     ELSE /\ attempt' = [attempt EXCEPT ![p] = @ + 1]
          /\ waited' = [waited EXCEPT ![p] = @ + DelayFor(attempt[p] + 1)]
          /\ UNCHANGED <<pc, found>>
  /\ UNCHANGED <<envVars, users, skipped, pending>>

-----------------------------------------------------------------------------
(* Requests of a process that serves.                                      *)

(* GET /ready asks the database now; it does not know how the start went.  *)
Ready(p) == pc[p] = "serving" /\ up

(* require_role(admin), by the role in the caller's row.                   *)
MayRegister(u) == u.role = "admin"

(* POST /auth/register: the name is looked up, ...                         *)
Register(p, name, role) ==
  /\ Ready(p) /\ schema
  /\ pending[p] = NoOne
  /\ NameIsFree(name)
  /\ \E u \in users :
       /\ MayRegister(u)
       /\ pending' = [pending EXCEPT ![p] = [name |-> name, role |-> role, by |-> u.name]]
  /\ UNCHANGED <<envVars, users, pc, attempt, waited, found, skipped>>

(* ... and the row inserted, unless the constraint or the connection says  *)
(* no (409, 503).                                                          *)
FinishRegister(p) ==
  /\ pc[p] = "serving" /\ pending[p] # NoOne
  /\ users' = IF up /\ NameIsFree(pending[p].name) THEN users \cup {pending[p]} ELSE users
  /\ pending' = [pending EXCEPT ![p] = NoOne]
  /\ UNCHANGED <<envVars, pc, attempt, waited, found, skipped>>

-----------------------------------------------------------------------------
(* The world around the processes.                                         *)

GoAway ==
  /\ up /\ outages < MaxOutages
  /\ up' = FALSE
  /\ outages' = outages + 1
  /\ UNCHANGED <<settings, schema, kills, users, procVars>>

ComeBack ==
  /\ ~ up
  /\ up' = TRUE
  /\ UNCHANGED <<settings, schema, outages, kills, users, procVars>>

(* alembic upgrade head, run by hand.                                      *)
MigrateByHand ==
  /\ up /\ ~ schema
  /\ schema' = TRUE
  /\ UNCHANGED <<settings, up, outages, kills, users, procVars>>

Kill(p) ==
  /\ pc[p] # "off" /\ kills < MaxKills
  /\ kills' = kills + 1
  /\ Goto(p, "off")
  /\ Fresh(p)
  /\ pending' = [pending EXCEPT ![p] = NoOne]
  /\ UNCHANGED <<settings, up, schema, outages, users>>

-----------------------------------------------------------------------------
Init ==
  /\ settings \in Flags
  /\ up \in BOOLEAN
  /\ schema \in BOOLEAN
  /\ users \in {{}} \cup
       {{[name |-> n, role |-> "admin", by |-> "setup"]} : n \in IF schema THEN Names ELSE {}}
  /\ pc = [p \in Procs |-> "off"]
  /\ attempt = [p \in Procs |-> 1]
  /\ waited = [p \in Procs |-> 0]
  /\ found = [p \in Procs |-> FALSE]
  /\ skipped = [p \in Procs |-> FALSE]
  /\ pending = [p \in Procs |-> NoOne]
  /\ outages = 0 /\ kills = 0

(* One call of a starting process.                                         *)
Boot(p) == Migrate(p) \/ CheckTables(p) \/ CreateTables(p)
           \/ CountUsers(p) \/ InsertAdmin(p) \/ Probe(p)

Next ==
  \/ \E p \in Procs :
       \/ Start(p) \/ Boot(p) \/ FinishRegister(p) \/ Kill(p)
       \/ \E n \in Names, r \in Roles : Register(p, n, r)
  \/ GoAway \/ ComeBack \/ MigrateByHand

(* A started process runs; nothing promises that the database comes back   *)
(* or that somebody starts a process again.                                *)
Spec == Init /\ [][Next]_vars /\ \A p \in Procs : WF_vars(Boot(p))
=============================================================================
