-------------------------- MODULE StartupProperties -------------------------
(* What the start of the API promises.                                     *)
EXTENDS Startup

(* Settings, tables, users and processes keep their types.                 *)
TypeOK ==
  /\ settings \in Flags /\ up \in BOOLEAN /\ schema \in BOOLEAN
  /\ users \subseteq Rows
  /\ pc \in [Procs -> Places]
  /\ attempt \in [Procs -> 1..Attempts]
  /\ waited \in [Procs -> Nat]
  /\ found \in [Procs -> BOOLEAN] /\ skipped \in [Procs -> BOOLEAN]
  /\ pending \in [Procs -> Rows \cup {NoOne}]
  /\ outages \in 0..MaxOutages /\ kills \in 0..MaxKills

(* However many processes start over an empty table, one of them writes a  *)
(* bootstrap row; none is written next to users that were there before;    *)
(* and every other user was registered by somebody who is an admin         *)
(* (auth_service.py: "If configured and the users table is empty, create   *)
(* one admin"; "admin only, via the router").                              *)
AccountsHaveAnOrigin ==
  /\ \A u \in users : u.by \in Procs => \A v \in users : v.by \in Names \/ v = u
  /\ \A u \in users : u.by \in Names =>
       \E v \in users : v.name = u.by /\ v.role = "admin" /\ v # u
  /\ \A u, v \in users : u.name = v.name => u = v

(* An API that answers "ready" over a users table without a row, although  *)
(* a bootstrap admin is configured, is one whose start met an outage or a  *)
(* database without tables: nothing else, and no race of two processes,    *)
(* locks everybody out (app.py: "so a fresh database is never locked out").*)
NoLockoutWithoutAnOutage ==
  \A p \in Procs : Ready(p) /\ settings.bootstraps /\ users = {} => skipped[p]

(* The wait for the database sleeps between the attempts and never after   *)
(* the last one, and its length is at most (Attempts - 1) * MaxDelay;      *)
(* it gives up only after all the attempts (database.py: "NEVER blocks     *)
(* forever").                                                              *)
TheWaitIsBounded ==
  /\ TypeOK
  /\ \A p \in Procs :
       /\ waited[p] =< (Attempts - 1) * MaxDelay
       /\ waited[p] =< BaseDelay * (TwoTo[attempt[p] - 1] - 1)
       /\ pc[p] = "serving" /\ ~ found[p] => attempt[p] = Attempts

(* A start ends, whatever the database does meanwhile: in an API that      *)
(* serves or in a process that has stopped.                                *)
StartsEnd ==
  \A p \in Procs : pc[p] # "off" ~> pc[p] \in {"serving", "off"}
=============================================================================
