---------------------------- MODULE StartupProofs ----------------------------
(***************************************************************************)
(* For any number of processes, of outages and of kills: every account has *)
(* an origin, nobody is locked out but by an outage, and the wait for the  *)
(* database is bounded, whatever the policy of its retries.  A process that*)
(* has found the table empty may insert much later; what saves the table   *)
(* is that a row may only have come from another process of the same       *)
(* settings, so the unique name refuses the second one.                    *)
(***************************************************************************)
EXTENDS StartupProperties, TLAPS

USE StartupAssumption DEF StartupAssumption

(* Its facts about numbers; the floor plays no part.                       *)
Numbers == INSTANCE GridProofs WITH Width <- 1, Height <- 1

IsAdmin(u) == u.role = "admin"

(* Rows and processes, as far as the argument needs them.                  *)
AccountTypeOK ==
  /\ users \subseteq Rows
  /\ pc \in [Procs -> Places]
  /\ skipped \in [Procs -> BOOLEAN]
  /\ pending \in [Procs -> Rows \cup {NoOne}]

(* Who is about to be inserted: somebody an admin has asked for ...        *)
RegistrationsAreByAdmins ==
  \A p \in Procs : pending[p] # NoOne =>
    /\ pending[p].by \in Names
    /\ \E u \in users : u.name = pending[p].by /\ IsAdmin(u)

(* ... or the bootstrap admin, over a table in which, if it is not empty   *)
(* any more, the name is taken.                                            *)
LateInsertsAreRefused ==
  \A p \in Procs : pc[p] = "insert" =>
    users = {} \/ \E u \in users : u.name = Admin

(* A start that is past the bootstrap knows whether it has met an error.   *)
NobodyIsForgotten ==
  \A p \in Procs :
    pc[p] \in {"probe", "serving"} /\ settings.bootstraps /\ users = {} => skipped[p]

StartInv ==
  /\ AccountTypeOK
  /\ AccountsHaveAnOrigin
  /\ RegistrationsAreByAdmins
  /\ LateInsertsAreRefused
  /\ NobodyIsForgotten

LEMMA StartInvInit == Init => StartInv
<1> SUFFICES ASSUME Init PROVE StartInv
  OBVIOUS
<1>1. AccountTypeOK
  BY DEF Init, AccountTypeOK, Rows, Places
<1>2. AccountsHaveAnOrigin
  BY DEF Init, AccountsHaveAnOrigin
<1>3. RegistrationsAreByAdmins /\ LateInsertsAreRefused /\ NobodyIsForgotten
  BY DEF Init, RegistrationsAreByAdmins, LateInsertsAreRefused, NobodyIsForgotten
<1> QED BY <1>1, <1>2, <1>3 DEF StartInv

-----------------------------------------------------------------------------
(* Steps that write no row.                                                *)

LEMMA PlacesKeepTheInvariant ==
  ASSUME StartInv, UNCHANGED <<settings, users, pending>>,
         NEW p \in Procs, NEW place \in Places,
         pc' = [pc EXCEPT ![p] = place],
         skipped' \in [Procs -> BOOLEAN],
         \A r \in Procs \ {p} : skipped'[r] = skipped[r],
         place = "insert" => users = {} \/ pc[p] = "insert",
         place \in {"probe", "serving"} /\ settings.bootstraps /\ users = {}
           => skipped'[p]
  PROVE  StartInv'
<1> USE DEF StartInv
<1>1. AccountTypeOK' /\ AccountsHaveAnOrigin' /\ RegistrationsAreByAdmins'
  BY DEF AccountTypeOK, AccountsHaveAnOrigin, RegistrationsAreByAdmins
<1>2. LateInsertsAreRefused'
  BY DEF AccountTypeOK, LateInsertsAreRefused
<1>3. NobodyIsForgotten'
  BY DEF AccountTypeOK, NobodyIsForgotten
<1> QED BY <1>1, <1>2, <1>3

LEMMA BootKeeps ==
  ASSUME StartInv, NEW p \in Procs,
         \/ Start(p) \/ Migrate(p) \/ CheckTables(p) \/ CreateTables(p)
         \/ CountUsers(p) \/ Probe(p)
  PROVE  StartInv'
<1> USE DEF OnlyMoves, Goto, envVars, Places
<1>0. pc \in [Procs -> Places] /\ skipped \in [Procs -> BOOLEAN]
      /\ (pc[p] = "probe" /\ settings.bootstraps /\ users = {} => skipped[p])
  BY DEF StartInv, AccountTypeOK, NobodyIsForgotten
<1>1. CASE Start(p) \/ Migrate(p) \/ CheckTables(p) \/ CreateTables(p)
  <2>1. PICK place \in {"off", "migrate", "check_tables", "create_tables", "count"} :
          pc' = [pc EXCEPT ![p] = place]
    BY <1>1 DEF Start, Migrate, CheckTables, CreateTables
  <2>2. UNCHANGED <<settings, users, pending, skipped>>
    BY <1>1 DEF Start, Migrate, CheckTables, CreateTables
  <2> QED BY <1>0, <2>1, <2>2, PlacesKeepTheInvariant
<1>2. CASE CountUsers(p)
  <2>1. CASE ~ settings.bootstraps
    BY <1>0, <1>2, <2>1, PlacesKeepTheInvariant DEF CountUsers
  <2>2. CASE settings.bootstraps /\ ~ (up /\ schema)
    <3>1. skipped' = [skipped EXCEPT ![p] = TRUE] /\ pc' = [pc EXCEPT ![p] = "probe"]
          /\ UNCHANGED <<settings, users, pending>>
      BY <1>2, <2>2 DEF CountUsers, SkipBootstrap
    <3> QED BY <1>0, <3>1, PlacesKeepTheInvariant
  <2>3. CASE settings.bootstraps /\ up /\ schema
    BY <1>0, <1>2, <2>3, PlacesKeepTheInvariant DEF CountUsers, UsersTableIsEmpty
  <2> QED BY <2>1, <2>2, <2>3
<1>3. CASE Probe(p)
  <2>1. pc' = [pc EXCEPT ![p] = "serving"] \/ pc' = [pc EXCEPT ![p] = "probe"]
    BY <1>0, <1>3 DEF Probe
  <2>2. UNCHANGED <<settings, users, pending, skipped>> /\ pc[p] = "probe"
    BY <1>3 DEF Probe
  <2> QED BY <1>0, <2>1, <2>2, PlacesKeepTheInvariant
<1> QED BY <1>1, <1>2, <1>3

LEMMA SkippingKeeps ==
  ASSUME StartInv, NEW p \in Procs, SkipBootstrap(p)
  PROVE  StartInv'
<1>1. /\ skipped' = [skipped EXCEPT ![p] = TRUE] /\ pc' = [pc EXCEPT ![p] = "probe"]
      /\ UNCHANGED <<settings, users, pending>>
  BY DEF SkipBootstrap, Goto, envVars
<1>2. skipped \in [Procs -> BOOLEAN]
  BY DEF StartInv, AccountTypeOK
<1> QED BY <1>1, <1>2, PlacesKeepTheInvariant DEF Places

-----------------------------------------------------------------------------
(* Rows.                                                                   *)

LEMMA InsertKeeps ==
  ASSUME StartInv, NEW p \in Procs, InsertAdmin(p)
  PROVE  StartInv'
<1> DEFINE row == [name |-> Admin, role |-> "admin", by |-> p]
<1>1. CASE up /\ NameIsFree(Admin)
  <2>1. /\ users = {} /\ users' = {row} /\ pc' = [pc EXCEPT ![p] = "probe"]
        /\ UNCHANGED <<settings, skipped, pending>>
    BY <1>1 DEF InsertAdmin, NameIsFree, StartInv, LateInsertsAreRefused, Goto, envVars
  <2>2. row \in Rows /\ row.by \notin Names
    BY DEF Rows
  <2>3. AccountTypeOK'
    BY <2>1, <2>2 DEF StartInv, AccountTypeOK, Places
  <2>4. AccountsHaveAnOrigin'
    BY <2>1, <2>2 DEF AccountsHaveAnOrigin
  <2>5. \A q \in Procs : pending[q] = NoOne
    BY <2>1 DEF StartInv, RegistrationsAreByAdmins
  <2>6. RegistrationsAreByAdmins' /\ NobodyIsForgotten'
    BY <2>1, <2>5 DEF RegistrationsAreByAdmins, NobodyIsForgotten
  <2>7. LateInsertsAreRefused'
    BY <2>1 DEF LateInsertsAreRefused
  <2> QED BY <2>3, <2>4, <2>6, <2>7 DEF StartInv
<1>2. CASE ~ (up /\ NameIsFree(Admin))
  BY <1>2, SkippingKeeps DEF InsertAdmin
<1> QED BY <1>1, <1>2

LEMMA RegisterKeeps ==
  ASSUME StartInv, NEW p \in Procs, NEW n \in Names, NEW r \in Roles, Register(p, n, r)
  PROVE  StartInv'
<1>1. PICK u \in users :
        /\ MayRegister(u)
        /\ pending' = [pending EXCEPT ![p] = [name |-> n, role |-> r, by |-> u.name]]
  BY DEF Register
<1>2. UNCHANGED <<settings, users, pc, skipped>>
  BY DEF Register, envVars
<1>3. u.name \in Names
  BY DEF StartInv, AccountTypeOK, Rows
<1>4. [name |-> n, role |-> r, by |-> u.name] \in Rows
  BY <1>3 DEF Rows
<1>5. AccountTypeOK'
  BY <1>1, <1>2, <1>4 DEF StartInv, AccountTypeOK
<1>6. RegistrationsAreByAdmins'
  BY <1>1, <1>2, <1>3 DEF StartInv, AccountTypeOK, RegistrationsAreByAdmins, MayRegister,
                          IsAdmin
<1> QED BY <1>2, <1>5, <1>6 DEF StartInv, AccountsHaveAnOrigin, LateInsertsAreRefused,
                                NobodyIsForgotten

LEMMA FinishRegisterKeeps ==
  ASSUME StartInv, NEW p \in Procs, FinishRegister(p)
  PROVE  StartInv'
<1> DEFINE row == pending[p]
<1>1. /\ row # NoOne /\ pending' = [pending EXCEPT ![p] = NoOne]
      /\ UNCHANGED <<settings, pc, skipped>>
  BY DEF FinishRegister, envVars
<1>2. row \in Rows /\ row.by \in Names
  BY <1>1 DEF StartInv, AccountTypeOK, RegistrationsAreByAdmins
<1>3. PICK v \in users : v.name = row.by /\ IsAdmin(v)
  BY <1>1 DEF StartInv, RegistrationsAreByAdmins
<1>4. users' = users \/ (users' = users \cup {row} /\ NameIsFree(row.name))
  BY DEF FinishRegister
<1>5. AccountTypeOK' /\ RegistrationsAreByAdmins'
  BY <1>1, <1>2, <1>4 DEF StartInv, AccountTypeOK, RegistrationsAreByAdmins
<1>6. AccountsHaveAnOrigin'
  <2>1. CASE users' = users
    BY <2>1 DEF StartInv, AccountsHaveAnOrigin
  <2>2. CASE users' = users \cup {row} /\ NameIsFree(row.name)
    <3>1. row \notin users /\ row.by \notin Procs
      BY <1>2, <2>2 DEF NameIsFree
    <3>2. \A u \in users' : u.by \in Procs => \A w \in users' : w.by \in Names \/ w = u
      BY <1>2, <2>2, <3>1 DEF StartInv, AccountsHaveAnOrigin
    <3>3. \A u \in users' : u.by \in Names =>
            \E w \in users' : w.name = u.by /\ w.role = "admin" /\ w # u
      <4> SUFFICES ASSUME NEW u \in users', u.by \in Names
                   PROVE  \E w \in users' : w.name = u.by /\ w.role = "admin" /\ w # u
        OBVIOUS
      <4>1. CASE u \in users
        BY <2>2, <4>1 DEF StartInv, AccountsHaveAnOrigin
      <4>2. CASE u = row
        BY <1>3, <2>2, <3>1, <4>2 DEF IsAdmin
      <4> QED BY <2>2, <4>1, <4>2
    <3>4. \A u, w \in users' : u.name = w.name => u = w
      BY <2>2 DEF StartInv, AccountsHaveAnOrigin, NameIsFree
    <3> QED BY <3>2, <3>3, <3>4 DEF AccountsHaveAnOrigin
  <2> QED BY <1>4, <2>1, <2>2
<1>7. LateInsertsAreRefused' /\ NobodyIsForgotten'
  BY <1>1, <1>3, <1>4 DEF StartInv, LateInsertsAreRefused, NobodyIsForgotten
<1> QED BY <1>5, <1>6, <1>7 DEF StartInv

-----------------------------------------------------------------------------
(* The world.                                                              *)

LEMMA KillKeeps ==
  ASSUME StartInv, NEW p \in Procs, Kill(p)
  PROVE  StartInv'
<1>1. /\ pc' = [pc EXCEPT ![p] = "off"] /\ skipped' = [skipped EXCEPT ![p] = FALSE]
      /\ pending' = [pending EXCEPT ![p] = NoOne]
      /\ UNCHANGED <<settings, users>>
  BY DEF Kill, Goto, Fresh
<1>2. AccountTypeOK' /\ RegistrationsAreByAdmins'
  BY <1>1 DEF StartInv, AccountTypeOK, RegistrationsAreByAdmins, Places
<1>3. LateInsertsAreRefused' /\ NobodyIsForgotten'
  BY <1>1 DEF StartInv, AccountTypeOK, LateInsertsAreRefused, NobodyIsForgotten
<1> QED BY <1>1, <1>2, <1>3 DEF StartInv, AccountsHaveAnOrigin

LEMMA OthersKeep ==
  ASSUME StartInv, GoAway \/ ComeBack \/ MigrateByHand \/ UNCHANGED vars
  PROVE  StartInv'
<1>1. UNCHANGED <<settings, users, pc, skipped, pending>>
  BY DEF GoAway, ComeBack, MigrateByHand, vars, envVars, procVars
<1> QED BY <1>1 DEF StartInv, AccountTypeOK, AccountsHaveAnOrigin,
                    RegistrationsAreByAdmins, LateInsertsAreRefused, NobodyIsForgotten

LEMMA StartInvStep == StartInv /\ [Next]_vars => StartInv'
<1> SUFFICES ASSUME StartInv, [Next]_vars PROVE StartInv'
  OBVIOUS
<1> QED BY BootKeeps, InsertKeeps, RegisterKeeps, FinishRegisterKeeps, KillKeeps,
           OthersKeep DEF Next, Boot

-----------------------------------------------------------------------------
(* Why the two below hold, at every moment of every run.                   *)
THEOREM StartInvariance == Spec => []StartInv
  BY StartInvInit, StartInvStep, PTL DEF Spec

(* One bootstrap row at most, over an empty table only; every other        *)
(* account was asked for by an admin; no name twice (auth_service.py).     *)
THEOREM EveryAccountHasAnOrigin == Spec => []AccountsHaveAnOrigin
<1>1. StartInv => AccountsHaveAnOrigin
  BY DEF StartInv
<1> QED BY <1>1, StartInvariance, PTL

(* A fresh database is never locked out unless the start met an outage     *)
(* (app.py).                                                               *)
THEOREM OnlyOutagesLockOut == Spec => []NoLockoutWithoutAnOutage
<1>1. StartInv => NoLockoutWithoutAnOutage
  BY DEF StartInv, NobodyIsForgotten, NoLockoutWithoutAnOutage, Ready
<1> QED BY <1>1, StartInvariance, PTL
-----------------------------------------------------------------------------
(* The wait.                                                               *)

(* Powers of two are what they are defined to be.                          *)
LEMMA PowersOfTwo ==
  /\ TwoTo \in [0 .. Attempts -> Nat] /\ TwoTo[0] = 1
  /\ \A n \in 1 .. Attempts : TwoTo[n] = 2 * TwoTo[n-1]
<1> DEFINE Twice == [p \in (1 .. Attempts) \X Nat |-> 2 * p[2]]
           G(g) == [n \in 0 .. Attempts |-> IF n = 0 THEN 1 ELSE 2 * g[n-1]]
<1>1. Twice \in Numbers!Rules(Attempts, Nat)
  BY DEF Numbers!Rules
<1>2. PICK f : Numbers!Follows(f, Attempts, Nat, 1, Twice)
  <2>1. 1 \in Nat /\ Attempts \in Nat
    OBVIOUS
  <2> HIDE DEF Twice
  <2>. QED  BY <1>1, <2>1, Numbers!LayersExist
<1>3. /\ f \in [0 .. Attempts -> Nat] /\ f[0] = 1
      /\ \A n \in 1 .. Attempts : f[n] = Twice[<<n, f[n-1]>>]
  BY <1>2 DEF Numbers!Follows
<1>4. \A n \in 1 .. Attempts : f[n] = 2 * f[n-1]
  <2>1. \A n \in 1 .. Attempts : <<n, f[n-1]>> \in (1 .. Attempts) \X Nat
    BY <1>3
  <2>. QED  BY <1>3, <2>1
<1>5. f = G(f)
  BY <1>3, <1>4
<1>6. TwoTo = CHOOSE g : g = G(g)
  BY Zenon DEF TwoTo
<1> HIDE DEF G
<1>7. TwoTo = G(TwoTo)
  BY <1>5, <1>6
<1>8. TwoTo = [n \in 0 .. Attempts |-> IF n = 0 THEN 1 ELSE 2 * TwoTo[n-1]]
  BY Zenon, <1>7 DEF G
<1>9. /\ DOMAIN TwoTo = 0 .. Attempts /\ TwoTo[0] = 1
      /\ \A n \in 1 .. Attempts : TwoTo[n] = 2 * TwoTo[n-1]
  BY <1>8
<1> DEFINE S == {n \in 0 .. Attempts : TwoTo[n] \in Nat}
<1>10. 0 \in S
  BY <1>9
<1>11. ASSUME NEW n \in 0 .. Attempts - 1, n \in S PROVE n + 1 \in S
  <2>1. n + 1 \in 1 .. Attempts /\ (n + 1) - 1 = n /\ n + 1 \in 0 .. Attempts
    OBVIOUS
  <2>. QED  BY <1>9, <1>11, <2>1
<1>12. 0 \in Nat /\ Attempts \in Nat
  OBVIOUS
<1> HIDE DEF S
<1>13. 0 .. Attempts \subseteq S
  BY <1>10, <1>11, <1>12, Numbers!IntervalInduction
<1>14. \A n \in 0 .. Attempts : TwoTo[n] \in Nat
  BY <1>13 DEF S
<1>15. TwoTo \in [0 .. Attempts -> Nat]
  <2>1. TwoTo = [n \in 0 .. Attempts |-> TwoTo[n]]
    BY <1>8, <1>9
  <2>. QED  BY <1>14, <2>1
<1>. QED  BY <1>9, <1>15

LEMMA DelayIsCapped ==
  ASSUME NEW n \in 2 .. Attempts
  PROVE  DelayFor(n) \in Nat /\ DelayFor(n) <= MaxDelay /\ DelayFor(n) <= BaseDelay * TwoTo[n-2]
<1>1. TwoTo[n-2] \in Nat
  <2>1. n - 2 \in 0 .. Attempts
    OBVIOUS
  <2>. QED  BY <2>1, PowersOfTwo
<1>2. Backoff(n) = BaseDelay * TwoTo[n-2] /\ Backoff(n) \in Nat
  BY <1>1 DEF Backoff
<1>. QED  BY <1>2 DEF DelayFor

(* A failed attempt sleeps once more, within both bounds.                  *)
LEMMA OneMoreSleep ==
  ASSUME NEW a \in 1 .. Attempts - 1, NEW w \in Nat,
         w <= (a - 1) * MaxDelay, w <= BaseDelay * (TwoTo[a-1] - 1)
  PROVE  /\ w + DelayFor(a + 1) \in Nat
         /\ w + DelayFor(a + 1) <= ((a + 1) - 1) * MaxDelay
         /\ w + DelayFor(a + 1) <= BaseDelay * (TwoTo[(a + 1) - 1] - 1)
<1> DEFINE d == DelayFor(a + 1)
           k == TwoTo[a-1]
<1>1. d \in Nat /\ d <= MaxDelay /\ d <= BaseDelay * k
  <2>1. a + 1 \in 2 .. Attempts /\ (a + 1) - 2 = a - 1
    OBVIOUS
  <2>. QED  BY <2>1, DelayIsCapped
<1>2. k \in Nat /\ TwoTo[(a + 1) - 1] = 2 * k
  <2>1. a \in 1 .. Attempts /\ a - 1 \in 0 .. Attempts /\ (a + 1) - 1 = a
    OBVIOUS
  <2>. QED  BY <2>1, PowersOfTwo
<1> HIDE DEF d, k
<1>3. w + d <= ((a + 1) - 1) * MaxDelay
  <2>1. ((a + 1) - 1) * MaxDelay = (a - 1) * MaxDelay + MaxDelay
    OBVIOUS
  <2>2. (a - 1) * MaxDelay \in Nat
    OBVIOUS
  <2>. QED  BY <1>1, <2>1, <2>2
<1>4. w + d <= BaseDelay * (2 * k - 1)
  <2>1. BaseDelay * (2 * k - 1) = BaseDelay * (k - 1) + BaseDelay * k
    BY <1>2
  <2>2. BaseDelay * (k - 1) \in Int /\ BaseDelay * k \in Int
    BY <1>2
  <2>3. w <= BaseDelay * (k - 1)
    BY DEF k
  <2>. QED  BY <1>1, <2>1, <2>2, <2>3
<1>. QED  BY <1>1, <1>2, <1>3, <1>4 DEF d

(* Inductive: the sleeps so far, by the number of attempts.                *)
WaitInv ==
  /\ TypeOK
  /\ \A p \in Procs :
       /\ waited[p] <= (attempt[p] - 1) * MaxDelay
       /\ waited[p] <= BaseDelay * (TwoTo[attempt[p] - 1] - 1)
       /\ pc[p] = "serving" /\ ~ found[p] => attempt[p] = Attempts

LEMMA FirstAttempt == 1 \in 1 .. Attempts /\ (1 - 1) * MaxDelay = 0
                      /\ BaseDelay * (TwoTo[1 - 1] - 1) = 0
BY PowersOfTwo

LEMMA WaitInvInit == Init => WaitInv
<1> SUFFICES ASSUME Init PROVE WaitInv
  OBVIOUS
<1>1. TypeOK
  <2>1. users \subseteq Rows /\ pc \in [Procs -> Places] /\ pending \in [Procs -> Rows \cup {NoOne}]
    BY DEF Init, Rows, Places
  <2>2. /\ settings \in Flags /\ up \in BOOLEAN /\ schema \in BOOLEAN
        /\ attempt \in [Procs -> 1 .. Attempts] /\ waited \in [Procs -> Nat]
        /\ found \in [Procs -> BOOLEAN] /\ skipped \in [Procs -> BOOLEAN]
        /\ outages \in 0 .. MaxOutages /\ kills \in 0 .. MaxKills
    BY FirstAttempt DEF Init
  <2>. QED  BY <2>1, <2>2 DEF TypeOK
<1>2. ASSUME NEW p \in Procs
      PROVE  attempt[p] = 1 /\ waited[p] = 0 /\ pc[p] = "off"
  BY DEF Init
<1>. QED  BY <1>1, <1>2, FirstAttempt DEF WaitInv
-----------------------------------------------------------------------------
(* Steps of one process, and of the world.                                 *)

(* Where a process goes does not matter, as long as it is not the end.     *)
LEMMA MovesKeepTheWait ==
  ASSUME WaitInv, TypeOK', UNCHANGED <<attempt, waited, found>>,
         \A p \in Procs : pc'[p] = "serving" => pc[p] = "serving"
  PROVE  WaitInv'
BY DEF WaitInv

(* A process that is not yet serving, or not there any more, moves.        *)
LEMMA BootMoves ==
  ASSUME TypeOK, NEW p \in Procs,
         Start(p) \/ Migrate(p) \/ CheckTables(p) \/ CreateTables(p)
           \/ CountUsers(p) \/ InsertAdmin(p)
  PROVE  /\ TypeOK' /\ UNCHANGED <<attempt, waited, found>>
         /\ \A q \in Procs : pc'[q] = "serving" => pc[q] = "serving"
<1>1. /\ UNCHANGED <<attempt, waited, found, pending, settings, up, outages, kills>>
      /\ skipped' \in {skipped, [skipped EXCEPT ![p] = TRUE]}
      /\ \E place \in Places \ {"serving"} : pc' = [pc EXCEPT ![p] = place]
  BY DEF Start, Migrate, CheckTables, CreateTables, CountUsers, InsertAdmin, SkipBootstrap,
         OnlyMoves, Goto, envVars, Places
<1>2. schema' \in BOOLEAN
  BY DEF TypeOK, Start, Migrate, CheckTables, CreateTables, CountUsers, InsertAdmin,
         SkipBootstrap, OnlyMoves, envVars
<1>3. users' \subseteq Rows
  <2>1. users' = users \/ users' = users \cup {[name |-> Admin, role |-> "admin", by |-> p]}
    BY DEF Start, Migrate, CheckTables, CreateTables, CountUsers, InsertAdmin,
           SkipBootstrap, OnlyMoves
  <2>. QED  BY <2>1 DEF TypeOK, Rows
<1>4. pc' \in [Procs -> Places] /\ \A q \in Procs : pc'[q] = "serving" => pc[q] = "serving"
  BY <1>1 DEF TypeOK
<1>5. skipped' \in [Procs -> BOOLEAN]
  BY <1>1 DEF TypeOK
<1>. QED  BY <1>1, <1>2, <1>3, <1>4, <1>5 DEF TypeOK

LEMMA ProbeKeepsTheWait ==
  ASSUME WaitInv, NEW p \in Procs, Probe(p)
  PROVE  WaitInv'
<1>1. TypeOK
  BY DEF WaitInv
<1>2. UNCHANGED <<settings, up, schema, users, outages, kills, skipped, pending>>
  BY DEF Probe, envVars
<1>3. CASE up \/ attempt[p] = Attempts
  <2>1. /\ pc' = [pc EXCEPT ![p] = "serving"] /\ found' = [found EXCEPT ![p] = up]
        /\ UNCHANGED <<attempt, waited>>
    BY <1>3 DEF Probe, Goto
  <2>2. TypeOK'
    BY <1>1, <1>2, <2>1 DEF TypeOK, Places
  <2>3. ASSUME NEW q \in Procs, pc'[q] = "serving", ~ found'[q] PROVE attempt[q] = Attempts
    BY <1>1, <1>3, <2>1, <2>3 DEF WaitInv, TypeOK
  <2>. QED  BY <2>1, <2>2, <2>3 DEF WaitInv
<1>4. CASE ~ (up \/ attempt[p] = Attempts)
  <2>1. /\ attempt' = [attempt EXCEPT ![p] = attempt[p] + 1]
        /\ waited' = [waited EXCEPT ![p] = waited[p] + DelayFor(attempt[p] + 1)]
        /\ UNCHANGED <<pc, found>> /\ pc[p] = "probe"
    BY <1>4 DEF Probe
  <2>2. attempt[p] \in 1 .. Attempts - 1 /\ waited[p] \in Nat
    BY <1>1, <1>4 DEF TypeOK
  <2>3. /\ waited[p] + DelayFor(attempt[p] + 1) \in Nat
        /\ waited[p] + DelayFor(attempt[p] + 1) <= ((attempt[p] + 1) - 1) * MaxDelay
        /\ waited[p] + DelayFor(attempt[p] + 1)
             <= BaseDelay * (TwoTo[(attempt[p] + 1) - 1] - 1)
    BY <2>2, OneMoreSleep DEF WaitInv
  <2>4. attempt' \in [Procs -> 1 .. Attempts] /\ waited' \in [Procs -> Nat]
    BY <1>1, <2>1, <2>2, <2>3 DEF TypeOK
  <2>5. TypeOK'
    BY <1>1, <1>2, <2>1, <2>4 DEF TypeOK
  <2>6. /\ waited'[p] = waited[p] + DelayFor(attempt[p] + 1)
        /\ attempt'[p] = attempt[p] + 1
        /\ \A q \in Procs \ {p} : waited'[q] = waited[q] /\ attempt'[q] = attempt[q]
    BY <1>1, <2>1 DEF TypeOK
  <2>7. ASSUME NEW q \in Procs
        PROVE  /\ waited'[q] <= (attempt'[q] - 1) * MaxDelay
               /\ waited'[q] <= BaseDelay * (TwoTo[attempt'[q] - 1] - 1)
               /\ pc'[q] = "serving" /\ ~ found'[q] => attempt'[q] = Attempts
    <3>1. CASE q = p
      BY <2>1, <2>3, <2>6, <3>1
    <3>2. CASE q # p
      BY <2>1, <2>6, <3>2 DEF WaitInv
    <3>. QED  BY <3>1, <3>2
  <2>. QED  BY <2>5, <2>7 DEF WaitInv
<1>. QED  BY <1>3, <1>4

LEMMA RegistrationKeepsTheWait ==
  ASSUME WaitInv, NEW p \in Procs,
         FinishRegister(p) \/ \E n \in Names, r \in Roles : Register(p, n, r)
  PROVE  WaitInv'
<1>1. TypeOK
  BY DEF WaitInv
<1>2. UNCHANGED <<settings, up, schema, outages, kills, pc, attempt, waited, found, skipped>>
  BY DEF FinishRegister, Register, envVars
<1>3. users' \subseteq Rows /\ pending' \in [Procs -> Rows \cup {NoOne}]
  <2>1. CASE FinishRegister(p)
    <3>1. /\ users' \in {users, users \cup {pending[p]}} /\ pending[p] # NoOne
          /\ pending' = [pending EXCEPT ![p] = NoOne]
      BY <2>1 DEF FinishRegister
    <3>2. pending[p] \in Rows
      BY <1>1, <3>1 DEF TypeOK
    <3>. QED  BY <1>1, <3>1, <3>2 DEF TypeOK
  <2>2. ASSUME NEW n \in Names, NEW r \in Roles, Register(p, n, r)
        PROVE  users' \subseteq Rows /\ pending' \in [Procs -> Rows \cup {NoOne}]
    <3>1. PICK u \in users : pending' = [pending EXCEPT ![p] = [name |-> n, role |-> r, by |-> u.name]]
      BY <2>2 DEF Register
    <3>2. [name |-> n, role |-> r, by |-> u.name] \in Rows
      BY <1>1 DEF TypeOK, Rows
    <3>3. users' = users
      BY <2>2 DEF Register
    <3>. QED  BY <1>1, <3>1, <3>2, <3>3 DEF TypeOK
  <2>. QED  BY <2>1, <2>2
<1>4. TypeOK'
  BY <1>1, <1>2, <1>3 DEF TypeOK
<1>. QED  BY <1>2, <1>4, MovesKeepTheWait

LEMMA KillKeepsTheWait ==
  ASSUME WaitInv, NEW p \in Procs, Kill(p)
  PROVE  WaitInv'
<1>1. TypeOK
  BY DEF WaitInv
<1>2. /\ kills < MaxKills /\ kills' = kills + 1
      /\ pc' = [pc EXCEPT ![p] = "off"]
      /\ attempt' = [attempt EXCEPT ![p] = 1] /\ waited' = [waited EXCEPT ![p] = 0]
      /\ found' = [found EXCEPT ![p] = FALSE] /\ skipped' = [skipped EXCEPT ![p] = FALSE]
      /\ pending' = [pending EXCEPT ![p] = NoOne]
      /\ UNCHANGED <<settings, up, schema, outages, users>>
  BY DEF Kill, Goto, Fresh
<1>3. TypeOK'
  <2>1. kills' \in 0 .. MaxKills
    BY <1>1, <1>2 DEF TypeOK
  <2>2. attempt' \in [Procs -> 1 .. Attempts] /\ waited' \in [Procs -> Nat]
    BY <1>1, <1>2, FirstAttempt DEF TypeOK
  <2>3. /\ pc' \in [Procs -> Places] /\ found' \in [Procs -> BOOLEAN]
        /\ skipped' \in [Procs -> BOOLEAN] /\ pending' \in [Procs -> Rows \cup {NoOne}]
    BY <1>1, <1>2 DEF TypeOK, Places
  <2>. QED  BY <1>1, <1>2, <2>1, <2>2, <2>3 DEF TypeOK
<1>4. /\ attempt'[p] = 1 /\ waited'[p] = 0 /\ pc'[p] = "off"
      /\ \A q \in Procs \ {p} : /\ attempt'[q] = attempt[q] /\ waited'[q] = waited[q]
                                /\ pc'[q] = pc[q] /\ found'[q] = found[q]
  BY <1>1, <1>2 DEF TypeOK
<1>5. ASSUME NEW q \in Procs
      PROVE  /\ waited'[q] <= (attempt'[q] - 1) * MaxDelay
             /\ waited'[q] <= BaseDelay * (TwoTo[attempt'[q] - 1] - 1)
             /\ pc'[q] = "serving" /\ ~ found'[q] => attempt'[q] = Attempts
  <2>1. CASE q = p
    BY <1>4, <2>1, FirstAttempt
  <2>2. CASE q # p
    BY <1>4, <2>2 DEF WaitInv
  <2>. QED  BY <2>1, <2>2
<1>. QED  BY <1>3, <1>5 DEF WaitInv

LEMMA WorldKeepsTheWait ==
  ASSUME WaitInv, GoAway \/ ComeBack \/ MigrateByHand \/ UNCHANGED vars
  PROVE  WaitInv'
<1>1. TypeOK
  BY DEF WaitInv
<1>2. UNCHANGED <<settings, kills, users, pc, attempt, waited, found, skipped, pending>>
  BY DEF GoAway, ComeBack, MigrateByHand, vars, envVars, procVars
<1>3. up' \in BOOLEAN /\ schema' \in BOOLEAN /\ outages' \in 0 .. MaxOutages
  <2>1. \/ up' = FALSE /\ schema' = schema /\ outages < MaxOutages /\ outages' = outages + 1
        \/ up' = TRUE /\ UNCHANGED <<schema, outages>>
        \/ schema' = TRUE /\ UNCHANGED <<up, outages>>
        \/ UNCHANGED <<up, schema, outages>>
    BY DEF GoAway, ComeBack, MigrateByHand, vars, envVars
  <2>2. up' \in BOOLEAN /\ schema' \in BOOLEAN
    BY <1>1, <2>1 DEF TypeOK
  <2>3. outages' \in 0 .. MaxOutages
    BY <1>1, <2>1 DEF TypeOK
  <2>. QED  BY <2>2, <2>3
<1>4. TypeOK'
  BY <1>1, <1>2, <1>3 DEF TypeOK
<1>. QED  BY <1>2, <1>4, MovesKeepTheWait

LEMMA WaitInvStep == WaitInv /\ [Next]_vars => WaitInv'
<1> SUFFICES ASSUME WaitInv, [Next]_vars PROVE WaitInv'
  OBVIOUS
<1>1. ASSUME NEW p \in Procs,
             Start(p) \/ Migrate(p) \/ CheckTables(p) \/ CreateTables(p)
               \/ CountUsers(p) \/ InsertAdmin(p)
      PROVE  WaitInv'
  BY <1>1, BootMoves, MovesKeepTheWait DEF WaitInv
<1>. QED  BY <1>1, ProbeKeepsTheWait, RegistrationKeepsTheWait, KillKeepsTheWait,
             WorldKeepsTheWait DEF Next, Boot

(* However often the database goes away, a start waits for it no longer    *)
(* than its policy says, in time and in attempts, and gives up only after  *)
(* all of them (database.py, retry.py:78-84).                              *)
THEOREM WaitsEnd == Spec => []TheWaitIsBounded
<1>1. ASSUME WaitInv PROVE TheWaitIsBounded
  <2>1. ASSUME NEW p \in Procs PROVE waited[p] <= (Attempts - 1) * MaxDelay
    <3>1. attempt[p] \in 1 .. Attempts /\ waited[p] \in Nat
      BY <1>1 DEF WaitInv, TypeOK
    <3>2. waited[p] <= (attempt[p] - 1) * MaxDelay
      BY <1>1 DEF WaitInv
    <3>3. ASSUME NEW a \in 1 .. Attempts
          PROVE  (a - 1) * MaxDelay <= (Attempts - 1) * MaxDelay /\ (a - 1) * MaxDelay \in Nat
      <4>1. (Attempts - 1) * MaxDelay = (a - 1) * MaxDelay + (Attempts - a) * MaxDelay
        OBVIOUS
      <4>2. (Attempts - a) * MaxDelay \in Nat /\ (a - 1) * MaxDelay \in Nat
        <5>1. Attempts - a \in Nat /\ a - 1 \in Nat
          OBVIOUS
        <5>. QED  BY <5>1
      <4>. QED  BY <4>1, <4>2
    <3>4. (Attempts - 1) * MaxDelay \in Nat
      OBVIOUS
    <3>. QED  BY <3>1, <3>2, <3>3, <3>4
  <2>. QED  BY <1>1, <2>1 DEF WaitInv, TheWaitIsBounded
<1>. QED  BY <1>1, WaitInvInit, WaitInvStep, PTL DEF Spec
=============================================================================
