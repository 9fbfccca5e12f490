CONSTANTS
  p1 = p1
  p2 = p2
  Admin = "root"
  Attempts = 4
  BaseDelay = 1
  MaxDelay = 2
  MaxOutages = 1
  MaxKills = 1
  Procs <- TwoProcs
  Names <- ThreeNames
  Roles <- TwoRoles
SPECIFICATION Spec
CHECK_DEADLOCK FALSE
INVARIANTS
  AccountsHaveAnOrigin
  NoLockoutWithoutAnOutage
  TheWaitIsBounded
PROPERTIES
  StartsEnd
