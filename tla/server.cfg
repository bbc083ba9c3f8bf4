SPECIFICATION Spec
CONSTANTS
  p1 = p1  p2 = p2  u1 = u1  u2 = u2  r1 = r1  r2 = r2
  NoOne = NoOne
  Procs <- MCProcs
  Users <- MCUsers
  Requests <- MCRequests
  Knows <- MCKnows
  UsersVersion = 2
  TriggerVersion = 3
  LocksUsers <- MCLocksUsers
  UserLimits <- MCUserLimits
  Scenarios <- MCScenarios
  Limit = 1
  MaxCalls = 2
INVARIANTS MigratedOnce RoomKept ExternalOnlyIfAsked LateIsLocal UsageAccounted RefusedLeavesNothing
CHECK_DEADLOCK FALSE
