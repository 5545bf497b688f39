CONSTANTS
  tickCb = tickCb
  userCb = userCb
  NULL = NULL
  Callbacks = {userCb}
  Priorities = {0, 1}
  AppEvents = {0, 4}
  NetEvents = {0}
  MainOps = {"on"}
  CallbackOps = {"trigger"}
  EarlyTraffic = TRUE
  MainAssignsGlobals = TRUE
  ConfigSlowDown = 1
  TickTimes = {1}
  Second = 2
  UintMod = 3
  MaxOps = 4
  MaxTicksQueued = 1
SPECIFICATION Spec
CHECK_DEADLOCK FALSE
INVARIANTS NeverCallsNull
