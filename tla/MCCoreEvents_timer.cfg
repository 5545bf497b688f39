CONSTANTS
  tickCb = tickCb
  userCb = userCb
  NULL = NULL
  Callbacks = {userCb}
  Priorities = {0}
  AppEvents = {0}
  NetEvents = {0}
  MainOps = {"on", "timer"}
  CallbackOps = {"timer"}
  EarlyTraffic = FALSE
  MainAssignsGlobals = TRUE
  ConfigSlowDown = 1
  TickTimes = {1, 2}
  Second = 2
  UintMod = 4
  MaxOps = 4
  MaxTicksQueued = 1
SPECIFICATION Spec
CHECK_DEADLOCK FALSE
INVARIANTS TimerAlive
