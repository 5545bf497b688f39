CONSTANTS
  tickCb = tickCb
  userCb = userCb
  NULL = NULL
  Callbacks = {userCb}
  Priorities = {1}
  AppEvents = {2}
  NetEvents = {0}
  MainOps = {"on", "timer"}
  CallbackOps = {"trigger"}
  EarlyTraffic = FALSE
  MainAssignsGlobals = FALSE
  ConfigSlowDown = 1
  TickTimes = {1}
  Second = 2
  UintMod = 3
  MaxOps = 3
  MaxTicksQueued = 1
SPECIFICATION Spec
CHECK_DEADLOCK FALSE
INVARIANTS TimerRuns
