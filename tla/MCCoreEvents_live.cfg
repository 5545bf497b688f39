CONSTANTS
  tickCb = tickCb
  userCb = userCb
  NULL = NULL
  Callbacks = {userCb}
  Priorities = {0, 1, 2}
  AppEvents = {0, 2}
  NetEvents = {0}
  MainOps = {"on", "timer"}
  CallbackOps = {"off", "timer", "stop"}
  EarlyTraffic = FALSE
  MainAssignsGlobals = TRUE
  ConfigSlowDown = 1
  TickTimes = {1}
  Second = 2
  UintMod = 3
  MaxOps = 5
  MaxTicksQueued = 1
SPECIFICATION FairSpec
CHECK_DEADLOCK FALSE
INVARIANTS HandlerNeverSelfDeadlocks
PROPERTIES EventsEventuallyRun StopEndsLoop
