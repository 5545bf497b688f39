CONSTANTS
  tickCb = tickCb
  userCb = userCb
  NULL = NULL
  Callbacks = {userCb}
  Priorities = {0, 1}
  AppEvents = {0, 1, 2, 4}
  NetEvents = {0}
  MainOps = {"on", "timer"}
  CallbackOps = {"trigger", "off", "timer", "schedule", "stop", "kill", "disable", "restore", "dma"}
  EarlyTraffic = FALSE
  MainAssignsGlobals = TRUE
  ConfigSlowDown = 1
  TickTimes = {1}
  Second = 2
  UintMod = 3
  MaxOps = 6
  MaxTicksQueued = 1
SPECIFICATION Spec
CHECK_DEADLOCK FALSE
INVARIANTS TypeOK CallbacksRunUnlocked DequeueFindsEvent NeverCallsNull DisabledMeansNoHandler TimerAlive
PROPERTIES DeliverySpec
