SPECIFICATION BarrierSpec
CONSTANTS
  NUM_CHIPS_X = 2
  NUM_CHIPS_Y = 2
  NUM_CPUS = 3
  NUM_ROUTES = 4
  QUEUE_SIZE = 4
  SOCKET_SIZE = 5
  RDYGO = RDYGO
  RDY1 = RDY1
  RDY2 = RDY2
  GO = GO
  appKey = appKey
  Keys = {RDYGO, RDY1, RDY2, GO, appKey}
  Senders = {}
  AppEntries <- appEntries
  Tables <- unsetTables
  MaxSends = 1
  core_map <- northChip
  Timeouts = {"waitRouter", "waitLock"}
  MaxLaunches = 2
INVARIANTS BarrierTypeOK NeverOvercounts RootStays
PROPERTIES NoneStartsEarly
