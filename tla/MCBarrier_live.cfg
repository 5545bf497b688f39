SPECIFICATION BarrierFairSpec
CONSTANTS
  NUM_CHIPS_X = 2
  NUM_CHIPS_Y = 2
  NUM_CPUS = 3
  NUM_ROUTES = 4
  QUEUE_SIZE = 4
  SOCKET_SIZE = 5
  RDYGO = RDYGO
  RDY1 = RDY1
  RDY2 = RDY2
  GO = GO
  appKey = appKey
  Keys = {RDYGO, RDY1, RDY2, GO, appKey}
  Senders = {}
  AppEntries <- noEntries
  Tables <- unsetTables
  MaxSends = 0
  core_map <- twoAndOne
  Timeouts = {}
  MaxLaunches = 1
PROPERTIES EveryoneStarts
