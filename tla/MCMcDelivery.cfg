SPECIFICATION RecordFairSpec
CONSTANTS
  NUM_CHIPS_X = 2
  NUM_CHIPS_Y = 2
  NUM_CPUS = 2
  NUM_ROUTES = 2
  QUEUE_SIZE = 2
  SOCKET_SIZE = 2
  there = there
  back = back
  Keys = {there, back}
  Senders <- senders
  AppEntries <- entries
  Tables <- tables
  MaxSends = 3
INVARIANTS TypeOK FlushLeavesNothing ExactDelivery InOrder
PROPERTIES FlushEnds
