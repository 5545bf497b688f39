SPECIFICATION Spec
CONSTANTS
  NUM_CHIPS = 2
  NUM_CPUS = 2
  SOCKET_SIZE = 2
  Repaired <- repaired
  Scripts <- replies
  Concurrent = TRUE
  MaxMessages = 0
INVARIANTS RepliesToSender
CHECK_DEADLOCK FALSE
