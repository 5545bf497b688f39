SPECIFICATION FairSpec
CONSTANTS
  NUM_CHIPS = 2
  NUM_CPUS = 2
  SOCKET_SIZE = 2
  Repaired <- repaired
  Scripts <- scripts
  Concurrent = FALSE
  MaxMessages = 1
INVARIANTS HostTypeOK ReadsSeeWrites FloodIsWhole VerRepliesToSender TagAsTold
PROPERTIES ServiceSpec EverythingExecuted
CHECK_DEADLOCK FALSE
