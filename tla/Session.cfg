\* A device with outages, or the test client, against a server with one slot.
CONSTANTS
  QUEUE_LEN = 1
  BACKOFF_MIN_MS = 2
  BACKOFF_MAX_MS = 4
  WDT_TIMEOUT = 40
  POLL = 1
  PAUSE = 2
  CONNECT = 16
  RECEIVE = 4
  WRITE = 10
  MaxSamples = 2
  Conns = {k1, k2}
  max_clients = 1
  DEAD_TICKS = 1
  MAX_STRIKES = 2
  ACK_EVERY = 2
  count = 4
  cc = 2
SPECIFICATION SessionSpec
INVARIANTS
  StatsAccount
  
  StoredOnceInOrder
  
PROPERTY Progress
\* The test client ends.
CHECK_DEADLOCK FALSE
