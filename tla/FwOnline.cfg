\* What the LED shows after a Wi-Fi outage that the connection survives.
CONSTANTS
  QUEUE_LEN = 2
  BACKOFF_MIN_MS = 2
  BACKOFF_MAX_MS = 6
  WDT_TIMEOUT = 40
  POLL = 1
  PAUSE = 2
  CONNECT = 16
  RECEIVE = 4
  WRITE = 10
  MaxSamples = 2
SPECIFICATION FairSpec
PROPERTY ComesOnline
