\* A well-behaved peer that pauses inside a header.
CONSTANTS
  Kinds <- WellFormed
  WORKER_TICK_S = 2
  DEAD_PEER_S = 4
  MAX_STRIKES = 3
  ACK_EVERY = 2
  MaxPackets = 2
SPECIFICATION Spec
INVARIANT HeadersAreWhole
\* The worker exits, and its peer may have nothing more to say.
CHECK_DEADLOCK FALSE
