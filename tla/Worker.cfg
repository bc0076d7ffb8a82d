\* A packet for each path through the checks, cut anywhere; peers that leave or fall silent.
CONSTANTS
  Kinds <- OnePerPath
  WORKER_TICK_S = 2
  DEAD_PEER_S = 4
  MAX_STRIKES = 2
  ACK_EVERY = 2
  MaxPackets = 4
SPECIFICATION FairSpec
INVARIANTS
  StrikesEndIt
  
  AcksAreCumulative
PROPERTY WorkerEnds
\* The worker exits, and its peer may have nothing more to say.
CHECK_DEADLOCK FALSE
