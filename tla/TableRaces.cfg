\* Two workers and the heartbeat thread race for ids whose chains collide.
CONSTANTS
  Workers = {w1, w2}
  Udp = udp
  Reaper = reaper
  Ids = {1, 3}
  TABLE_BUCKETS = 2
  HEARTBEAT_TIMEOUT_S = 1
  MaxTime = 0
  MaxReadings = 2
  MaxBeats = 1
  MaxConns = 3
SYMMETRY Symmetry
SPECIFICATION Spec
INVARIANTS
  NoDuplicateDevice
  EveryPacketCounted
  DumpMatchesHeading
PROPERTY ImplementsRegistry
