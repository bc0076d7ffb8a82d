\* Readings, heartbeats and sweeps as time passes.
CONSTANTS
  Workers = {w1}
  Udp = udp
  Reaper = reaper
  Ids = {1, 3}
  TABLE_BUCKETS = 2
  HEARTBEAT_TIMEOUT_S = 1
  MaxTime = 2
  MaxReadings = 1
  MaxBeats = 2
  MaxConns = 1
SPECIFICATION FairSpec
PROPERTY SilentGoesOffline
