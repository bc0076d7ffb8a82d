\* Two connections compete for one slot; signals may come at any point.
CONSTANTS
  Conns = {c1, c2}
  NoConn = none
  max_clients = 1
  SWEEP_PERIOD_TICKS = 1
SPECIFICATION FairSpec
INVARIANTS
  SlotsBalance
  DescriptorOwned
  DrainMissesOnlyUnstarted
  JoinedThreadsAreSafe
  SignalNotLost
PROPERTIES
  ConnectionAnswered
  StopEndsServer
