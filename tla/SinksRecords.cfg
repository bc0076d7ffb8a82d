\* Either sink, overrun; the ring in memory wraps twice under three workers and a dump.
CONSTANTS
  RING_SLOTS = 3
  SHOW = 2
  Writers = {t1, t2, t3}
  MaxRecords = 7
  TRING_CAP = 2
  CAT_BATCH = 2
  Record <- RecordSet
SPECIFICATION SinksSpec
INVARIANTS
  CountersAccountForSlots
  RecordsAccounted
PROPERTIES
  ImplementsQueue
  DumpShowsNewest
\* The records run out.
CHECK_DEADLOCK FALSE
