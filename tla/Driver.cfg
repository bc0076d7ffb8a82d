\* One writer overruns two competing readers.
CONSTANTS
  TRING_CAP = 2
  BATCH = 2
  MaxNrec = 2
  MaxRec = 2
  MaxRecords = 3
  Writers = {w1}
  Readers = {r1, r2}
  NoThread = none
  Record <- RecordSet
SPECIFICATION FairSpec
INVARIANTS
  StatsBalance
  DeliveredOnceInOrder
  BatchHasNoGap
  SleepersHaveAWaker
PROPERTIES
  ImplementsQueue
  SleeperWakes
\* A driver with no more records to write and no calls in flight may stop.
CHECK_DEADLOCK FALSE
