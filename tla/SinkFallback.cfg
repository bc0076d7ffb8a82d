\* The dev sink without the kernel module.
CONSTANTS
  RING_SLOTS = 3
  SHOW = 2
  Writers = {t1}
  MaxRecords = 2
  TRING_CAP = 2
  CAT_BATCH = 2
  Record <- RecordSet
SPECIFICATION SinksSpec
INVARIANT FallsBack
CHECK_DEADLOCK FALSE
