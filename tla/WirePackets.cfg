\* One packet of any kind across a line that flips at most one bit.
CONSTANTS
  Readings <- SomeReadings
  Counts <- SomeCounts
  Replies <- SomePayloads
  DeviceIds <- SomeIds
SPECIFICATION Spec
INVARIANTS
  CleanPacketsArrive
  ReadingsSurvive
  SingleBitErrorsDetected
  ChecksumIsRfc1071
CHECK_DEADLOCK FALSE
