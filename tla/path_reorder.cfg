\* Skip-next on one core, packets that overtake each other on both networks.
SPECIFICATION Spec
CONSTANTS
  Period <- ReorderPeriod
  Offset <- ReorderOffset
  ExecTicks <- Exec2
  ScDelays <- ReorderDelays
  CaDelays <- ReorderDelays
  Overrun = "SkipNext"
  FfExtraTicks = 0
  NCores = 1
  Views <- OnlyNoZone
  MaxStep = 14
  LatchBucket = 4
INVARIANTS TypeOK ReleasesAccounted FreshNoOlderThanPath
CHECK_DEADLOCK FALSE
