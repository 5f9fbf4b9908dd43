\* Timely schedules under fixed times: the data-age bound, reached exactly.
SPECIFICATION TimelySpec
CONSTANTS
  Period <- MCPeriod
  Offset <- MCOffset
  ExecTicks <- MCExec
  ScDelays <- OneTick
  CaDelays <- OneTick
  Overrun = "KillAndHold"
  FfExtraTicks = 0
  NCores = 3
  Views <- OnlyNoZone
  MaxStep = 40
  LatchBucket = 4
  C <- MCC
  Response <- MCResponse
  ScDelay = 1
  CaDelay = 1
INVARIANT AgeWithinBound
CHECK_DEADLOCK FALSE
