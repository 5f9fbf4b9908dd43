\* A zone-dependent command delay under fixed execution and network times.
SPECIFICATION PlantSpec
CONSTANTS
  Period <- PathPeriod
  Offset <- PathOffset
  ExecTicks <- Exec2
  ScDelays <- OneTick
  CaDelays <- OneTick
  Overrun = "KillAndHold"
  FfExtraTicks = 0
  NCores = 2
  Views <- DelayViews
  MaxStep = 20
  LatchBucket = 4
  NetworkBuffer = 9
INVARIANT StampsShadowFmu
CHECK_DEADLOCK FALSE
