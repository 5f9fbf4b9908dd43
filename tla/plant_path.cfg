\* Fixed delays, two sensor packets in flight: the stamps are the provenance of the plants' data.
SPECIFICATION PlantSpec
CONSTANTS
  Period <- FlightPeriod
  Offset <- FlightOffset
  ExecTicks <- Exec2
  ScDelays <- ThreeTicks
  CaDelays <- OneTick
  Overrun = "KillAndHold"
  FfExtraTicks = 0
  NCores = 2
  Views <- OnlyNoZone
  MaxStep = 16
  LatchBucket = 4
  NetworkBuffer = 3
INVARIANTS StampsShadowFmu RoutingsAgree NoPacketDropped MergerReadsShortcutAndPath
PROPERTY AppliedNeverRegresses
CHECK_DEADLOCK FALSE
