\* Killed, suppressed and delayed Feedforward publications against the plants.
SPECIFICATION PlantSpec
CONSTANTS
  Period <- HoldPeriod
  Offset <- HoldOffset
  ExecTicks <- HoldExec
  ScDelays <- OneTick
  CaDelays <- ThreeTicks
  Overrun = "KillAndHold"
  FfExtraTicks = 0
  NCores = 2
  Views <- DoseViews
  MaxStep = 12
  LatchBucket = 4
  NetworkBuffer = 3
INVARIANTS NoPublishWithActivate PendingPublishOwned KilledJobNeverPublishes StalenessShadowsFmu
PROPERTY FDoseReached
CHECK_DEADLOCK FALSE
