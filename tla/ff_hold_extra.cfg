\* The hold together with a delayed publication (--ff-extra-ms).
SPECIFICATION Spec
CONSTANTS
  Period <- HoldPeriod
  Offset <- HoldOffset
  ExecTicks <- HoldExec
  ScDelays <- OneTick
  CaDelays <- OneTick
  Overrun = "KillAndHold"
  FfExtraTicks = 2
  NCores = 2
  Views <- DoseViews
  MaxStep = 12
  LatchBucket = 4
PROPERTY FDoseReached
CHECK_DEADLOCK FALSE
