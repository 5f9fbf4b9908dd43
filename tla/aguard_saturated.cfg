\* The adaptive guard at its cap.
SPECIFICATION FrontierSpec
CONSTANTS
  Triage = FALSE
  GuardMs = 150
  FloorMs = 0
  MinTripMs = 60
  GuardCapMs = 450
  FHeartbeat = 0
  FHeartbeatCrit = 0
  RmAlloc = FALSE
  SkipFactor = 3
  NVehicles = 2
  Config <- SaturatedConfigs
INVARIANT SaturatedIsTimeToUnsafe
CHECK_DEADLOCK FALSE
