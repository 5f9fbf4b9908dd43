\* What the policies promise, a configuration or two for each.
SPECIFICATION FrontierSpec
CONSTANTS
  Triage = TRUE
  GuardMs = 150
  FloorMs = 0
  MinTripMs = 60
  GuardCapMs = 450
  FHeartbeat = 12
  FHeartbeatCrit = 6
  RmAlloc = FALSE
  SkipFactor = 3
  NVehicles = 3
  Config <- PolicyConfigs
INVARIANTS NothingMissed PartitionIsolated OnlyEveryKthServed HybridSlices HeartbeatClock FStalenessBounded RescueKept AblationIsAdaptiveGuard
CHECK_DEADLOCK FALSE
