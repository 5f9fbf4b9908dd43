\* Every job of an admitted task completes within its solved bound.
SPECIFICATION BandSpec
CONSTANTS
  Triage = FALSE
  GuardMs = 150
  FloorMs = 0
  MinTripMs = 60
  GuardCapMs = 450
  FHeartbeat = 0
  FHeartbeatCrit = 0
  RmAlloc = FALSE
  SkipFactor = 1
  NVehicles = 3
  Config <- ResponseConfigs
  Analysis <- ResponseAnalysis
INVARIANTS WithinResponse WithinBandResponse
CHECK_DEADLOCK FALSE
