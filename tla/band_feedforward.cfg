\* Feedforward in the two-band system.
SPECIFICATION BandSpec
CONSTANTS
  Triage = FALSE
  GuardMs = 150
  FloorMs = 0
  MinTripMs = 60
  GuardCapMs = 450
  FHeartbeat = 0
  FHeartbeatCrit = 0
  RmAlloc = FALSE
  SkipFactor = 1
  NVehicles = 2
  Config <- SmallBandConfigs
  Analysis <- SmallBandAnalysis
INVARIANTS WithinBandFeedforward
CHECK_DEADLOCK FALSE
