\* Zones, start offsets, views, predictions and statistics of the simulation step.
SPECIFICATION HarnessSpec
CONSTANTS
  LatchBucket = 3
  Config <- HarnessConfigs
  Physics <- Pushed
  ErrorOf <- Lateral
  Tendency <- Lead
  AtRest <- Still
  HardBound = 8
  SoftBound = 2
  Predicting <- HarnessPredicting
  Measuring <- HarnessMeasuring
INVARIANTS ZonesCoverManeuvers OffsetsSpaced FlagExact RecentLatchWindow
INVARIANTS AgedPredictionSound SearchSound HonestSeesDelayed FidelityExact StatisticsAgree
CHECK_DEADLOCK FALSE
