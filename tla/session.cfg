\* The program from start to exit: the FMU wrapper, the recording, the window, the file.
SPECIFICATION Spec
CONSTANTS
  Trigger = {"act_start", "act_fin"}
  Tol = 1
  MetricPeriod = 2
  PerfWindow = 2
  Config <- SessionConfigs
INVARIANTS RollingExact SummaryAgrees RoundTrip OverlayOfFrame ReplayDefined
PROPERTIES PulsedSpec EveryRunEnds
CHECK_DEADLOCK FALSE
