\* The alert turns critical while the model looks at it.
SPECIFICATION GateSpec
CONSTANTS
  k1 = k1
  t1 = t1
  t2 = t2
  NoAlert = NoAlert
  NoVerdict = NoVerdict
  Keys <- OneKey
  Severities <- MediumAndCrit
  Verdicts <- GateVerdicts
  Tasks <- TwoTasks
  VerifierSettings <- Enabled
  VisionConfigured = TRUE
  Ceiling = 2
  NotifyWindow = 3
  VerifyTimeout = 1
  DedupWindow = 1
  ResolveAfter = 1
  CacheTTL = 9
  SweepInterval = 1
  SinkMayFail = FALSE
  MaxTime = 1
  MaxAlerts = 1
  MaxHits = 2
  MaxCrashes = 0
PROPERTIES NeverSilencesSerious
CHECK_DEADLOCK FALSE
