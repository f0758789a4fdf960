\* Overlapping verifications of one issue, managers and a crash in between,
\* and a drafter that may never answer.
SPECIFICATION GateSpec
CONSTANTS
  k1 = k1
  t1 = t1
  t2 = t2
  NoAlert = NoAlert
  NoVerdict = NoVerdict
  Keys <- OneKey
  Severities <- MediumAndHigh
  Verdicts <- GateVerdicts
  Tasks <- TwoTasks
  VerifierSettings <- AnySetting
  VisionConfigured = TRUE
  Ceiling = 2
  NotifyWindow = 3
  VerifyTimeout = 1
  DedupWindow = 1
  ResolveAfter = 1
  CacheTTL = 9
  SweepInterval = 1
  SinkMayFail = FALSE
  MaxTime = 1
  MaxAlerts = 1
  MaxHits = 2
  MaxCrashes = 1
INVARIANTS NobodyIsLeftUntold
PROPERTIES GateIsHonest WarningDoesNotWait
CHECK_DEADLOCK FALSE
