\* One alert over a long life: every operation on it, a table that refuses writes, an expired entry and a restart.
SPECIFICATION Spec
CONSTANTS
  k1 = k1
  rejected = rejected
  NoAlert = NoAlert
  NoVerdict = NoVerdict
  Keys <- OneKey
  Severities <- MediumAndCrit
  Verdicts <- OneVerdict
  DedupWindow = 1
  ResolveAfter = 1
  CacheTTL = 2
  SweepInterval = 1
  SinkMayFail = TRUE
  MaxTime = 3
  MaxAlerts = 1
  MaxHits = 3
  MaxCrashes = 1
INVARIANTS TypeOK
PROPERTIES HistoryIsKept
CHECK_DEADLOCK FALSE
