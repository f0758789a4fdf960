\* Operators and detections through expired entries, a crash and the second life of an issue.
SPECIFICATION ApiSpec
CONSTANTS
  k1 = k1
  rejected = rejected
  NoReply = NoReply
  NoAlert = NoAlert
  NoVerdict = NoVerdict
  Keys <- OneKey
  Severities <- MediumOnly
  Verdicts <- OneVerdict
  DedupWindow = 1
  ResolveAfter = 1
  CacheTTL = 2
  SweepInterval = 1
  SinkMayFail = FALSE
  MaxTime = 3
  MaxAlerts = 2
  MaxHits = 2
  MaxCrashes = 1
INVARIANTS OpenIsFresh EverybodyAgrees
PROPERTIES RequestsKeepTheirWord SuppressionSticks SweepSparesLive ImplementsBoard
CHECK_DEADLOCK FALSE
