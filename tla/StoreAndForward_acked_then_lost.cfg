\* The backend dies between its 202 and the event log.
SPECIFICATION ForwardSpec
CONSTANTS
  Flushers <- LoopOnly
  Loop = "loop"
  BatchSize = 2
  QueueCap = 20
  SaveMayFail = FALSE
  MaxEvents = 1
  MaxFailures = 0
  MaxEdgeCrashes = 0
  MaxBackendCrashes = 1
PROPERTIES SentIsLogged
CHECK_DEADLOCK FALSE
