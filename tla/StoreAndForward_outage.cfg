\* Lost requests and replies, overlapping passes, both processes dying.
SPECIFICATION ForwardSpec
CONSTANTS
  Flushers <- LoopAndManual
  Loop = "loop"
  BatchSize = 2
  QueueCap = 4
  SaveMayFail = TRUE
  MaxEvents = 2
  MaxFailures = 2
  MaxEdgeCrashes = 1
  MaxBackendCrashes = 1
INVARIANTS OutboxIsHonest LossesAreExplained
PROPERTIES DeliversInOrder OutboxDrains
CHECK_DEADLOCK FALSE
