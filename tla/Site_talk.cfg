\* Two questions of the same worker and three messages in two threads; two
\* callers of notify with one key and three channels; two devices, one alert,
\* queues of three; two learning runs over two reviews; four frames through a
\* queue of two; an RFI and an inspection with two managers; two workers who
\* ask the assistant.
CONSTANTS
  None = None
  t1 = t1
  t2 = t2
  Services = {"questions", "messages", "notifications", "broadcast", "learning",
              "video", "papers", "assistant"}
  ConvQuestions = {1, 2}
  ConvReplies = {"yes"}
  ConvMessages = {1, 2, 3}
  ConvWorkers = {"w-1", "w-2"}
  NotifTasks <- Tasks
  NotifKeys = {"k"}
  NotifChannels <- Channels
  NotifSenders = {"push"}
  NotifWindow = 1
  NotifAttempts = 2
  NotifMaxNotes = 6
  NotifMaxTime = 2
  BcClients = {1, 2}
  BcWorkers = {"w-1"}
  BcZones = {"a", "b"}
  BcAlerts = {1}
  BcQueueMax = 3
  LrnTasks <- Tasks
  LrnRows = {1, 2}
  LrnRunIds = {1, 2}
  LrnMinSamples = 1
  VidQueueMax = 2
  VidFrames = 4
  PapActions <- Actions
  PapReviewers <- Tasks
  AsWorkers <- Tasks
  AsSubjects = {"emergency", "measure", "specification"}
SPECIFICATION Spec
PROPERTIES ConvNobodyIsOverlooked NotifTellsOnceAndAll BcEachHearsItsOwn LrnReviewsAreUsedOnce VidKeepsUp PapTrailIsKept AsEveryoneIsAnswered
CHECK_DEADLOCK FALSE
