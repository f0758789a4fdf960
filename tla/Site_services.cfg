\* Two requests against each service: two fields of one record, two accounts
\* and two sessions over one tick, one worker in two zones, two zones or
\* rules, one rule for two workers, two switches, two snaps of two pictures
\* in two recording sessions, a checkpoint of two chunks.  Each detector with
\* one or two people, times of a few frames, three hazards on their
\* way out, and a phone whose camera opens three sockets.
CONSTANTS
  None = None
  t1 = t1
  t2 = t2
  Services = {"store", "accounts", "occupancy", "registry", "rules", "settings", "captures",
              "weights", "attention", "falls", "proximity", "ppe", "events", "inspection", "camera"}
  DocKeys = {"k"}
  DocFields = {"a", "b"}
  DocValues = {1}
  DocTasks <- Tasks
  AccTasks <- Tasks
  AccNames = {"a"}
  AccWorkers = {}
  AccPasswords = {"p1"}
  AccRoles = {"worker"}
  AccUserIds = {1, 2}
  AccTokens = {1, 2}
  AccSeed <- Seed
  AccTtl = 1
  AccMaxTime = 1
  OccTasks <- Tasks
  OccWorkers = {"w-1"}
  OccZoneIds = {"a", "b"}
  OccRows = {1, 2}
  OccMaxTime = 2
  RegTasks <- Tasks
  RegKeys = {"a", "b"}
  RegValues <- Values
  RegDefaults <- Defaults
  RuleIds = {"r1"}
  RuleSubjects = {"w-1", "w-2"}
  RuleCooldown = 2
  RuleMaxTime = 4
  SetTasks <- Tasks
  SetItems = {"helmet", "vest"}
  SetWindow = 2
  SetMaxQueue = 2
  SetMaxChanges = 3
  CapFrames = {1, 2}
  CapSessions <- Sessions
  CapPictures = {"p", "q"}
  WtsThreads <- Tasks
  WtsChunks = 2
  WtsMaxFiles = 2
  AttView <- OnePhone
  AttSubjects = {"a"}
  AttDwell = 1
  AttUnnoticed = 2
  AttEscalate = 3
  AttTtl = 4
  AttGaps = {1, 2}
  AttMaxTime = 8
  FallTracks = {"a"}
  FallHeights = {0, 3}
  FallBuffer = 3
  FallSpeed = 1
  FallCooldown = 5
  FallForget = 2
  FallGaps = {1, 2}
  FallMaxTime = 8
  ProxTracks = {"a", "b"}
  ProxCooldown = 2
  ProxMaxTime = 3
  PpeTracks = {"a"}
  PpeItems = {"helmet", "gloves"}
  PpeInferrable = {"helmet"}
  PpeCooldown = 2
  PpeMaxBoxes = 2
  PpeMaxTime = 3
  EvCategories = {"ppe", "fall"}
  EvCooldown = 2
  EvMaxEvents = 3
  EvMaxTime = 2
  InsSkip = 2
  InsClasses = {"severe"}
  InsCells = {"left", "right"}
  InsMaxFrames = 5
  Conns = {c1, c2, c3}
  NoConn = NoConn
  MaxFrames = 1
SPECIFICATION Spec
INVARIANTS RuleFiresWhenRested SetSwitchArrives CapDatasetIsWhole EvEveryHazardCounts InsSeesAndShows CameraObeys
PROPERTIES DocKeepsRecords AccSessionsKeepTheirTerms OccOnePlaceAtATime RegFollowsTable WtsDownloadIsClean AttTellsTheUnaware FallRemembersTheSeen ProxWarnsInMeasure PpeTellsWhatIsMissing
SYMMETRY Symmetry
CHECK_DEADLOCK FALSE
