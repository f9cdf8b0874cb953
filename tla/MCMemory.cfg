SPECIFICATION AllSpec
CONSTANTS
  Events = {"e1", "e2", "e3"}
  EmittedAt <- EmittedAtThree
  Duration = 2
  Workers = {"w1", "w2"}
  Serial = FALSE
  Crashes = 1
  Failures = 1
  Posts = 2
  Thresholds = {2}
  NoRequest = NoRequest
  Cameras = {"c1"}
  Tracks = {"t1", "t2"}
  Types = {"person"}
  Instants <- FiveInstants
  Span = 2
  MaxEntries = 4
  Keys = {"k1", "k2"}
  Values = {TRUE, FALSE}
  Stamps <- Seconds
  TTL = 2
  PerSecond = 2
  MaxTime = 13
  None = None
  Config <- ThreeSeconds
  RuleDurations = {60, 120}
  Evaluators = {"w1", "w2"}
  MaxGeneration = 3
  NoRule = NoRule
  MatchKeys = {"k1", "k2"}
  Holders = {"p1", "p2"}
  Cells = {o1, o2, o3}
  Lifetimes = {1, 2}
  LastInstant = 4
  NoInstance = NoInstance
  Rules = {"r1", "r2"}
  Metrics = {"m1", "m2"}
  Sources = {"state", "event"}
  Durations = {60}
  MaxDeps = 2
  MaxLeaks = 1
  NoMetric = NoMetric
  Tracked = {"k1", "k2"}
  EntityCameras = {"c1", "c2"}
  Rois = {"A", "B"}
  Callers = {"w1"}
  Objects = {o1, o2, o3}
  EntityTTL = 1
  HistoryLimit = 1
  LastDay = 2
  MaxSightings = 3
  NoEntity = NoEntity
INVARIANTS
  TypesOK
  SightingsKept
  HeldIsCurrent
  DefinitionsFit
  OwnMemory
  WindowReads
  CountsExact
  HeldContinuously
  FreshForTTL
PROPERTIES
  CleanupIsInvisible
  RememberedForTTL
  AnswerBracketed
SYMMETRY Symmetry
CHECK_DEADLOCK FALSE
