SPECIFICATION AllSpec
CONSTANTS
  None = None
  Nothing = Nothing
  Null = Null
  ErrorObject = ErrorObject
  Actions = {"a1", "a2", "a3"}
  Names = {"n1", "n2"}
  Name <- FileOf
  Size <- Lengths
  Executions = {"e1", "e2", "e3", "e4"}
  TriggeredAt <- Stamps
  Limit = 3
  Capacity = 2
  Rules = {"r1"}
  Rois = {"door", "queue"}
  Ids = {"i1", "i2"}
  Scenarios = {"s1", "s2"}
  Script <- Scripts
  Failures = 2
  Crashes = 1
INVARIANTS
  TypesOK
  FilesAreWhole
  RowsTellTheTruth
  ListShowsHistory
  SimulatorTellsTrue
CHECK_DEADLOCK FALSE
