SPECIFICATION FairPathSpec
CONSTANTS
  e1 = e1
  e2 = e2
  e3 = e3
  Events = {e1, e2}
  EmittedAt <- MCEmittedAtTwo
  Duration = 2
  Workers = {w1, w2}
  Serial = TRUE
  Crashes = 1
  Failures = 2
  Posts = 4
  Thresholds = {}
  NoRequest = NoRequest
PROPERTIES
  LedgerSpec
  EventuallyEvaluated
CHECK_DEADLOCK FALSE
