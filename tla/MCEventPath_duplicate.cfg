SPECIFICATION PathSpec
CONSTANTS
  e1 = e1
  e2 = e2
  e3 = e3
  Events = {e1}
  EmittedAt <- MCEmittedAtOne
  Duration = 2
  Workers = {w1, w2}
  Serial = FALSE
  Crashes = 0
  Failures = 0
  Posts = 2
  Thresholds = {}
  NoRequest = NoRequest
INVARIANTS
  AcceptedOnce
CHECK_DEADLOCK FALSE
