SPECIFICATION Spec
CONSTANTS
  r1 = r1
  r2 = r2
  r3 = r3
  Cameras = {"C1"}
  Rois = {"A", "B"}
  Kinds = {"crossed"}
  Keys <- MCKeys
  Values = {TRUE, FALSE}
  Stamps = {1, 2}
  Rules = {r1}
  Deps <- KindDeps
  Payloads <- Crossed
  Workers = {w1}
  MaxRequests = 1
  TTL = 1
  PerSecond = 1
  MaxTime = 0
  None = None
INVARIANTS
  EventRulesConclude
