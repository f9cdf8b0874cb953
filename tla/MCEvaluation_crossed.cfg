SPECIFICATION Spec
CONSTANTS
  r1 = r1
  r2 = r2
  r3 = r3
  Cameras = {"C1"}
  Rois = {"A", "B"}
  Kinds = {"crossed"}
  Keys <- MCKeys
  Values = {TRUE, FALSE}
  Stamps = {1, 2}
  Rules = {r1, r2}
  Deps <- MixedDeps
  Payloads <- Mixed
  Workers = {w1, w2}
  MaxRequests = 2
  TTL = 1
  PerSecond = 1
  MaxTime = 2
  None = None
INVARIANTS
  LastWord
