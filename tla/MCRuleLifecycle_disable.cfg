SPECIFICATION Spec
CONSTANTS
  s1 = s1
  s2 = s2
  Rules = {r1}
  Streams = {s1, s2}
  Bodies <- AllBodies
  Clients = {c1}
  Disorder = {"disable"}
  Crashes = 0
  Failures = 0
  None = None
INVARIANTS
  DisabledIsInactive
SYMMETRY Symmetry
