SPECIFICATION Spec
CONSTANTS
  s1 = s1
  s2 = s2
  Rules = {r1, r2}
  Streams = {s1, s2}
  Bodies <- AllBodies
  Clients = {c1, c2}
  Disorder = {"race", "recreate", "absent", "disable", "unscoped", "updateFails"}
  Crashes = 1
  Failures = 1
  None = None
INVARIANTS
  IndexFits
  ActiveIsSound
  Agreement
SYMMETRY Symmetry
