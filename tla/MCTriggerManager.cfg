SPECIFICATION Spec
CONSTANTS
  Rules = {r1}
  Workers = {w1, w2}
  Objects = {o1, o2}
  Stamps <- MCStamps
  Configs <- MCConfigs
  MaxEvals = 4
  None = None
INVARIANTS
  TypeOK
  OneLiveState
  CooldownRespected
  FiringsJustified
PROPERTIES
  AbstractSpec
CHECK_DEADLOCK FALSE
SYMMETRY Symmetry
