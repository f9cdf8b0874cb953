SPECIFICATION AllFairSpec
CONSTANTS
  None = None
  NoTask = NoTask
  NoWriter = NoWriter
  Clients = {"c1", "c2"}
  Senders = {"s1", "s2"}
  Capacity = 1
  Adders = {"w1", "w2"}
  Counters = {"u1"}
  Aggregators = {"a1", "a2"}
  Ids = {"i1", "i2"}
  Delays = {0, 3}
  PerSecond = 2
  MaxTasks = 2
  MaxTime = 6
  Rules = {"r1", "r2"}
  Requests = {"q1", "q2", "q3"}
  Streams = {"q3"}
INVARIANTS
  TypesOK
  SendsAreSafe
  StreamFaithful
  OneFate
  ServedInFull
PROPERTIES
  BroadcastReturns
  GoneIsForgotten
  ReturnsUnlessCrossed
  EveryTaskHandled
  SignalEnds
CHECK_DEADLOCK FALSE
