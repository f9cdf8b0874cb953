SPECIFICATION PageSpec
CONSTANTS
  e1 = e1
  e2 = e2
  e3 = e3
  e4 = e4
  Executions = {e1, e2, e3, e4}
  TriggeredAt <- MCTriggeredAt
  Limit = 3
  Capacity = 2
  Null = Null
  ErrorObject = ErrorObject
INVARIANT
  EmptyIsShown
