SPECIFICATION Spec
CONSTANTS
  Workers = {w1, w2}
  Keys = {poll, child}
  poll = poll
  child = child
  orphan = orphan
  None = None
  Handled <- MCHandled
  Schedule <- MCSchedule
  Every <- MCEvery
  Priority <- MCPriority
  Children <- MCChildren
  MaxAttempts = 2
  Lease = 2
  HandlerMax = 2
  BackoffCap = 2
  TransientDelay = 2
  ResetDelays = {0}
  Park = 3
  RecoverAfter = 2
  RecoverEvery = 2
INVARIANTS TypeOK LeaseExclusive HoldsLease AttemptsBounded
PROPERTIES DeleteSettles FailureCounted ImplementsCrawlWork
