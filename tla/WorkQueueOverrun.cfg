SPECIFICATION FairSpec
CONSTANTS
  Workers = {w1, w2}
  Keys = {poll, orphan}
  poll = poll
  child = child
  orphan = orphan
  None = None
  Handled <- MCHandled
  Schedule <- MCSchedule
  Every <- MCEvery
  Priority <- MCPriority
  Children <- MCChildren
  MaxAttempts = 1
  Lease = 1
  HandlerMax = 2
  BackoffCap = 2
  TransientDelay = 1
  ResetDelays = {0}
  Park = 2
  RecoverAfter = 4
  RecoverEvery = 1

INVARIANTS AttemptsOverrunByOne
PROPERTIES NeverStuck PollRecurs
