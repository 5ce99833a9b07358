SPECIFICATION Spec
CONSTANTS
  Addresses = {ip}
  Agents = {ann, bob, cyd}
  NoAgent = nobody
  PerAddress = FALSE
  MaxKeys = 2
  Ttl = 4
  Burst = 2
  Unit = 3
  Rate = 1
  Second = 2
  None = None
INVARIANTS TypeOK RetryAfterHonest WithinBudget
PROPERTY ImplementsQuota
