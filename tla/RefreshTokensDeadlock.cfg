SPECIFICATION Spec
CONSTANTS
  Requests = {r1, r2}
  MaxActive = 1
  MaxTokens = 5
  MaxExpired = 0
  Faults = FALSE
  Counting = FALSE
INVARIANT DeliveredStored
