SPECIFICATION Spec
CONSTANTS
  Requests = {r1, r2}
  MaxActive = 1
  MaxTokens = 4
  MaxExpired = 1
  Faults = TRUE
  Counting = TRUE
INVARIANTS TypeOK RotationAtomic SuccessorsBounded ActiveNearLimit
 
