SPECIFICATION Spec
CONSTANTS
  Requests = {r1}
  MaxActive = 2
  MaxTokens = 3
  MaxExpired = 0
  Faults = FALSE
  Counting = FALSE
PROPERTY ReuseRevokesAll
