SPECIFICATION Spec
CONSTANTS
  ann = ann
  bob = bob
  cyd = cyd
  post = post
  c1 = c1
  c2 = c2
  c3 = c3
  None = None
  Agents = {ann, bob, cyd}
  Posts = {post}
  Comments = {c1, c2, c3}
  Author <- MCAuthor
  On <- MCOn
  ReplyTo <- MCReplyTo
  Follows <- MCFollows
  Batches <- MCBatches
  Sessions = {s1, s2}
  MaxTx = 4
  MaxRetries = 2
  Faults = TRUE
INVARIANTS TypeOK GraphTrue
PROPERTIES TickersGrow
SYMMETRY Interchangeable
CHECK_DEADLOCK FALSE
