SPECIFICATION Spec
CONSTANTS
  ann = ann
  bob = bob
  cyd = cyd
  post = post
  c1 = c1
  c2 = c2
  c3 = c3
  None = None
  Agents = {ann, bob, cyd}
  Posts = {post}
  Comments = {c1, c2, c3}
  Author <- MCAuthor
  On <- MCOn
  ReplyTo <- MCReplyTo
  Follows <- MCFollows
  Batches <- NoBatches
  Sessions = {s1}
  MaxTx = 2
  MaxRetries = 3
  Faults = FALSE
INVARIANT GraphReloaded
CHECK_DEADLOCK FALSE
