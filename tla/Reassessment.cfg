SPECIFICATION KBSpec
CONSTANTS
  Claims = {1, 2, 3, 4}
  Unsupported = {3}
  Unratable = {1}
  Workers = {w1, w2}
  MaxAttempts = 2
  MaxEvents = 3
  Roots = {1}
  InlineLimit = 1
  BatchSize = 1
  Batch = 2
  SourceClaims = {1, 2}
  Edges <- MCEdges
  NewEdges <- MCNewEdges
INVARIANTS PendingHasJob CascadeCovers NoExhaustedInQueue
CHECK_DEADLOCK FALSE
