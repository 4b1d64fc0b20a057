SPECIFICATION FairKB
CONSTANTS
  Claims = {1, 2, 3}
  Unsupported = {3}
  Unratable = {1}
  Workers = {w1, w2}
  MaxAttempts = 2
  MaxEvents = 2
  Roots = {1}
  InlineLimit = 1
  BatchSize = 1
  Batch = 2
  SourceClaims = {1, 2}
  Edges <- MCEdges
  NewEdges <- MCNewEdges
CHECK_DEADLOCK FALSE
PROPERTY JobSettled
