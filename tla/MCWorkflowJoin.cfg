SPECIFICATION WorkflowSpec
CONSTANTS
  Kind <- ParallelKind
  Edges <- ParallelEdges
  StartNode = "s"
  Actors = {op1, op2}
  MaxOpen = 2
  ByLabel = FALSE
  Two = {a1, a2}
  Sealers = {a1, a2}
  MaxSeq = 3
  MaxAlerts = 1
  Tampering = TRUE
  Pair = {b1, b2}
INVARIANT AndJoinFires
CHECK_DEADLOCK FALSE
