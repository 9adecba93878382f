SPECIFICATION MCSpec
CONSTANTS
  Kind <- BlocksKind
  Edges <- BlocksEdges
  StartNode = "s"
  Actors = {op}
  MaxOpen = 1
  ByLabel = FALSE
  Two = {a1, a2}
  Sealers = {a1, a2}
  MaxSeq = 3
  MaxAlerts = 1
  Tampering = TRUE
  Pair = {b1, b2}
INVARIANTS
   DryRunIsFaithful ChainIsSound ConditionsMean  
   SignInsAreSound AccountsReachable
   CachesLagWithinBounds PublishedIsSound
PROPERTIES PublishedIsFrozen
SYMMETRY Interchangeable
CHECK_DEADLOCK FALSE
