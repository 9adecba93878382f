SPECIFICATION MCSpec
CONSTANTS
  Sessions = {a1, a2}
  MaxOpen = 2
  MaxEvents = 4
  MaxDocuments = 2
  Reordered = TRUE
  Bodies = {b1, b2}
  Attempts = {a1, a2}
  None = None
  aCall = aCall
SYMMETRY Interchangeable
INVARIANTS ProcessedOnce CommandsTellTruth  CallersAreKnown ScreensTellTruth
PROPERTIES EndedStaysEnded
CHECK_DEADLOCK FALSE
