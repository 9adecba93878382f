SPECIFICATION Spec
CONSTANTS
  Sessions = {s1, s2}
  MaxOpen = 2
  MaxEvents = 3
  MaxDocuments = 2
  Reordered = FALSE
INVARIANTS OneRowPerCall
CHECK_DEADLOCK FALSE
