SPECIFICATION MCSpec
CONSTANTS
  Users = {u1, u2}
  Texts = {t1, t2}
  None = None
  Verbs = {"accept", "acknowledge", "open", "archive", "reactivate", "update", "assign", "takeover"}
  MaxVersion = 8
  ExpectBehind = 1
  ExpectAhead = 0
SYMMETRY Symmetry
INVARIANTS LogExplainsRow RecordsTellTruth ReadsAreWhole
PROPERTIES ImplementsRegister ArchiveIsRespected
CHECK_DEADLOCK FALSE
