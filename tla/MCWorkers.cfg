SPECIFICATION MCSpec
CONSTANTS
  Nodes = {n1, n2, n3}
  Orphan = Orphan
  None = None
  TTL = 6
  RenewEvery = 2
  MaxWork = 3
  MaxFaults = 2
  Runners = {s1, s2}
  Staff = {u1, u2}
SYMMETRY Interchangeable
INVARIANTS  TakeoverInTime SyncConverges PagesTellTruth
  EventsAreAccounted
