SPECIFICATION MCSpec
CONSTANTS
  k1 = k1
  k2 = k2
  k3 = k3
  w1 = w1
  w2 = w2
  None = None
  Keys <- AllKeys
  Workers <- TwoWorkers
  NoHandler <- UnknownKeys
  Camera <- CameraKeys
  MaxAttempts = 2
  Limit = 2
  MaxCrashes = 1
  Attempts = {a1, a2}
  Nodes = {n1, n2}
  MaxSends = 4
  MaxFaults = 2
INVARIANTS SettledOnceAudited DuplicatesOnlyByCrash OneDriver
PROPERTIES EverySettles ImplementsContract RequestsEnd
CHECK_DEADLOCK FALSE
