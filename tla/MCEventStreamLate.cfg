SPECIFICATION FairSpec
CONSTANTS
  Txns = {x1, x2}
  Clients = {c1}
  Batch = 2
  MaxGaps = 0
  MaxDrops = 0
PROPERTY CommittedArrives
