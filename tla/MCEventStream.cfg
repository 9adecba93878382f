SPECIFICATION FairSpec
CONSTANTS
  Txns = {x1, x2, x3}
  Clients = {c1}
  Batch = 2
  MaxGaps = 1
  MaxDrops = 1
INVARIANT DeliveryIsSound
PROPERTIES PromptArrives
