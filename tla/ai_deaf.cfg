SPECIFICATION FairSpec
CONSTANTS
  Models = {m1}
  MaxLoaded = 1
  MaxRequests = 1
  MaxDrops = 1
  MaxRestarts = 0
PROPERTY KeepsServing
CHECK_DEADLOCK FALSE
