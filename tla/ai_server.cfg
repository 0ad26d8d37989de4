SPECIFICATION FairSpec
CONSTANTS
  Models = {m1, m2}
  MaxLoaded = 1
  MaxRequests = 3
  MaxDrops = 2
  MaxRestarts = 1
INVARIANTS TypeOK NothingLost RoutedOrEvicted
PROPERTIES KeepsPromises Answered
CHECK_DEADLOCK FALSE
