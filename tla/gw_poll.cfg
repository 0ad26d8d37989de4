SPECIFICATION FairSpec
CONSTANTS
  Queues = {q1}
  Polls = {p1, p2}
  Limit = 1
  MaxMessages = 2
  MaxConsumers = 2
  MaxFaults = 1
INVARIANTS SeenInOrder
PROPERTIES Delivered IdleStops
CHECK_DEADLOCK FALSE
