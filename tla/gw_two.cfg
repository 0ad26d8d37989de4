SPECIFICATION Spec
CONSTANTS
  Queues = {q1, q2}
  Polls = {p1}
  Limit = 1
  MaxMessages = 1
  MaxConsumers = 2
  MaxFaults = 1
INVARIANTS TypeOK NothingLost
CHECK_DEADLOCK FALSE
