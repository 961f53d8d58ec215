SPECIFICATION OutboxSpec
CONSTANTS
  j1 = j1
  j2 = j2
  w1 = w1
  w2 = w2
  q1 = q1
  NoKey = NoKey
  Keys = {}
  Queues = {q1}
  DefaultQueue = q1
  Jobs = {j1}
  Senders = {w1}
  BatchLimit = 2
  MaxRows = 1
  MaxFaults = 0
  MaxCrashes = 1
  MaxLog = 0
  MaxTime = 1
CHECK_DEADLOCK FALSE
INVARIANT SentOnce
