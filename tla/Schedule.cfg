SPECIFICATION Spec
CONSTANTS
  j1 = j1
  j2 = j2
  w1 = w1
  w2 = w2
  q1 = q1
  k1 = k1
  NoKey = NoKey
  Keys = {k1}
  Queues = {q1}
  DefaultQueue = q1
  Jobs = {j1, j2}
  Submissions <- Timed
  Replays = {}
  Cancellable = {j1}
  Pausable = {}
  Workers = {w1}
  Mortal = {}
  MaxGenerations = 1
  MaxLog = 2
  MaxFaults = 1
  MaxTime = 2
  MaxRestarts = 1
CHECK_DEADLOCK FALSE
INVARIANTS NotBeforeDue AcceptedIsRemembered MessagesMatchRows
PROPERTY CancelledStaysCancelled
