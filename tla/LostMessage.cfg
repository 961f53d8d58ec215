SPECIFICATION Spec
CONSTANTS
  j1 = j1
  j2 = j2
  w1 = w1
  w2 = w2
  q1 = q1
  k1 = k1
  NoKey = NoKey
  Keys = {k1}
  Queues = {q1}
  DefaultQueue = q1
  Jobs = {j1, j2}
  Submissions <- Plain
  Replays = {}
  Cancellable = {}
  Pausable = {}
  Workers = {w1}
  Mortal = {w1}
  MaxGenerations = 2
  MaxLog = 2
  MaxFaults = 0
  MaxTime = 1
  MaxRestarts = 0
CHECK_DEADLOCK FALSE
INVARIANT CommittedIsHandled
