SPECIFICATION Spec
CONSTANTS
  j1 = j1
  j2 = j2
  w1 = w1
  w2 = w2
  q1 = q1
  k1 = k1
  NoKey = NoKey
  Keys = {k1}
  Queues = {q1}
  DefaultQueue = q1
  Jobs = {j1}
  Submissions <- Retried
  Replays = {}
  Cancellable = {}
  Pausable = {q1}
  Workers = {w1, w2}
  Mortal = {w1, w2}
  MaxGenerations = 2
  MaxLog = 4
  MaxFaults = 1
  MaxTime = 1
  MaxRestarts = 0
CHECK_DEADLOCK FALSE
INVARIANTS TypeOK RetryChain ArchivedOnlyExhausted OutboxMatchesJobs OnlyCrashesLose
