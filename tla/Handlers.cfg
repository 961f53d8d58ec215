SPECIFICATION FairHandlersSpec
CONSTANTS
  j1 = j1
  j2 = j2
  w1 = w1
  w2 = w2
  q1 = q1
  NoKey = NoKey
  Keys = {}
  Queues = {q1}
  DefaultQueue = q1
  Jobs = {j1, j2}
  Submissions = {}
  Replays = {}
  Cancellable = {}
  Pausable = {}
  Workers = {w1}
  Mortal = {w1}
  MaxGenerations = 2
  MaxLog = 3
  MaxFaults = 0
  MaxTime = 1
  MaxRestarts = 0
  Offers <- Pair
  Generated <- FakeImages
  Second = 1
CHECK_DEADLOCK FALSE
INVARIANTS HandlersTypeOK CompletedFileIsWhole NoUndeservedOutcome
PROPERTIES OutcomeIsDeserved
