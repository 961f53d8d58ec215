SPECIFICATION FairHandlersSpec
CONSTANTS
  j1 = j1
  j2 = j2
  w1 = w1
  w2 = w2
  q1 = q1
  NoKey = NoKey
  Keys = {}
  Queues = {q1}
  DefaultQueue = q1
  Jobs = {j1, j2}
  Submissions = {}
  Replays = {j1, j2}
  Cancellable = {}
  Pausable = {q1}
  Workers = {w1}
  Mortal = {}
  MaxGenerations = 1
  MaxLog = 4
  MaxFaults = 1
  MaxTime = 1
  MaxRestarts = 0
  Offers <- Archivable
  Generated <- NothingGenerated
  Second = 1
CHECK_DEADLOCK FALSE
INVARIANT AttemptsDoNotOverlap
PROPERTIES ForgottenHasCause ImplementsLifecycle OutcomeIsDeserved
