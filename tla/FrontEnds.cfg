SPECIFICATION FairFrontEndsSpec
CONSTANTS
  j1 = j1
  j2 = j2
  w1 = w1
  q1 = q1
  k1 = k1
  NoKey = NoKey
  Keys = {k1}
  Queues = {q1}
  DefaultQueue = q1
  Jobs = {j1, j2}
  Submissions = {}
  Replays = {}
  Cancellable = {}
  Pausable = {}
  Workers = {w1}
  Mortal = {}
  MaxGenerations = 0
  MaxLog = 8
  MaxFaults = 1
  MaxTime = 2
  MaxRestarts = 1
  PerQueue = 1
  Global = 1
  Minute = 1
  Everything = "everything"
  Wishes <- MCWishes
  Wish <- MCWish
  Second = 1
CHECK_DEADLOCK FALSE
INVARIANTS FrontEndsTypeOK AnswersAreTrue DuplicatesAreBounded IdempotentReplies LimitRespected RetryAfterIsEnough
PROPERTIES EveryCallEnds DueIsPromoted
