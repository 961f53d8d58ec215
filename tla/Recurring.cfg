SPECIFICATION FairRecurringSpec
CONSTANTS
  hourly = hourly
  daily = daily
  q1 = q1
  NoKey = NoKey
  Keys = {}
  Queues = {q1}
  DefaultQueue = q1
  Jobs = {1, 2, 3, 4, 5}
  Schedules = {hourly, daily}
  Period <- Periods
  Mutable = {hourly}
  MaxRestarts = 1
  MaxLog = 5
  MaxFaults = 1
  MaxTime = 4
CHECK_DEADLOCK FALSE
INVARIANTS RecurringTypeOK NoRunSkipped RepeatsAreBounded
PROPERTIES DueScheduleMoves DeletedFiresNoMore
