SPECIFICATION FairSpec
CONSTANTS
  m1 = m1
  m2 = m2
  m3 = m3
  bad = bad
  resize = resize
  report = report
  Msgs = {m1, m2, m3, bad}
  Malformed = {bad}
  Priority <- Urgency
  Types = {resize, report}
  Type <- Kinds
  Limit = 1
CHECK_DEADLOCK FALSE
INVARIANTS ConsumerTypeOK NoLostWakeup SlotsAreHeld
PROPERTIES ImplementsDispatcher ProducedIsProcessed DrainCompletesWhenBusy
