SPECIFICATION FairSpec
CONSTANTS
  w1 = w1
  w2 = w2
  p1 = p1
  p2 = p2
  Workflows = {w1}
  Processes = {p1, p2}
  Period <- DailyPeriod
  ClaimLimit = 1
  NoTime = NoTime
  NoRequest = NoRequest
  MaxTime = 4
  MaxEdits = 2
  MaxStops = 0
  MaxFailures = 0
CHECK_DEADLOCK FALSE
INVARIANT RunningIsOwned
PROPERTY DueIsServed
