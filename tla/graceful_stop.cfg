SPECIFICATION Spec
CONSTANTS
  w1 = w1
  w2 = w2
  p1 = p1
  p2 = p2
  Workflows = {w1}
  Processes = {p1}
  Period <- DailyPeriod
  ClaimLimit = 1
  NoTime = NoTime
  NoRequest = NoRequest
  MaxTime = 3
  MaxEdits = 0
  MaxStops = 1
  MaxFailures = 0
CHECK_DEADLOCK FALSE
PROPERTY GracefulStop
