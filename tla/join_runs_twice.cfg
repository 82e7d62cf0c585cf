SPECIFICATION Spec
CONSTANTS
  t = t
  x = x
  y = y
  g = g
  p = p
  h1 = h1
  h2 = h2
  Nodes = {t, x, y, g}
  Edges <- JoinEdges
  Triggers = {t}
  Handlers = {h1, h2}
  NoTask = NoTask
  MaxRetries = 3
  MaxRetryCount = 3
  FaultKinds = {}
  MaxFaults = 0
CHECK_DEADLOCK FALSE
PROPERTY SuccessIsFinal
