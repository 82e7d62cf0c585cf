SPECIFICATION Spec
CONSTANTS
  t = t
  x = x
  y = y
  g = g
  p = p
  h1 = h1
  h2 = h2
  Nodes = {t, x}
  Edges <- StepEdges
  Triggers = {t}
  Handlers = {h1, h2}
  NoTask = NoTask
  MaxRetries = 3
  MaxRetryCount = 3
  FaultKinds = {"crash"}
  MaxFaults = 1
CHECK_DEADLOCK FALSE
INVARIANT ExhaustedNodeFailsRun
