SPECIFICATION Spec
CONSTANTS
  t = t
  x = x
  y = y
  g = g
  p = p
  h1 = h1
  h2 = h2
  Nodes = {t, x, y, g}
  Edges <- JoinEdges
  Triggers = {t}
  Handlers = {h1, h2}
  NoTask = NoTask
  MaxRetries = 2
  MaxRetryCount = 2
  FaultKinds = {"crash", "requeue", "db", "redis", "broker", "init"}
  MaxFaults = 1
CHECK_DEADLOCK FALSE
SYMMETRY HandlerSymmetry
INVARIANTS ParentsFirst NoLostNode
