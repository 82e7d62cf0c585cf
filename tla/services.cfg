SPECIFICATION ServicesSpec
CONSTANTS
  maxAttempts = 3
  SetupFails = FALSE
  MaxMonitors = 3
  None = None
  e1 = e1
  e2 = e2
  Pollers = {p1, p2}
  Events = {e1, e2}
  TimeOf <- EventTimes
  Conditions = {"cancelled", "starting", "ending"}
  Minutes = {3}
  CancelledTTL = 5
  MaxResults = 1
  MaxNow = 3
  MaxTroubles = 1
  Callers = {c1, c2}
  MaxGrants = 2
  MaxTokens = 3
  Nodes = {n1, n2, n3, n4}
  Unknown = unknown
  MaxEdges = 5
  NewIds = {t, u}
  TriggerIds = {t}
  Configs = {"c", "d"}
  EmptyConfig = "c"
  MaxWorkflows = 1
  MaxNodeId = 4
  MaxSaves = 3
  MaxEdits = 2
CHECK_DEADLOCK FALSE
INVARIANTS ServicesTypeOK OneMonitor OncePerEvent ClaimedRuns ValidationIsExact
PROPERTIES ReconnectEnds PolledAgain RefreshTokenKept DeltaIsExact ArchiveIsFinal
