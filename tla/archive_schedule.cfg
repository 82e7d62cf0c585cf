SPECIFICATION Spec
CONSTANTS
  NewIds = {t, u}
  TriggerIds = {t}
  Configs = {c, d}
  EmptyConfig = c
  NoRow = NoRow
  MaxWorkflows = 1
  MaxNodeId = 4
  MaxRequests = 2
  MaxEdits = 2
  CanFail = TRUE
CHECK_DEADLOCK FALSE
INVARIANT ArchivedIsUnscheduled
