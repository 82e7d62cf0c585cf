SPECIFICATION Spec
CONSTANTS
  NoValue = NoValue
  Scale = 2
  Amounts <- MCAmounts
  KeywordCounts = {2}
  Calendars = {"primary"}
  Zone = 540
  Instants = {43740, 44620, 44645}
  Days = {27, 30, 32}
  Hours = {12, 11}
  Minutes = {0}
  Texts = {"", "a", "A", "x"}
  Empty = ""
  Addresses = {"a", "A"}
  LowerCase <- MCLowerCase
  Files <- MCFiles
  Pastes <- MCPastes
  TextLengths = {1, 101}
  MaxRecipients = 2
  MaxUploads = 1
  EventTimes = {"09:00"}
  DelayInputs <- MCDelayInputs
  EventLengths = {30}
  Details = {"details"}
  NoDetails = "none"
INVARIANTS TypeOK SavedIsValid ReopenKeepsSettings PreviewsAreTrue ConversionsRoundTrip
