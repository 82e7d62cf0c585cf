SPECIFICATION Spec
CONSTANTS
  None = None
  Away = Away
  Keys = {"new", "w"}
  NewKey = "new"
  NodeIds = {"t", "a", "u"}
  Trigger = {"t"}
  Blocks = {"schedule", "calendar"}
  BlockOf <- MCBlockOf
  FormBlocks = {"schedule", "calendar"}
  ResetWrites = {"calendar"}
  Configs = {"empty", "full"}
  EmptyConfig = "empty"
  RenderedNodes <- MCRenderedNodes
  RenderedEdges <- MCRenderedEdges
  RenderedConfig <- MCRenderedConfig
  NewIds = {"u"}
  RecentLimit = 2
  PanelKeys = {"new"}
  PanelBlocks = {"schedule", "send_email", "send_sms"}
  PanelBlockOf <- MCPanelBlockOf
  Queries = {"", "send"}
  Matches <- MCMatches
  minWidth = 3
  maxWidth = 6
  DragWidths <- MCDragWidths
  Workflows = {"w1", "w2"}
  Tags = {"t1"}
  TagsOf <- MCTagsOf
  LibraryQueries = {"", "q"}
  NoQuery = ""
  Matching <- MCMatching
  Links <- MCLinks
  ITEMS_PER_PAGE = 1
  Runs = {"r1", "r2"}
  Ended = {"r2"}
  RunNodes = {"n1"}
  Handlers = {"h1", "h2"}
  ChanSize = 1
  MaxAttempts = 1
  MaxQueued = 1
  MaxVisits = 2
CHECK_DEADLOCK FALSE
INVARIANTS
  TypeOK CanvasIsConsistent PanelListsAreTrue InspectorIsLegal SearchIsReachable LibraryIsTrue
  SilentMeansTrue
PROPERTIES
  ConfigsSurviveEditing PagesSettle SuccessArrives
