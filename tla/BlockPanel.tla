----------------------------- MODULE BlockPanel ------------------------------
(***************************************************************************)
(* The panel of blocks beside the canvas (BlockPanel.tsx over the table    *)
(* BlockCategories.tsx): a search, the favourites, the recently used       *)
(* blocks of the flow on display and the two categories, each collapsed at *)
(* first.  Blocks are dragged from it to the canvas.  The view mode only   *)
(* changes the layout and is left out.                                     *)
(***************************************************************************)
EXTENDS Canvas

CONSTANTS
  Queries,         \* search texts, "" among them
  Matches          \* search text -> the blocks whose label or description has it

VARIABLES searchQuery, expanded, favorites
panelVars == <<searchQuery, expanded, favorites>>
allVars == <<flows, currentKey, onCanvas, tab, form, searchQuery, expanded, favorites>>

-----------------------------------------------------------------------------
(* The table of blocks.                                                    *)

TriggerBlocks == {"schedule", "calendar_event", "webhook", "email_trigger", "file_upload"}

ActionBlocks ==
  {"send_email", "google_calendar_create_event", "send_sms", "send_notification",
   "create_task", "query_database", "transform_data", "export_csv", "import_data",
   "http_request", "api_call", "webhook_send", "oauth_connect", "slack_message",
   "teams_message", "push_notification", "in_app_notification", "create_user",
   "update_user", "assign_role", "send_welcome_email", "track_event", "log_metric",
   "generate_report", "export_analytics"}

blockCategories == [Triggers |-> TriggerBlocks \cap Blocks, Actions |-> ActionBlocks \cap Blocks]
Categories == DOMAIN blockCategories

\* The pseudo categories under which the two other sections render blocks.
Sections == Categories \cup {"favorites", "recent"}

\* Every block of the canvas comes from the table (nodeTypeToBlockMap).
PanelTypeOK ==
  /\ TypeOK
  /\ searchQuery \in Queries
  /\ expanded \in SUBSET Categories
  /\ favorites \in Seq(Blocks)

-----------------------------------------------------------------------------
(* What the panel shows.                                                   *)

filteredCategories == [c \in Categories |-> blockCategories[c] \cap Matches[searchQuery]]

IsIn(seq, b) == \E i \in 1 .. Len(seq) : seq[i] = b
isBlockFavorite(b) == IsIn(favorites, b)

\* Favourites are listed whatever is searched; the recently used ones only
\* while nothing is; a category lists its blocks while it is expanded.
Shown(section) ==
  CASE section = "favorites" -> {b \in Blocks : isBlockFavorite(b)}
    [] section = "recent" -> IF searchQuery = "" THEN {b \in Blocks : IsIn(Current.recentlyUsed, b)}
                             ELSE {}
    [] OTHER -> IF section \in expanded THEN filteredCategories[section] ELSE {}

\* The category a recently used block is starred under.
getBlockCategoryName(b) ==
  IF \E c \in Categories : b \in blockCategories[c]
  THEN CHOOSE c \in Categories : b \in blockCategories[c]
  ELSE "recent"

CategoryName(section, b) == IF section = "recent" THEN getBlockCategoryName(b) ELSE section

-----------------------------------------------------------------------------
(* The panel's own events.                                                 *)

Panel(s, e, fs) ==
  /\ onCanvas
  /\ searchQuery' = s /\ expanded' = e /\ favorites' = fs
  /\ UNCHANGED vars

Search(q) == q # searchQuery /\ Panel(q, expanded, favorites)

\* A category without a matching block is not rendered.
toggleCategory(c) ==
  /\ filteredCategories[c] # {}
  /\ Panel(searchQuery, (expanded \ {c}) \cup ({c} \ expanded), favorites)

\* The favourites after toggleFavorite: unchanged when the name is not that
\* of a category with the block.
toggleFavorite(b, category) ==
  IF category \notin Categories THEN favorites
  ELSE IF b \notin blockCategories[category] THEN favorites
  ELSE IF isBlockFavorite(b) THEN filter(favorites, Blocks \ {b})
  ELSE Append(favorites, b)

ClickStar(section, b) ==
  /\ b \in Shown(section)
  /\ Panel(searchQuery, expanded, toggleFavorite(b, CategoryName(section, b)))

-----------------------------------------------------------------------------
(* Events that reach the store.                                            *)

\* A page that comes up mounts a new panel; from one builder page to another
\* the panel stays.
OpenPage(k) ==
  /\ OpenBuilder(k)
  /\ IF onCanvas THEN UNCHANGED panelVars
     ELSE searchQuery' = "" /\ expanded' = {} /\ favorites' = <<>>

LeavePage == LeaveBuilder /\ UNCHANGED panelVars

\* Drag a block that is shown and drop it on the canvas.
DragBlock(section, n) ==
  /\ BlockOf[n] \in Shown(section)
  /\ onDrop(n)
  /\ UNCHANGED panelVars

RemoveNode(n) == DeleteNode(n) /\ UNCHANGED panelVars

ClearRecents ==
  /\ Shown("recent") # {}
  /\ Event(clearRecentlyUsed(Current))
  /\ UNCHANGED panelVars

-----------------------------------------------------------------------------
PanelInit == Init /\ searchQuery = "" /\ expanded = {} /\ favorites = <<>>

PanelNext ==
  \/ \E q \in Queries : Search(q)
  \/ \E c \in Categories : toggleCategory(c)
  \/ \E s \in Sections, b \in Blocks : ClickStar(s, b)
  \/ \E k \in Keys : OpenPage(k)
  \/ LeavePage
  \/ \E s \in Sections, n \in NewIds : DragBlock(s, n)
  \/ \E n \in NewIds : RemoveNode(n)
  \/ ClearRecents

PanelSpec == PanelInit /\ [][PanelNext]_allVars

-----------------------------------------------------------------------------
(* Properties.                                                             *)

\* A star works wherever the block is shown as one of its category or as
\* recently used: the block's star changes and no other does.  The stars of
\* the Favorites section itself are left out: they pass a name toggleFavorite
\* does not know, so a block shown there cannot be taken out of the favourites.
StarToggles ==
  \A s \in Sections \ {"favorites"} : \A b \in Shown(s) :
    LET after == toggleFavorite(b, CategoryName(s, b))
    IN \A x \in Blocks : (IsIn(after, x) # isBlockFavorite(x)) <=> (x = b)

=============================================================================
