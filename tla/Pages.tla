-------------------------------- MODULE Pages --------------------------------
(***************************************************************************)
(* The pages of the workspace: the canvas of the builder with its          *)
(* inspector, the block panel, the resizable panel around the inspector,   *)
(* the shell with its shortcuts and cookies, the library of workflows, and *)
(* the page of a run.  A behaviour is one of one of them, the one that     *)
(* screen names; the others stay as they began.                            *)
(***************************************************************************)
EXTENDS Integers, Sequences, FiniteSets

CONSTANTS
  None,           \* stands for every value that is not there
  Away            \* the address outside of the library

\* The canvas, and the panel of blocks beside it, with blocks of its own.
CONSTANTS Keys, NewKey, NodeIds, Trigger, Blocks, BlockOf, FormBlocks, ResetWrites, Configs,
  EmptyConfig, RenderedNodes, RenderedEdges, RenderedConfig, NewIds, RecentLimit,
  PanelKeys, PanelBlocks, PanelBlockOf, Queries, Matches

\* The inspector's widths.
CONSTANTS minWidth, maxWidth, DragWidths

\* The library.
CONSTANTS Workflows, Tags, TagsOf, LibraryQueries, NoQuery, Matching, Links, ITEMS_PER_PAGE

\* The page of a run.
CONSTANTS Runs, Ended, RunNodes, Handlers, ChanSize, MaxAttempts, MaxQueued, MaxVisits

VARIABLE screen   \* what the user works with

-----------------------------------------------------------------------------
(* The screens.                                                            *)

VARIABLES flows, currentKey, onCanvas, tab, form
canvasVars == <<flows, currentKey, onCanvas, tab, form>>

Canvas == INSTANCE Canvas WITH NoKey <- None, NoNode <- None

\* A workflow that the server renders passed its validation: its edges join its
\* nodes.
ASSUME CanvasAssumption ==
  /\ EmptyConfig \in Configs /\ RecentLimit \in Nat
  /\ BlockOf \in [NodeIds -> Blocks]
  /\ RenderedNodes \in [Keys -> SUBSET NodeIds] /\ RenderedConfig \in [NodeIds -> Configs]
  /\ \A k \in Keys : RenderedEdges[k] \subseteq RenderedNodes[k] \X RenderedNodes[k]
  /\ None \notin Keys /\ None \notin Canvas!NodeRef

VARIABLES panelFlows, panelKey, panelOnCanvas, panelTab, panelForm, searchQuery, expanded, favorites
panelVars == <<panelFlows, panelKey, panelOnCanvas, panelTab, panelForm, searchQuery, expanded, favorites>>

\* The panel without the forms of the inspector; every node may be dropped.
Panel == INSTANCE BlockPanel WITH
  Keys <- PanelKeys, NoKey <- None, NoNode <- None, Blocks <- PanelBlocks,
  BlockOf <- PanelBlockOf, FormBlocks <- {}, ResetWrites <- {}, NewIds <- NodeIds,
  flows <- panelFlows, currentKey <- panelKey, onCanvas <- panelOnCanvas,
  tab <- panelTab, form <- panelForm

\* Every block comes from the table (nodeTypeToBlockMap).
ASSUME PanelAssumption ==
  /\ PanelKeys \subseteq Keys
  /\ PanelBlockOf \in [NodeIds -> PanelBlocks]
  /\ PanelBlocks \subseteq Panel!TriggerBlocks \cup Panel!ActionBlocks
  /\ "" \in Queries

VARIABLES page, toggleInspectorPanel, showPanel, width, z, drag, overshot, seen
inspectorVars == <<page, toggleInspectorPanel, showPanel, width, z, drag, overshot, seen>>

Inspector == INSTANCE InspectorResize

ASSUME InspectorAssumption ==
  minWidth \in Nat \ {0} /\ maxWidth \in Nat /\ minWidth <= maxWidth /\ DragWidths \subseteq Int

VARIABLES open, openMobile, isMobile, sidebarCookie, theme, themeCookie, shellPage,
  toggleBlockPanel, toggleInspector, searchFocused, prevPanelOpen, timer, focus
shellVars == <<open, openMobile, isMobile, sidebarCookie, theme, themeCookie, shellPage,
  toggleBlockPanel, toggleInspector, searchFocused, prevPanelOpen, timer, focus>>

Shell == INSTANCE WorkspaceShell WITH
  NoCookie <- None, page <- shellPage, toggleInspectorPanel <- toggleInspector

VARIABLES status, archiveRequests, route, searchParams, loaderData, navigation, showLoading,
  archivingWorkflow
libraryVars == <<status, archiveRequests, route, searchParams, loaderData, navigation, showLoading,
  archivingWorkflow>>

Library == INSTANCE WorkflowLibrary WITH Queries <- LibraryQueries

\* The empty query matches every workflow.
ASSUME LibraryAssumption ==
  /\ IsFiniteSet(Workflows)
  /\ NoQuery \in LibraryQueries /\ Matching[NoQuery] = Workflows
  /\ Links # {}
  /\ Links \subseteq [q : LibraryQueries, tab : Library!Statuses \cup {None}, tags : SUBSET Tags, page : Nat]
  /\ ITEMS_PER_PAGE \in Nat \ {0}

VARIABLES runFlows, runKey, runStatus, nodeRun, attempts, task, untold, pubsub, conn,
  mounted, visits, mixed
runVars == <<runFlows, runKey, runStatus, nodeRun, attempts, task, untold, pubsub, conn,
  mounted, visits, mixed>>

Run == INSTANCE RunPage WITH
  NoStream <- None, Keys <- Runs, NoKey <- None, NodeIds <- RunNodes, NoNode <- None,
  Blocks <- {}, flows <- runFlows, currentKey <- runKey

ASSUME RunAssumption ==
  IsFiniteSet(RunNodes) /\ Ended \subseteq Runs /\ None \notin Runs
  /\ {ChanSize, MaxAttempts, MaxQueued, MaxVisits} \subseteq Nat

Screens == {"canvas", "panel", "inspector", "shell", "library", "run"}

-----------------------------------------------------------------------------
\* A screen that is not worked with begins in one state.
Init ==
  /\ screen \in Screens
  /\ screen # "inspector" => page = "builder"
  /\ screen # "shell" => isMobile = FALSE
  /\ screen # "library" => /\ status = [w \in Workflows |-> "draft"]
                           /\ searchParams = CHOOSE params \in Links : TRUE
  /\ Canvas!Init /\ Panel!PanelInit /\ Inspector!Init /\ Shell!Init /\ Library!Init /\ Run!Init

Rest(s) ==
  CASE s = "canvas" -> UNCHANGED canvasVars
    [] s = "panel" -> UNCHANGED panelVars
    [] s = "inspector" -> UNCHANGED inspectorVars
    [] s = "shell" -> UNCHANGED shellVars
    [] s = "library" -> UNCHANGED libraryVars
    [] s = "run" -> UNCHANGED runVars

Others(s) == UNCHANGED screen /\ \A r \in Screens \ {s} : Rest(r)

Next ==
  \/ screen = "canvas" /\ Canvas!Next /\ Others("canvas")
  \/ screen = "panel" /\ Panel!PanelNext /\ Others("panel")
  \/ screen = "inspector" /\ Inspector!Next /\ Others("inspector")
  \/ screen = "shell" /\ Shell!Next /\ Others("shell")
  \/ screen = "library" /\ Library!Next /\ Others("library")
  \/ screen = "run" /\ Run!Next /\ Others("run")

vars == <<screen, canvasVars, panelVars, inspectorVars, shellVars, libraryVars, runVars>>

\* The fairness of each screen, while it is worked with.
Fairness ==
  /\ WF_inspectorVars(screen = "inspector" /\ Inspector!Commit)
  /\ WF_shellVars(screen = "shell" /\ Shell!TimerFires)
  /\ WF_libraryVars(screen = "library" /\ (Library!LoaderReads \/ Library!LoaderFails))
  /\ WF_libraryVars(screen = "library" /\ Library!NavigationCompletes)
  /\ WF_libraryVars(screen = "library" /\ Library!DebounceFires)
  /\ WF_runVars(screen = "run" /\ Run!Dispatch)
  /\ WF_runVars(screen = "run" /\ Run!Handle)
  /\ WF_runVars(screen = "run" /\ Run!Receive)
  /\ \A h \in Handlers : WF_runVars(screen = "run" /\ Run!PublishEnds(h))

Spec == Init /\ [][Next]_vars /\ Fairness

-----------------------------------------------------------------------------
(* What each screen promises.                                              *)

\* The types of all screens.
TypeOK ==
  CASE screen = "canvas" -> Canvas!TypeOK
    [] screen = "panel" -> Panel!PanelTypeOK
    [] screen = "inspector" -> Inspector!InspectorTypeOK
    [] screen = "shell" -> Shell!TypeOK
    [] screen = "library" -> Library!TypeOK
    [] screen = "run" -> Run!TypeOK

\* Whatever was dropped, connected, deleted and selected on whichever page:
\* every edge of a flow joins two of its nodes, the handles are animated exactly
\* where edges end, and the mounted settings form is for the type of the
\* selected node (flowStore.ts, CanvasBody.tsx).
CanvasIsConsistent ==
  screen = "canvas" =>
    Canvas!EdgesConnectNodes /\ Canvas!AnimationsMatchEdges /\ Canvas!FormFitsSelected

\* Arranging the graph never loses what was configured in a node.
ConfigsSurviveEditing == Canvas!ConfigsSurviveEditing

\* The recent blocks are distinct and as many as the list holds, and a star
\* toggles its own block and no other (addToRecentlyUsed, toggleFavorite).  The
\* stars of the Favorites section toggle nothing, not even their own block: they
\* are left out of what is claimed.
PanelListsAreTrue == screen = "panel" => Panel!RecentlyUsedBounded /\ Panel!StarToggles

\* However drags, clicks and keys interleave: at rest the inspector has no width
\* or one within its limits, unless it was closed and dragged past the edge of
\* the window, and one that the layout has switched off has width 0
\* (InspectorPanel).
InspectorIsLegal == screen = "inspector" => Inspector!WidthIsLegal /\ Inspector!OffIsClosed

\* "/ to search" is never dead on the builder, wherever the user comes from: the
\* flag that disables it is set only while the field has, or is about to get, the
\* focus, and a pending focus timer belongs to an open panel there (SearchBar).
SearchIsReachable == screen = "shell" => Shell!SlashNeverDead /\ Shell!TimerOnlyWhileOpen

\* What the library shows is old in one way only, rows archived meanwhile; a
\* page number that no longer exists never blanks it; and the message of an
\* empty tab is true, unless tags are selected (WorkflowList).
LibraryIsTrue ==
  screen = "library" =>
    Library!OnlyArchivingIsMissed /\ Library!NeverBlank /\ Library!EmptyMessageIsTrue

Busy ==
  \/ screen = "inspector" /\ ~Inspector!Settled
  \/ screen = "shell" /\ Shell!SearchWaits

\* Whatever a page has started comes to rest: the effects of the inspector that
\* feed each other settle; after "/" on the builder the search field gets the
\* focus, or the user goes elsewhere; once the user stops clicking, the
\* skeletons of the library go away.
PagesSettle ==
  /\ []<>~Busy
  /\ <>[][~(screen = "library" /\ Library!UserNavigates)]_libraryVars => []<>~showLoading

\* Once everything sent has arrived, the page of a run shows the stored status
\* of every node whose last message was not dropped and told what was stored when
\* it was sent (SSE of services/workflow_run.go and the run's route).
SilentMeansTrue == screen = "run" => Run!SilentMeansTrue

\* The success of a node is shown in the end, unless its message was dropped,
\* another handler overwrites it, or the page stops listening.
SuccessArrives == Run!SuccessArrives
=============================================================================
