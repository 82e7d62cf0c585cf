------------------------------- MODULE Canvas --------------------------------
(***************************************************************************)
(* The workflow builder page: React Flow over the store (CanvasBody.tsx,   *)
(* NodeUI.tsx), the page that loads a workflow into a flow of its own      *)
(* (workflow-builder/route.tsx) and the inspector with the settings form   *)
(* of the selected node (InspectorPanel, settings).                        *)
(*                                                                         *)
(* React renders after every change of the store before the next event, so *)
(* an action is one event with the renders and effects it causes.  A       *)
(* mounted form keeps its values until its component is unmounted: React   *)
(* keeps a component as long as the same type stands at the same place.    *)
(***************************************************************************)
EXTENDS FlowStore

CONSTANTS
  NewKey,          \* the key "builder-new", of the page without a workflow
  Trigger,         \* the node ids whose block is a trigger
  BlockOf,         \* node id -> its node_type
  FormBlocks,      \* the node types that SettingsTab has a form for
  ResetWrites,     \* the node types whose form also resets the node itself
  RenderedNodes,   \* key -> the nodes the server renders for that workflow
  RenderedEdges, RenderedConfig,
  NewIds           \* ids that uuidv4 may give to dropped nodes

VARIABLES
  onCanvas,        \* the builder page is mounted
  tab,             \* the inspector's tab: the settings are mounted or not
  form             \* the mounted settings form
vars == <<flows, currentKey, onCanvas, tab, form>>

NoForm == [mounted |-> FALSE]

Form == [block : FormBlocks, value : Configs]

TypeOK ==
  /\ FlowTypeOK
  /\ onCanvas \in BOOLEAN
  /\ tab \in {"settings", "other"}
  /\ form \in Form \cup {NoForm}

Init ==
  /\ FlowInit
  /\ onCanvas = FALSE
  /\ tab = "settings"
  /\ form = NoForm

-----------------------------------------------------------------------------
(* Rendering the inspector.                                                *)

\* The configuration of the object the inspector refers to.
SelectedConfig(f) == IF f.selectedNode.live THEN f.config[f.selectedNode.id]
                     ELSE f.selectedNode.config

\* useForm reads its default values once, when the component is mounted.
FreshForm(f) ==
  LET n == f.selectedNode.id
  IN IF BlockOf[n] \in FormBlocks
     THEN [block |-> BlockOf[n], value |-> SelectedConfig(f)]
     ELSE NoForm

\* SettingsTab after a render: a form for the same node type is the same
\* component and keeps its state.
SettingsTab(f) ==
  IF f.selectedNode = NoNode THEN NoForm
  ELSE IF form # NoForm /\ form.block = BlockOf[f.selectedNode.id] THEN form
       ELSE FreshForm(f)

\* The inspector after a render.  Without a selection its tabs are unmounted,
\* and come back with the settings in front.
InspectorPanel(f) ==
  /\ tab' = IF f.selectedNode = NoNode THEN "settings" ELSE tab
  /\ form' = IF tab = "other" /\ f.selectedNode # NoNode THEN NoForm ELSE SettingsTab(f)

\* An event on the canvas: the flow on display becomes f and all is rendered.
Event(f) ==
  /\ onCanvas
  /\ SetFlow(f)
  /\ InspectorPanel(f)
  /\ UNCHANGED onCanvas

-----------------------------------------------------------------------------
(* Pages.                                                                  *)

\* The effect of the builder page: the rendered workflow replaces the nodes
\* and the edges of the flow; the rest of the flow stays.
LoadWorkflow(key, f) ==
  IF key = NewKey THEN f
  ELSE setEdges(setNodes(f, RenderedNodes[key], RenderedConfig), RenderedEdges[key])

\* Going to a builder page: first entry, another workflow, or back.
OpenBuilder(key) ==
  LET f == LoadWorkflow(key, Initialized(key))
  IN /\ (onCanvas => currentKey # key)
     /\ initializeFlow(key, f)
     /\ onCanvas' = TRUE
     /\ InspectorPanel(f)

\* Any page without a canvas: the builder and its forms are unmounted, the
\* store stays as it is.
LeaveBuilder ==
  /\ onCanvas
  /\ onCanvas' = FALSE
  /\ tab' = "settings"
  /\ form' = NoForm
  /\ UNCHANGED flowVars

-----------------------------------------------------------------------------
(* The canvas.                                                             *)

onNodeClick(n) ==
  /\ n \in Current.nodes
  /\ Event(setSelectedNode(Current, n))

onPaneClick == Event(setSelectedNode(Current, NoNode))

\* uuidv4 gives an id that no node has or had.
UsedIds == UNION {flows[k].nodes \cup {n \in NodeIds : /\ flows[k].selectedNode # NoNode
                                                     /\ flows[k].selectedNode.id = n} : k \in Stored}

\* Mutant: the nodes are built again, without their configuration.
DropRebuilds(n) ==
  LET f == setSelectedNode(Current, NoNode)
      g == setNodes(f, f.nodes \cup {n}, [m \in NodeIds |-> EmptyConfig])
  IN /\ n \in NewIds \ UsedIds
     /\ Event(addRecentlyUsedBlock(g, BlockOf[n]))

\* A block dropped on the canvas gets a fresh id and an empty configuration;
\* the others are copied with their data.
onDrop(n) ==
  LET f == setSelectedNode(Current, NoNode)
      g == [f EXCEPT !.nodes = @ \cup {n}]
  IN /\ n \in NewIds \ UsedIds
     /\ Event(addRecentlyUsedBlock(g, BlockOf[n]))

\* Only actions have a handle at which a connection can end.
ConnectNodes(a, b) ==
  /\ a \in Current.nodes
  /\ b \in Current.nodes \ Trigger
  /\ Event(onConnect(Current, a, b))

DeleteEdge(e) ==
  /\ e \in Current.edges
  /\ Event(onEdgesChange(Current, {e}))

\* React Flow deletes a node together with its edges, the edges first.
deleteElements(f, ids) ==
  onNodesChange(onEdgesChange(f, {e \in f.edges : e[1] \in ids \/ e[2] \in ids}), ids)

DeleteNode(n) ==
  /\ n \in Current.nodes
  /\ Event(deleteElements(Current, {n}))

-----------------------------------------------------------------------------
(* The inspector's tabs and forms.                                         *)

SelectTab(t) ==
  /\ onCanvas /\ Current.selectedNode # NoNode
  /\ t # tab
  /\ tab' = t
  /\ form' = IF t = "settings" THEN FreshForm(Current) ELSE NoForm
  /\ UNCHANGED <<flows, currentKey, onCanvas>>

EditForm(v) ==
  /\ form # NoForm
  /\ form' = [form EXCEPT !.value = v]
  /\ UNCHANGED <<flows, currentKey, onCanvas, tab>>

\* The assignment selectedNode.data.config = v, on the object itself.
AssignConfig(f, v) == IF f.selectedNode.live
                      THEN [f EXCEPT !.config[f.selectedNode.id] = v]
                      ELSE [f EXCEPT !.selectedNode.config = v]

\* Only complete values pass the form's schema.
onSubmit ==
  /\ form # NoForm /\ form.value # EmptyConfig
  /\ SetFlow(AssignConfig(Current, form.value))
  /\ UNCHANGED <<onCanvas, tab, form>>

\* The calendar form resets the node as well, the other two only themselves.
handleReset ==
  /\ form # NoForm
  /\ form' = [form EXCEPT !.value = EmptyConfig]
  /\ IF form.block \in ResetWrites THEN SetFlow(AssignConfig(Current, EmptyConfig))
     ELSE UNCHANGED flowVars
  /\ UNCHANGED <<onCanvas, tab>>

-----------------------------------------------------------------------------
CanvasEvent ==
  \/ \E n \in NodeIds : onNodeClick(n) \/ onDrop(n) \/ DeleteNode(n)
  \/ onPaneClick
  \/ \E a, b \in NodeIds : ConnectNodes(a, b) \/ DeleteEdge(<<a, b>>)

InspectorEvent ==
  \/ \E t \in {"settings", "other"} : SelectTab(t)
  \/ \E v \in Configs : EditForm(v)
  \/ onSubmit
  \/ handleReset

Next ==
  \/ \E k \in Keys : OpenBuilder(k)
  \/ LeaveBuilder
  \/ CanvasEvent
  \/ InspectorEvent

Spec == Init /\ [][Next]_vars

-----------------------------------------------------------------------------
(* Properties.                                                             *)

\* Every edge of a flow joins two nodes of that flow, through drops, deletions,
\* reloads and changes of page: the server refuses any other graph.
EdgesConnectNodes ==
  \A k \in Stored : flows[k].edges \subseteq flows[k].nodes \X flows[k].nodes

\* Arranging the graph never loses what was configured: while a node stays on
\* the canvas of the same page, its configuration changes only through its form.
ConfigsSurviveEditing ==
  [][(\E k \in Stored : \E n \in flows[k].nodes \cap flows'[k].nodes :
        flows'[k].config[n] # flows[k].config[n]) => ~CanvasEvent]_vars

\* The Save button of a form never puts settings of one node type into a node
\* of another: the mounted form is for the type of the selected node.
FormFitsSelected ==
  form # NoForm => /\ Current.selectedNode # NoNode
                   /\ form.block = BlockOf[Current.selectedNode.id]

=============================================================================
