------------------------------ MODULE FlowStore ------------------------------
(***************************************************************************)
(* The canvas store of the frontend (components/Canvas/flowStore.ts): one  *)
(* record of canvas data per key, and the key of the page on display.      *)
(* Every method of the store is an operator from the data it reads to the  *)
(* data it leaves; pages turn them into actions with SetFlow.  A node is   *)
(* its id; its position, label and icon are left out, its type is fixed    *)
(* with its id.  clearFlow, resetHandleAnimations and the general form of  *)
(* setHandleAnimation are left out: no page calls them.                    *)
(***************************************************************************)
EXTENDS Naturals, Sequences, Arrays

CONSTANTS Keys, NoKey, NodeIds, NoNode, Blocks, Configs, EmptyConfig, RecentLimit

VARIABLES flows, currentKey
flowVars == <<flows, currentKey>>

Statuses == {"pending", "running", "success", "failed"}
Handles == {"source", "target"}
NoFlow == [missing |-> TRUE]

\* A reference to a node object.  live: its data object is the one the canvas
\* holds for that id; otherwise config is what the detached object holds.
NodeRef == [id : NodeIds, live : BOOLEAN, config : Configs]

FlowData == [nodes : SUBSET NodeIds, config : [NodeIds -> Configs],
             edges : SUBSET (NodeIds \X NodeIds), selectedNode : NodeRef \cup {NoNode},
             recentlyUsed : Seq(Blocks), handleAnimations : SUBSET (NodeIds \X Handles),
             nodeStatus : [NodeIds -> Statuses]]

defaultFlowData ==
  [nodes |-> {}, config |-> [n \in NodeIds |-> EmptyConfig], edges |-> {},
   selectedNode |-> NoNode, recentlyUsed |-> <<>>, handleAnimations |-> {},
   nodeStatus |-> [n \in NodeIds |-> "pending"]]

FlowTypeOK ==
  /\ flows \in [Keys -> FlowData \cup {NoFlow}]
  /\ currentKey \in Keys \cup {NoKey}

FlowInit ==
  /\ flows = [k \in Keys |-> NoFlow]
  /\ currentKey = NoKey

-----------------------------------------------------------------------------
(* Reading.                                                                *)

\* What the getters return: the data of the flow on display, or defaults.
Current == IF currentKey = NoKey THEN defaultFlowData
           ELSE IF flows[currentKey] = NoFlow THEN defaultFlowData ELSE flows[currentKey]

getNodeStatus(n) == Current.nodeStatus[n]

-----------------------------------------------------------------------------
(* The data a method leaves.                                               *)

computeHandleAnimations(edges) ==
  {<<e[1], "source">> : e \in edges} \cup {<<e[2], "target">> : e \in edges}

\* Every setter keeps the fields it does not name.
setHandleAnimation(f, n, handle) == [f EXCEPT !.handleAnimations = @ \cup {<<n, handle>>}]

setNodeStatus(f, n, s) == [f EXCEPT !.nodeStatus[n] = s]

\* An object that leaves the canvas keeps what it held.
Detached(f, gone) ==
  IF f.selectedNode = NoNode THEN NoNode
  ELSE IF f.selectedNode.live /\ f.selectedNode.id \in gone
       THEN [f.selectedNode EXCEPT !.live = FALSE, !.config = f.config[f.selectedNode.id]]
       ELSE f.selectedNode

\* Fresh node objects for the given ids and configurations: references to the
\* old ones are not updated.
setNodes(f, ids, cfg) ==
  [f EXCEPT !.nodes = ids,
            !.config = [n \in NodeIds |-> IF n \in ids THEN cfg[n] ELSE EmptyConfig],
            !.selectedNode = Detached(f, f.nodes)]

setEdges(f, edges) == [f EXCEPT !.edges = edges,
                                !.handleAnimations = computeHandleAnimations(edges)]

setSelectedNode(f, n) ==
  [f EXCEPT !.selectedNode = IF n = NoNode THEN NoNode
                             ELSE [id |-> n, live |-> TRUE, config |-> EmptyConfig]]

\* applyNodeChanges copies the node objects that stay, with the same data.
onNodesChange(f, removed) ==
  [f EXCEPT !.nodes = @ \ removed,
            !.config = [n \in NodeIds |-> IF n \in removed THEN EmptyConfig ELSE @[n]],
            !.selectedNode = Detached(f, removed)]

\* Mutant: every removed edge stops both of its handles.
StopsBusyHandles(f, removed) ==
  [f EXCEPT !.edges = @ \ removed,
            !.handleAnimations = @ \ computeHandleAnimations(f.edges \cap removed)]

\* A handle stops moving when the last edge at that side of its node is gone.
onEdgesChange(f, removed) ==
  LET removedEdges == f.edges \cap removed
      newEdges == f.edges \ removed
      idle == {<<e[1], "source">> : e \in {r \in removedEdges : \A x \in newEdges : x[1] # r[1]}}
              \cup
              {<<e[2], "target">> : e \in {r \in removedEdges : \A x \in newEdges : x[2] # r[2]}}
  IN [f EXCEPT !.edges = newEdges, !.handleAnimations = @ \ idle]

onConnect(f, source, target) ==
  LET g == setHandleAnimation(setHandleAnimation(f, source, "source"), target, "target")
  IN [g EXCEPT !.edges = @ \cup {<<source, target>>}]

\* Mutant: a block used again keeps its old place in the list too.
AddsTwice(f, block) ==
  LET all == <<block>> \o f.recentlyUsed
  IN [f EXCEPT !.recentlyUsed = SubSeq(all, 1, IF Len(all) < RecentLimit THEN Len(all) ELSE RecentLimit)]

addRecentlyUsedBlock(f, block) ==
  LET all == <<block>> \o filter(f.recentlyUsed, Blocks \ {block})
  IN [f EXCEPT !.recentlyUsed = SubSeq(all, 1, IF Len(all) < RecentLimit THEN Len(all) ELSE RecentLimit)]

clearRecentlyUsed(f) == [f EXCEPT !.recentlyUsed = <<>>]

-----------------------------------------------------------------------------
(* The methods as changes of the store.                                    *)

\* Apply a method to the flow on display; without a key every method returns.
SetFlow(f) ==
  /\ currentKey # NoKey
  /\ flows' = [flows EXCEPT ![currentKey] = f]
  /\ UNCHANGED currentKey

\* What initializeFlow leaves under its key: data that is there is kept.
Initialized(key) == IF flows[key] = NoFlow THEN defaultFlowData ELSE flows[key]

\* initializeFlow, followed in the same effect phase by what a page loads: f
\* is Initialized(key) after the page's setNodes and setEdges.
initializeFlow(key, f) ==
  /\ currentKey' = key
  /\ flows' = [flows EXCEPT ![key] = f]

-----------------------------------------------------------------------------
(* Properties of the store.                                                *)

Stored == {k \in Keys : flows[k] # NoFlow}

\* A handle of a node is animated exactly when an edge of the canvas ends
\* there: flowStore.ts keeps the two apart and updates the animations on
\* connect and on removal without looking at all the edges.
AnimationsMatchEdges ==
  \A k \in Stored : flows[k].handleAnimations = computeHandleAnimations(flows[k].edges)

\* The recently used blocks are distinct and at most RecentLimit (slice(0, 5)),
\* whatever was dropped, cleared and dropped again.
RecentlyUsedBounded ==
  \A k \in Stored :
    /\ Len(flows[k].recentlyUsed) <= RecentLimit
    /\ \A i, j \in 1 .. Len(flows[k].recentlyUsed) :
         flows[k].recentlyUsed[i] = flows[k].recentlyUsed[j] => i = j

=============================================================================
