--------------------------- MODULE WorkflowGraph ---------------------------
(***************************************************************************)
(* The workflow a run executes: the rows of workflow_node and              *)
(* workflow_edge that GetWorkflowGraph loads.  A node is a trigger (its    *)
(* work is done when the workflow is created) or an action.  The graph is  *)
(* constant: the model follows one run of a workflow nobody edits          *)
(* meanwhile.                                                              *)
(***************************************************************************)
EXTENDS Integers, FiniteSets

CONSTANTS
    Nodes,      \* the workflow's nodes
    Edges,      \* pairs <<source node, target node>>
    Triggers    \* the nodes of category "trigger"; the others are actions

ASSUME GraphAssumption ==
    /\ IsFiniteSet(Nodes)
    /\ Edges \subseteq Nodes \X Nodes
    /\ Triggers \subseteq Nodes

Parents(n)  == {p \in Nodes : <<p, n>> \in Edges}
Children(n) == {c \in Nodes : <<n, c>> \in Edges}

\* The nodes that are the target of no edge.
GetRootNodes == {n \in Nodes : Parents(n) = {}}
=============================================================================
