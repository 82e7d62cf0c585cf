------------------------ MODULE MCWorkflowExecution ------------------------
(***************************************************************************)
(* Instances of WorkflowExecution for TLC: small workflows with a trigger  *)
(* t, and two handler goroutines h1 and h2.                                *)
(***************************************************************************)
EXTENDS WorkflowExecution, TLC

CONSTANTS t, x, y, g, p, h1, h2

\* One action after a trigger.
StepEdges == {<<t, x>>}

\* Two chains, the second one started by an action: no node has two parents.
ForestEdges == {<<t, x>>, <<x, y>>, <<g, p>>}

\* x and y run in parallel and join in g.
JoinEdges == {<<t, x>>, <<t, y>>, <<x, g>>, <<y, g>>}

HandlerSymmetry == Permutations(Handlers)
=============================================================================
