-------------------------- MODULE WorkflowRunStore --------------------------
(***************************************************************************)
(* The PostgreSQL rows of one workflow run, and the statements             *)
(* repositories/workflow_run.go issues on them.  Every statement is one    *)
(* atomic step; none of them tests the row's current status, so a row      *)
(* holds whatever the last writer put there.                               *)
(***************************************************************************)
EXTENDS WorkflowGraph

VARIABLES
    runStatus,    \* workflow_run.status, "none" before the row exists
    nodeStatus,   \* workflow_node_run.status of every node
    nodeRetry     \* workflow_node_run.retry_count of every node

storeVars == <<runStatus, nodeStatus, nodeRetry>>

RunStatuses  == {"none", "running", "success", "failed"}
NodeStatuses == {"none", "pending", "running", "success", "failed"}

StoreInit ==
    /\ runStatus = "none"
    /\ nodeStatus = [n \in Nodes |-> "none"]
    /\ nodeRetry = [n \in Nodes |-> 0]

\* One transaction: the run and one row per node.  A trigger has already
\* fired, so its row starts as a success.
CreateWorkflowRun ==
    /\ Nodes # {}
    /\ runStatus' = "running"
    /\ nodeStatus' = [n \in Nodes |-> IF n \in Triggers THEN "success" ELSE "pending"]
    /\ nodeRetry' = [n \in Nodes |-> 0]

\* UPDATE ... WHERE id = run, whatever the status was.
CompleteWorkflowRun(status) ==
    /\ runStatus' = status
    /\ UNCHANGED <<nodeStatus, nodeRetry>>

MarkWorkflowNodeAsRunning(n, retryCount) ==
    /\ nodeStatus' = [nodeStatus EXCEPT ![n] = "running"]
    /\ nodeRetry' = [nodeRetry EXCEPT ![n] = retryCount]
    /\ UNCHANGED runStatus

UpdateWorkflowNodeRunStatus(n, status) ==
    /\ nodeStatus' = [nodeStatus EXCEPT ![n] = status]
    /\ UNCHANGED <<runStatus, nodeRetry>>

\* The reads: a node's row, or rows keyed by node (one row per node and run).
GetWorkflowNodeRun(n) == [status |-> nodeStatus[n], retryCount |-> nodeRetry[n]]

GetParentWorkflowNodeRuns(n) == [p \in Parents(n) |-> GetWorkflowNodeRun(p)]

GetChildWorkflowNodeRuns(n) == [c \in Children(n) |-> GetWorkflowNodeRun(c)]

GetWorkflowNodeRuns == [n \in Nodes |-> GetWorkflowNodeRun(n)]

\* The nodes among rows that have a status: a filter the callers write out.
NodesWith(status, rows) == {n \in DOMAIN rows : rows[n].status = status}
=============================================================================
