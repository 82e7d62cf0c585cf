---------------------------- MODULE Orchestrator ----------------------------
(***************************************************************************)
(* OrchestrateWorkflow (services/orchestrator.go), called once per run by  *)
(* the run-workflow request, the scheduler or the calendar poller: it      *)
(* creates the run, fills the running set and enqueues the first nodes.    *)
(* The workers start on those while it is still enqueuing.  The graph was  *)
(* loaded and validated before its first step.                             *)
(***************************************************************************)
EXTENDS WorkflowRunStore, RunningNodeSet, TaskQueue, Environment

VARIABLES
    opc,      \* the step the orchestrator is about to take
    oroots,   \* root nodes it has not enqueued yet
    otodo     \* nodes a read returned that it still has to publish

orchestratorVars == <<opc, oroots, otodo>>

OrchestratorLabels == {"create", "initSet", "roots", "publish", "done", "aborted"}

OrchestratorInit ==
    /\ opc = "create"
    /\ oroots = GetRootNodes
    /\ otodo = {}

CreateRun ==
    /\ opc = "create"
    /\ CreateWorkflowRun
    /\ opc' = "initSet"
    /\ UNCHANGED <<redisVars, brokerVars, faults, oroots, otodo>>

\* Every node but the roots.
InitRunningSet ==
    /\ opc = "initSet"
    /\ InitializeRunningNodeSet(Nodes \ GetRootNodes)
    /\ opc' = "roots"
    /\ UNCHANGED <<storeVars, brokerVars, faults, oroots, otodo>>

\* The rows read for a root: EnqueueChildNodes of a trigger reads its
\* pending children, EnqueueNode of an action the node itself.
NodesToEnqueue(root) ==
    IF root \in Triggers
    THEN NodesWith("pending", GetChildWorkflowNodeRuns(root))
    ELSE {n \in {root} : GetWorkflowNodeRun(n).status = "pending"}

StartRoot ==
    /\ opc = "roots"
    /\ \E root \in oroots :
         /\ oroots' = oroots \ {root}
         /\ otodo' = NodesToEnqueue(root)
    /\ opc' = IF otodo' # {} THEN "publish" ELSE IF oroots' # {} THEN "roots" ELSE "done"
    /\ UNCHANGED <<storeVars, redisVars, brokerVars, faults>>

PublishFirst ==
    /\ opc = "publish"
    /\ \E n \in otodo : Publish(n) /\ otodo' = otodo \ {n}
    /\ opc' = IF otodo' # {} THEN "publish" ELSE IF oroots # {} THEN "roots" ELSE "done"
    /\ UNCHANGED <<storeVars, redisVars, faults, oroots>>

\* A statement or a publish fails, and the caller gets an error, or the
\* process dies: the run stays as far as it was.
OrchestratorError ==
    /\ \/ opc \in {"create", "roots"} /\ Fault("db")
       \/ opc = "publish" /\ Fault("broker")
       \/ opc \notin {"done", "aborted"} /\ Fault("crash")
    /\ opc' = "aborted"
    /\ UNCHANGED <<storeVars, redisVars, brokerVars, oroots, otodo>>

\* Filling the running set fails, which is only logged.
InitRunningSetError ==
    /\ opc = "initSet"
    /\ Fault("init")
    /\ opc' = "roots"
    /\ UNCHANGED <<storeVars, redisVars, brokerVars, oroots, otodo>>

OrchestratorStep == CreateRun \/ InitRunningSet \/ StartRoot \/ PublishFirst

OrchestratorFault == OrchestratorError \/ InitRunningSetError
=============================================================================
