------------------------- MODULE WorkflowExecution -------------------------
(***************************************************************************)
(* One run of a workflow: the orchestrator and the workers' handlers,      *)
(* sharing the rows in PostgreSQL, the keys in Redis and the queues in     *)
(* RabbitMQ.                                                               *)
(***************************************************************************)
EXTENDS Orchestrator, Executor

vars == <<storeVars, redisVars, brokerVars, faults, orchestratorVars, handlerVars>>

Init ==
    /\ StoreInit
    /\ RedisInit
    /\ BrokerInit
    /\ FaultInit
    /\ OrchestratorInit
    /\ HandlersInit

OrchestratorNext ==
    /\ OrchestratorStep \/ OrchestratorFault
    /\ UNCHANGED handlerVars

Delivery ==
    /\ \E h \in Handlers, m \in Messages : Deliver(h, m)
    /\ UNCHANGED orchestratorVars

HandlerNext(h) == HandlerStep(h) /\ UNCHANGED orchestratorVars

HandlerFaultNext(h) == HandlerFault(h) /\ UNCHANGED orchestratorVars

KeyExpiry ==
    /\ RunningSetLost \/ ReinitLockExpires
    /\ UNCHANGED orchestratorVars

Next ==
    \/ OrchestratorNext
    \/ Delivery
    \/ \E h \in Handlers : HandlerNext(h) \/ HandlerFaultNext(h)
    \/ KeyExpiry

Spec == Init /\ [][Next]_vars

\* The orchestrator and every handler goroutine keep running, and the broker
\* delivers while a handler is free.  Nothing obliges a fault to happen.
Fairness ==
    /\ WF_vars(OrchestratorStep /\ UNCHANGED handlerVars)
    /\ WF_vars(Delivery)
    /\ \A h \in Handlers : WF_vars(HandlerNext(h))

FairSpec == Spec /\ Fairness

-----------------------------------------------------------------------------
TypeOK ==
    /\ runStatus \in RunStatuses
    /\ nodeStatus \in [Nodes -> NodeStatuses]
    /\ nodeRetry \in [Nodes -> 0..MaxRetryCount]
    /\ runningNodes \subseteq Nodes
    /\ finalizeLock \in BOOLEAN
    /\ queue \in [Messages -> Nat]
    /\ dlq \subseteq Nodes
    /\ faults \in 0..MaxFaults
    /\ opc \in OrchestratorLabels
    /\ oroots \subseteq Nodes
    /\ otodo \subseteq Nodes
    /\ pc \in [Handlers -> Labels]
    /\ task \in [Handlers -> Tasks \cup {NoTask}]
    /\ \A h \in Handlers : pc[h] # "idle" => task[h] \in Tasks
    /\ executed \subseteq Nodes

-----------------------------------------------------------------------------
SucceededNodes == {n \in Nodes : nodeStatus[n] = "success"}

\* The dataflow order: a node's action runs, and its row shows that it ran,
\* only after the actions of all its parents have run to success (triggers
\* have fired before the run).  Nothing but the status check at the top of
\* ExecuteWorkflowNode enforces it, on rows other workers are writing, with
\* tasks that are enqueued early, twice, or again after a crash.
ParentsFirst ==
    \A n \in Nodes :
        n \in executed \/ nodeStatus[n] \in {"running", "failed"}
            => Parents(n) \subseteq executed \cup Triggers

HasMessage(n) == \E k \in 0..MaxRetries : queue[<<n, k>>] > 0

HandlerOn(n, labels) == \E h \in Handlers : pc[h] \in labels /\ NodeOf(h) = n

\* A task for n is on its way: queued, or with a handler that has not yet
\* decided to drop it.
Underway(n) ==
    \/ HasMessage(n)
    \/ HandlerOn(n, {"parents", "skipCheck", "markRunning", "execute", "record",
                     "failRun", "failed"})

\* Somebody is still going to look for pending rows among p's children.
WillEnqueueChildren(p) ==
    \/ Underway(p)
    \/ HandlerOn(p, {"children"})
    \/ p \in oroots

WillBeEnqueued(n) ==
    \/ \E p \in Parents(n) : WillEnqueueChildren(p)
    \/ n \in oroots \cup otodo
    \/ \E h \in Handlers : pc[h] = "publish" /\ n \in task[h].todo

\* The failure is on record: the caller of OrchestrateWorkflow got an error,
\* or the task, or the one that had to enqueue it, is in the dead letter queue.
GivenUp(n) == opc = "aborted" \/ n \in dlq \/ Parents(n) \cap dlq # {}

\* No node is forgotten: a pending node whose parents have all succeeded has
\* a task on its way or somebody about to enqueue one.  ExecuteWorkflowNode
\* throws the task of a blocked node away and counts on the parent that
\* succeeds last to enqueue it again, whatever order the parents' writes,
\* the reads of the children and the deliveries come in.  A handler that is cut
\* short after its write counts on the task that is delivered again, and that
\* one finds its parents' success undone when a join among them runs twice:
\* the claim is for runs in which no handler is cut short, or one is and the
\* children of joins are leaves.
NoLostNode ==
    \A n \in Nodes \ Triggers :
        nodeStatus[n] = "pending" /\ Parents(n) \subseteq SucceededNodes
            => Underway(n) \/ WillBeEnqueued(n) \/ GivenUp(n)

\* The same of a node that failed and has attempts left: the retry that
\* handleFailedMessage scheduled is not thrown away for good.
NoLostRetry ==
    \A n \in Nodes \ Triggers :
        /\ nodeStatus[n] = "failed"
        /\ nodeRetry[n] < MaxRetryCount
        /\ Parents(n) \subseteq SucceededNodes
        => Underway(n) \/ GivenUp(n)

\* The two retry limits fit together: an action that keeps failing uses up
\* the node's retry_count before its message uses up x-retry-count, so no
\* failing action ever sends a task to the dead letter queue.
NoDeadLetter == dlq = {}

\* No two handlers run the action of one node at the same time: the check in
\* shouldSkipNodeTaskExecution and MarkWorkflowNodeAsRunning are separate
\* statements, so this rests on there being one task per node.
OneHandlerPerNode ==
    \A h1, h2 \in Handlers :
        /\ h1 # h2
        /\ pc[h1] \in {"execute", "record"}
        /\ pc[h2] \in {"execute", "record"}
        => NodeOf(h1) # NodeOf(h2)

Quiescent ==
    /\ opc = "done"
    /\ \A h \in Handlers : pc[h] = "idle"
    /\ \A m \in Messages : queue[m] = 0

\* When nothing is left to do the run's verdict is there and it is right:
\* success when every node succeeded and failed otherwise.  The handler that
\* empties the running set reads the rows and writes the verdict in two
\* statements, and a node out of attempts writes one on its own.
OutcomeIsTrue ==
    Quiescent => runStatus = IF SucceededNodes = Nodes THEN "success" ELSE "failed"

\* When nothing is left to do, a node that used up its attempts without
\* succeeding has failed the run (CompleteWorkflowRun in runWorkflowNodeTask).
ExhaustedNodeFailsRun ==
    Quiescent /\ (\E n \in Nodes : nodeRetry[n] = MaxRetryCount /\ nodeStatus[n] # "success")
        => runStatus = "failed"

\* A node that has succeeded is not run again: its row keeps saying success
\* (shouldSkipNodeTaskExecution).
SuccessIsFinal ==
    [][\A n \in Nodes : nodeStatus[n] = "success" => nodeStatus'[n] = "success"]_vars

Contract == INSTANCE RunContract WITH done <- SucceededNodes, verdict <- runStatus

\* The rows users see keep the promise of RunContract at every moment: one
\* verdict, given once, success only over a graph that is completely done.
ImplementsContract == Contract!ContractSpec

\* Every run gets a verdict: no node's task is dropped on a path that leaves
\* the run "running" (shouldFinalizeWorkflowRun, runWorkflowNodeTask).
RunCompletes == <>(runStatus \in {"success", "failed"})
=============================================================================
