---------------------------- MODULE ForestProofs ----------------------------
(***************************************************************************)
(* Workflows without joins: every node has at most one parent.  There a    *)
(* node has at most one task at any moment, and everything else about a    *)
(* run follows from that: no node runs twice at once, success is final, no *)
(* retry is lost, no failing action ends in the dead letter queue, and the *)
(* verdict is the right one.                                               *)
(***************************************************************************)
EXTENDS WorkflowExecutionProofs

USE GraphAssumption, MaxRetriesAssumption, MaxRetryCountAssumption, FaultAssumption

\* No joins.
Forest == \A n \in Nodes : \A p, q \in Parents(n) : p = q

\* Nothing fails but actions and Redis.
OnlyRedisFails == FaultKinds \subseteq {"redis", "init"}

\* The two limits of the code, both 3.
RetriesFit == MaxRetryCount <= MaxRetries

-----------------------------------------------------------------------------
(* The inductive invariant.                                                *)

\* A handler that may still work on its node; one that only has to
\* acknowledge may already have a successor.
Live(h) == pc[h] \notin {"idle", "ack"}

BeforeChildren ==
    {"parents", "skipCheck", "markRunning", "execute", "record", "failRun", "failed", "children"}

AfterRecord ==
    {"children", "publish", "countRemaining", "pendingRows", "reinitLock", "reinitSet",
     "readNodes", "complete"}

Taskless(n) == ~HasMessage(n) /\ \A h \in Handlers : Live(h) => NodeOf(h) # n

\* Somebody has n on a list of nodes to enqueue.
Promised(n) ==
    \/ n \in otodo
    \/ n \in oroots \ Triggers
    \/ \E h \in Handlers : pc[h] = "publish" /\ n \in task[h].todo

Untried(n) == nodeStatus[n] \in {"none", "pending"}

Finished(n) ==
    nodeStatus[n] = "success" \/ (nodeStatus[n] = "failed" /\ nodeRetry[n] = MaxRetryCount)

\* Nothing has happened to n.
Fresh(n) == Untried(n) /\ Taskless(n) /\ ~Promised(n)

\* The children of p have been read, and will not be again.
HasRead(p) ==
    IF p \in Triggers THEN p \notin oroots
    ELSE /\ nodeStatus[p] \in {"success", "failed"}
         /\ ~HasMessage(p)
         /\ ~HandlerOn(p, BeforeChildren)

\* Rows come first, tasks later.
StartFirst ==
    /\ \A n \in Nodes : nodeStatus[n] = "none" <=> opc = "create"
    /\ opc \in {"create", "initSet"} =>
         /\ \A m \in Messages : queue[m] = 0
         /\ \A h \in Handlers : pc[h] = "idle"

\* At most one message or live handler per node, and none for a trigger.
OneTask ==
    /\ \A m \in Messages : queue[m] \in {0, 1}
    /\ \A n \in Nodes : \A j, k \in 0..MaxRetries :
           queue[<<n, j>>] > 0 /\ queue[<<n, k>>] > 0 => j = k
    /\ \A g, h \in Handlers : Live(g) /\ Live(h) /\ NodeOf(g) = NodeOf(h) => g = h
    /\ \A h \in Handlers : Live(h) => ~HasMessage(NodeOf(h)) /\ NodeOf(h) \notin Triggers
    /\ \A n \in Triggers : ~HasMessage(n)

\* A node somebody is about to enqueue has no task yet and is on one list.
Promises ==
    /\ \A n \in Nodes : Promised(n) => n \notin Triggers /\ Untried(n) /\ Taskless(n)
    /\ \A h \in Handlers : pc[h] = "publish" => task[h].todo \subseteq Children(NodeOf(h))
    /\ \A n \in otodo : Parents(n) \subseteq Triggers
    /\ otodo \cap oroots = {}
    /\ oroots \subseteq GetRootNodes

\* Nothing happens to a node before its parent's children are read.
ChildrenFollow == \A n \in Nodes : \A p \in Parents(n) : Fresh(n) \/ HasRead(p)

\* The row a task is about is as the task's step and its x-retry-count say.
RowMatches(h) ==
    LET n == NodeOf(h)
    IN  /\ pc[h] \in {"parents", "skipCheck", "markRunning"} =>
             nodeStatus[n] \in {"pending", "failed"} /\ nodeRetry[n] = task[h].header
        /\ pc[h] = "markRunning" => task[h].retryCount = task[h].header
        /\ pc[h] \in {"execute", "record"} =>
             /\ nodeStatus[n] = "running"
             /\ nodeRetry[n] = task[h].header + 1
             /\ task[h].retryCount = task[h].header + 1
        /\ pc[h] \in {"failRun", "failed"} =>
             nodeStatus[n] = "failed" /\ nodeRetry[n] = task[h].header + 1
        /\ pc[h] = "failRun" => nodeRetry[n] = MaxRetryCount
        /\ pc[h] \in AfterRecord => Finished(n)

RowsMatchTasks ==
    /\ \A n \in Nodes : \A k \in 0..MaxRetries :
           queue[<<n, k>>] > 0 => nodeStatus[n] \in {"pending", "failed"} /\ nodeRetry[n] = k
    /\ \A h \in Handlers : RowMatches(h)

\* What was started, or is cleared to start, has a successful parent.
ParentsDone ==
    \A n \in Nodes :
        ~Untried(n) \/ HandlerOn(n, {"skipCheck", "markRunning"})
            => \A p \in Parents(n) : nodeStatus[p] = "success"

\* A node that failed and may be tried again has its task.
RetryOnItsWay ==
    \A n \in Nodes : nodeStatus[n] = "failed" /\ nodeRetry[n] < MaxRetryCount
                        => Underway(n) \/ n \in dlq

\* Every delivery is its handler's to acknowledge.
AllHeld == \A h \in Handlers : pc[h] # "idle" => task[h].held

Single ==
    /\ StartFirst
    /\ OneTask
    /\ Promises
    /\ ChildrenFollow
    /\ RowsMatchTasks
    /\ ParentsDone
    /\ RetryOnItsWay
    /\ AllHeld

LEMMA SingleInit == Init => Single
<1> SUFFICES ASSUME Init PROVE Single
    OBVIOUS
<1>1. /\ \A m \in Messages : queue[m] = 0
      /\ \A h \in Handlers : pc[h] = "idle"
      /\ \A n \in Nodes : nodeStatus[n] = "none"
      /\ opc = "create" /\ oroots = GetRootNodes /\ otodo = {}
      BY DEF Init, BrokerInit, HandlersInit, StoreInit, OrchestratorInit
<1>a. \A n \in Nodes : ~HasMessage(n)
      <2>1. ASSUME NEW n \in Nodes, NEW k \in 0..MaxRetries PROVE ~(queue[<<n, k>>] > 0)
            <3>1. queue[<<n, k>>] = 0
                  BY <1>1 DEF Messages
            <3>2. QED
                  BY <3>1
      <2>2. QED
            BY <2>1 DEF HasMessage
<1>2. \A n \in Nodes : Untried(n) /\ Taskless(n)
      BY <1>1, <1>a DEF Untried, Taskless, Live
<1>3. StartFirst /\ AllHeld
      BY <1>1 DEF StartFirst, AllHeld
<1>4. OneTask
      BY <1>1, <1>a DEF OneTask, Live, HasMessage
<1>5. Promises
      BY <1>1, <1>2 DEF Promises, Promised, GetRootNodes
<1>6. ChildrenFollow
      BY <1>1, <1>2 DEF ChildrenFollow, Fresh, Promised, GetRootNodes
<1>7. RowsMatchTasks /\ ParentsDone /\ RetryOnItsWay
      BY <1>1 DEF RowsMatchTasks, RowMatches, ParentsDone, RetryOnItsWay, Untried, HandlerOn,
         Messages, AfterRecord
<1>8. QED
      BY <1>3, <1>4, <1>5, <1>6, <1>7 DEF Single

\* A handler's step that publishes nothing and writes to no row but its own
\* node's keeps the invariant if it keeps it for that node.
OwnStep(h) ==
    /\ Live(h) /\ pc[h] # "publish" /\ pc'[h] \notin {"idle", "publish"}
    /\ \A g \in Handlers \ {h} : pc'[g] = pc[g] /\ task'[g] = task[g]
    /\ task'[h].node = task[h].node /\ task'[h].held = task[h].held
    /\ \A n \in Nodes \ {NodeOf(h)} : nodeStatus'[n] = nodeStatus[n] /\ nodeRetry'[n] = nodeRetry[n]
    /\ UNCHANGED <<queue, dlq, opc, oroots, otodo>>

KeepsItsRow(h) ==
    LET n == NodeOf(h)
    IN  /\ nodeStatus'[n] # "none"
        /\ nodeStatus[n] = "success" => nodeStatus'[n] = "success"
        /\ pc[h] \notin BeforeChildren =>
             nodeStatus'[n] = nodeStatus[n] /\ pc'[h] \notin BeforeChildren
        /\ RowMatches(h)'
        /\ ~Untried(n)' \/ pc'[h] \in {"skipCheck", "markRunning"} =>
             \A p \in Parents(n) : nodeStatus[p] = "success"
        /\ nodeStatus'[n] = "failed" /\ nodeRetry'[n] < MaxRetryCount =>
             pc'[h] \in BeforeChildren \ {"children"}

LEMMA SingleOwnStep ==
    ASSUME TypeInv, Single, NEW h \in Handlers, OwnStep(h), KeepsItsRow(h)
    PROVE  Single'
<1> DEFINE q == NodeOf(h)
<1>q. q \in Nodes /\ NodeOf(h)' = q
      BY DEF OwnStep, Live, TypeInv, TypeOK, Tasks, NodeOf
<1>g. \A g \in Handlers : NodeOf(g)' = NodeOf(g)
      BY DEF OwnStep, NodeOf
<1>1. \A n : HasMessage(n)' <=> HasMessage(n)
      BY DEF HasMessage, OwnStep
<1>l. \A g \in Handlers : Live(g)' => Live(g)
      BY DEF OwnStep, Live
<1>2. \A n \in Nodes : Taskless(n) => Taskless(n)'
      BY <1>1, <1>g, <1>l DEF Taskless
<1>3. \A n \in Nodes : Promised(n)' <=> Promised(n)
      BY DEF Promised, OwnStep
<1>4. \A n \in Nodes \ {q} : (Untried(n)' <=> Untried(n)) /\ (Finished(n)' <=> Finished(n))
      BY DEF Untried, Finished, OwnStep
<1>5. ~Taskless(q) /\ ~HasMessage(q) /\ q \notin Triggers
      BY DEF Taskless, OwnStep, Single, OneTask
<1>6. ~Promised(q) /\ ~Fresh(q)
      BY <1>5, <1>q DEF Single, Promises, Fresh
<1>7. \A n \in Nodes \ {q} : \A L : HandlerOn(n, L)' <=> HandlerOn(n, L)
      <2>1. \A g \in Handlers : NodeOf(g) # q => pc'[g] = pc[g]
            BY DEF OwnStep
      <2>2. QED
            BY <1>g, <2>1 DEF HandlerOn
<1>8. \A g \in Handlers \ {h} : Live(g) => NodeOf(g) # q
      BY DEF OwnStep, Single, OneTask
<1>9. \A n \in Nodes : nodeStatus[n] = "success" => nodeStatus'[n] = "success"
      BY DEF OwnStep, KeepsItsRow
<1>10. StartFirst' /\ AllHeld'
      BY <1>q DEF Single, StartFirst, AllHeld, OwnStep, KeepsItsRow, Live
<1>11. OneTask'
      BY <1>1, <1>g, <1>l DEF Single, OneTask, OwnStep
<1>12. Promises'
      <2>1. \A g \in Handlers : pc'[g] = "publish" => pc[g] = "publish" /\ task'[g] = task[g]
            BY DEF OwnStep
      <2>2. QED
            BY <1>2, <1>3, <1>4, <1>6, <1>g, <2>1 DEF Single, Promises, OwnStep
<1>13. ChildrenFollow'
      <2>1. \A n \in Nodes : Fresh(n) => Fresh(n)'
            BY <1>2, <1>3, <1>4, <1>6 DEF Fresh
      <2>2. ASSUME NEW p \in Nodes, HasRead(p) PROVE HasRead(p)'
            <3>1. CASE p # q
                  BY <1>1, <1>7, <2>2, <3>1 DEF HasRead, OwnStep
            <3>2. CASE p = q
                  <4>1. pc[h] \notin BeforeChildren
                        BY <1>5, <2>2, <3>2 DEF HasRead, HandlerOn
                  <4>2. pc'[h] \notin BeforeChildren /\ nodeStatus'[q] = nodeStatus[q]
                        BY <4>1 DEF KeepsItsRow
                  <4>3. ~HandlerOn(q, BeforeChildren)'
                        <5>1. \A g \in Handlers : pc'[g] \in BeforeChildren => Live(g) /\ g # h
                              BY <4>2 DEF OwnStep, Live, BeforeChildren
                        <5>2. QED
                              BY <1>8, <1>g, <5>1 DEF HandlerOn
                  <4>4. QED
                        BY <1>1, <1>5, <1>q, <2>2, <3>2, <4>2, <4>3 DEF HasRead
            <3>3. QED
                  BY <3>1, <3>2
      <2>3. QED
            BY <2>1, <2>2 DEF Single, ChildrenFollow, Parents
<1>14. RowsMatchTasks'
      <2>1. ASSUME NEW n \in Nodes, NEW k \in 0..MaxRetries, queue'[<<n, k>>] > 0
            PROVE  nodeStatus'[n] \in {"pending", "failed"} /\ nodeRetry'[n] = k
            <3>1. n # q
                  BY <1>5, <2>1 DEF HasMessage, OwnStep
            <3>2. QED
                  BY <2>1, <3>1 DEF Single, RowsMatchTasks, OwnStep
      <2>2. ASSUME NEW g \in Handlers \ {h} PROVE RowMatches(g)'
            <3>1. CASE Live(g)
                  <4>1. NodeOf(g) \in Nodes \ {q}
                        BY <1>8, <3>1 DEF NodeOf, TypeInv, TypeOK, Tasks, Live
                  <4>2. QED
                        BY <1>4, <1>g, <4>1 DEF Single, RowsMatchTasks, RowMatches, OwnStep
            <3>2. CASE ~Live(g)
                  BY <3>2 DEF OwnStep, RowMatches, Live, AfterRecord
            <3>3. QED
                  BY <3>1, <3>2
      <2>3. QED
            BY <2>1, <2>2 DEF RowsMatchTasks, KeepsItsRow
<1>15. ParentsDone'
      <2>1. ASSUME NEW n \in Nodes, ~Untried(n)' \/ HandlerOn(n, {"skipCheck", "markRunning"})'
            PROVE  \A p \in Parents(n) : nodeStatus[p] = "success"
            <3>1. CASE n # q
                  BY <1>4, <1>7, <2>1, <3>1 DEF Single, ParentsDone
            <3>2. CASE n = q
                  <4>1. ~Untried(q)' \/ pc'[h] \in {"skipCheck", "markRunning"}
                        BY <1>8, <1>g, <2>1, <3>2 DEF HandlerOn, OwnStep, Live
                  <4>2. QED
                        BY <3>2, <4>1 DEF KeepsItsRow
            <3>3. QED
                  BY <3>1, <3>2
      <2>2. QED
            BY <1>9, <2>1 DEF ParentsDone, Parents
<1>16. RetryOnItsWay'
      <2>1. ASSUME NEW n \in Nodes, nodeStatus'[n] = "failed", nodeRetry'[n] < MaxRetryCount
            PROVE  Underway(n)' \/ n \in dlq'
            <3>1. CASE n # q
                  BY <1>1, <1>7, <2>1, <3>1 DEF Single, RetryOnItsWay, Underway, OwnStep
            <3>2. CASE n = q
                  BY <1>q, <2>1, <3>2 DEF KeepsItsRow, Underway, HandlerOn, BeforeChildren
            <3>3. QED
                  BY <3>1, <3>2
      <2>2. QED
            BY <2>1 DEF RetryOnItsWay
<1>17. QED
      BY <1>10, <1>11, <1>12, <1>13, <1>14, <1>15, <1>16 DEF Single

\* The handler works on its node: from the parents' check to the stored outcome.
LEMMA SingleExecution ==
    ASSUME TypeInv, Remembered, Single, NEW h \in Handlers, UNCHANGED orchestratorVars,
           \/ CheckParents(h) \/ ShouldSkipNodeTaskExecution(h) \/ MarkRunning(h)
           \/ ExecuteAction(h) \/ RecordOutcome(h) \/ FailRun(h)
    PROVE  Single'
<1> DEFINE q == NodeOf(h)
<1>0. task[h] \in Tasks /\ q \in Nodes /\ pc[h] # "idle"
      BY DEF TypeInv, TypeOK, Tasks, NodeOf, At, CheckParents, ShouldSkipNodeTaskExecution,
             MarkRunning, ExecuteAction, RecordOutcome, FailRun
<1>t. /\ pc \in [Handlers -> Labels] /\ task \in [Handlers -> Tasks \cup {NoTask}]
      /\ nodeStatus \in [Nodes -> NodeStatuses] /\ nodeRetry \in [Nodes -> 0..MaxRetryCount]
      BY DEF TypeInv, TypeOK
<1>o. UNCHANGED <<opc, oroots, otodo, queue, dlq>>
      BY DEF orchestratorVars, brokerVars, CheckParents, ShouldSkipNodeTaskExecution,
             MarkRunning, ExecuteAction, RecordOutcome, FailRun
<1>r. RowMatches(h) /\ nodeStatus[q] \in NodeStatuses /\ nodeRetry[q] \in 0..MaxRetryCount
      /\ task[h].header \in 0..MaxRetries
      BY <1>0, <1>t DEF Single, RowsMatchTasks, Tasks
<1>p. ~Untried(q) \/ pc[h] \in {"skipCheck", "markRunning"} =>
          \A p \in Parents(q) : nodeStatus[p] = "success"
      BY <1>0 DEF Single, ParentsDone, HandlerOn
<1>g. \A g \in Handlers \ {h} : pc'[g] = pc[g] /\ task'[g] = task[g]
      BY <1>t DEF Goto, CheckParents, ShouldSkipNodeTaskExecution, MarkRunning, ExecuteAction,
         RecordOutcome, FailRun
<1>1. CASE CheckParents(h)
      <2>1. /\ pc[h] = "parents" /\ pc'[h] \in {"skipCheck", "ack"}
            /\ UNCHANGED <<task, nodeStatus, nodeRetry>>
            BY <1>1, <1>t DEF CheckParents, At, Goto, storeVars
      <2>2. pc'[h] = "skipCheck" <=> \A p \in Parents(q) : nodeStatus[p] = "success"
            BY <1>0, <1>1, <1>t, ParentRows DEF CheckParents, Goto
      <2>3. OwnStep(h)
            BY <1>o, <1>g, <2>1 DEF OwnStep, Live
      <2>4. nodeStatus[q] \in {"pending", "failed"}
            BY <1>r, <2>1 DEF RowMatches
      <2>5. nodeStatus[q] = "failed" => pc'[h] = "skipCheck"
            BY <1>p, <2>2 DEF Untried
      <2>6. RowMatches(h)'
            BY <1>r, <2>1 DEF RowMatches, AfterRecord, NodeOf
      <2>7. KeepsItsRow(h)
            BY <1>p, <2>1, <2>2, <2>4, <2>5, <2>6 DEF KeepsItsRow, BeforeChildren, Untried, NodeOf
      <2>8. QED
            BY <2>3, <2>7, SingleOwnStep
<1>2. CASE ShouldSkipNodeTaskExecution(h)
      <2>1. /\ pc[h] = "skipCheck" /\ pc'[h] \in {"children", "markRunning"}
            /\ UNCHANGED <<nodeStatus, nodeRetry>>
            BY <1>2, <1>t DEF ShouldSkipNodeTaskExecution, At, Goto, storeVars
      <2>2. /\ task'[h].node = task[h].node /\ task'[h].held = task[h].held
            /\ task'[h].header = task[h].header /\ task'[h].retryCount = nodeRetry[q]
            BY <1>0, <1>2, <1>t DEF ShouldSkipNodeTaskExecution, GetWorkflowNodeRun, Tasks
      <2>3. pc'[h] = "children" => nodeStatus[q] = "success" \/ nodeRetry[q] = MaxRetryCount
            BY <1>2, <1>t DEF ShouldSkipNodeTaskExecution, GetWorkflowNodeRun, Goto
      <2>4. nodeStatus[q] \in {"pending", "failed"} /\ nodeRetry[q] = task[h].header
            BY <1>r, <2>1 DEF RowMatches
      <2>5. pc'[h] = "children" => Finished(q)
            BY <1>0, <1>r, <2>3, <2>4 DEF Finished, Remembered, PendingIsUntried
      <2>6. pc'[h] = "children" => nodeRetry[q] = MaxRetryCount
            BY <2>4, <2>5 DEF Finished
      <2>7. RowMatches(h)'
            BY <2>1, <2>2, <2>4, <2>5 DEF RowMatches, AfterRecord, NodeOf, Finished
      <2>8. OwnStep(h)
            BY <1>o, <1>g, <2>1, <2>2 DEF OwnStep, Live
      <2>9. KeepsItsRow(h)
            BY <1>p, <1>r, <2>1, <2>2, <2>4, <2>6, <2>7
            DEF KeepsItsRow, BeforeChildren, Untried, NodeOf
      <2>10. QED
            BY <2>8, <2>9, SingleOwnStep
<1>3. CASE MarkRunning(h)
      <2>1. /\ pc[h] = "markRunning" /\ pc'[h] = "execute"
            /\ nodeStatus' = [nodeStatus EXCEPT ![q] = "running"]
            /\ nodeRetry' = [nodeRetry EXCEPT ![q] = task[h].retryCount + 1]
            BY <1>3, <1>t DEF MarkRunning, MarkWorkflowNodeAsRunning, At, Goto
      <2>2. /\ task'[h].node = task[h].node /\ task'[h].held = task[h].held
            /\ task'[h].header = task[h].header /\ task'[h].retryCount = task[h].retryCount + 1
            BY <1>0, <1>3, <1>t DEF MarkRunning, Tasks
      <2>3. nodeStatus[q] \in {"pending", "failed"} /\ task[h].retryCount = task[h].header
            BY <1>r, <2>1 DEF RowMatches
      <2>4. nodeStatus'[q] = "running" /\ nodeRetry'[q] = task[h].header + 1
            BY <1>0, <1>t, <2>1, <2>3
      <2>5. RowMatches(h)'
            BY <2>1, <2>2, <2>3, <2>4 DEF RowMatches, AfterRecord, NodeOf
      <2>6. OwnStep(h)
            BY <1>o, <1>g, <1>t, <2>1, <2>2 DEF OwnStep, Live
      <2>7. KeepsItsRow(h)
            BY <1>p, <2>1, <2>2, <2>3, <2>4, <2>5 DEF KeepsItsRow, BeforeChildren, Untried, NodeOf
      <2>8. QED
            BY <2>6, <2>7, SingleOwnStep
<1>4. CASE ExecuteAction(h)
      <2>1. /\ pc[h] = "execute" /\ pc'[h] = "record" /\ UNCHANGED <<nodeStatus, nodeRetry>>
            BY <1>4, <1>t DEF ExecuteAction, At, Goto, storeVars
      <2>2. /\ task'[h].node = task[h].node /\ task'[h].held = task[h].held
            /\ task'[h].header = task[h].header /\ task'[h].retryCount = task[h].retryCount
            <3>1. PICK outcome \in {"success", "failed"} : task' = [task EXCEPT ![h].status = outcome]
                  BY <1>4 DEF ExecuteAction
            <3>2. QED
                  BY <1>0, <1>t, <3>1 DEF Tasks
      <2>3. RowMatches(h)' /\ nodeStatus[q] = "running"
            BY <1>r, <2>1, <2>2 DEF RowMatches, AfterRecord, NodeOf
      <2>4. OwnStep(h)
            BY <1>o, <1>g, <2>1, <2>2 DEF OwnStep, Live
      <2>5. KeepsItsRow(h)
            BY <1>p, <2>1, <2>2, <2>3 DEF KeepsItsRow, BeforeChildren, Untried, NodeOf
      <2>6. QED
            BY <2>4, <2>5, SingleOwnStep
<1>5. CASE RecordOutcome(h)
      <2>1. /\ pc[h] = "record" /\ UNCHANGED <<task, nodeRetry>>
            /\ nodeStatus' = [nodeStatus EXCEPT ![q] = task[h].status]
            BY <1>5 DEF RecordOutcome, UpdateWorkflowNodeRunStatus, At
      <2>2. task[h].status \in {"success", "failed"}
            BY <2>1 DEF TypeInv, LocalsReady
      <2>3. /\ nodeStatus[q] = "running" /\ nodeRetry[q] = task[h].header + 1
            /\ task[h].retryCount = task[h].header + 1
            BY <1>r, <2>1 DEF RowMatches
      <2>4. nodeStatus'[q] = task[h].status
            BY <1>0, <1>t, <2>1
      <2>5. \/ task[h].status = "success" /\ pc'[h] = "children"
            \/ /\ task[h].status = "failed" /\ pc'[h] \in {"failRun", "failed"}
               /\ pc'[h] = "failRun" => task[h].retryCount = MaxRetryCount
            BY <1>5, <1>t, <2>2 DEF RecordOutcome, Goto
      <2>6. RowMatches(h)'
            BY <2>1, <2>3, <2>4, <2>5 DEF RowMatches, AfterRecord, NodeOf, Finished
      <2>7. OwnStep(h)
            BY <1>o, <1>g, <1>t, <2>1, <2>5 DEF OwnStep, Live
      <2>8. KeepsItsRow(h)
            <3>1. \A p \in Parents(q) : nodeStatus[p] = "success"
                  BY <1>p, <2>3 DEF Untried
            <3>2. QED
                  BY <2>1, <2>3, <2>4, <2>5, <2>6, <3>1 DEF KeepsItsRow, BeforeChildren, NodeOf
      <2>9. QED
            BY <2>7, <2>8, SingleOwnStep
<1>6. CASE FailRun(h)
      <2>1. /\ pc[h] = "failRun" /\ pc'[h] = "failed"
            /\ UNCHANGED <<task, nodeStatus, nodeRetry>>
            BY <1>6, <1>t DEF FailRun, CompleteWorkflowRun, At, Goto
      <2>2. RowMatches(h)' /\ nodeStatus[q] = "failed"
            BY <1>r, <2>1 DEF RowMatches, AfterRecord, NodeOf
      <2>3. OwnStep(h)
            BY <1>o, <1>g, <2>1 DEF OwnStep, Live
      <2>4. KeepsItsRow(h)
            BY <1>p, <2>1, <2>2 DEF KeepsItsRow, BeforeChildren, Untried, NodeOf
      <2>5. QED
            BY <2>3, <2>4, SingleOwnStep
<1>7. QED
      BY <1>1, <1>2, <1>3, <1>4, <1>5, <1>6

\* The steps after the children are published change nothing of a node: the
\* handler counts, decides and gives the verdict.
LateLabels == AfterRecord \ {"children", "publish"}

LEMMA SingleLate ==
    ASSUME TypeInv, Single, NEW h \in Handlers,
           UNCHANGED <<opc, oroots, otodo, queue, dlq, nodeStatus, nodeRetry>>,
           pc[h] \in LateLabels, NEW label \in LateLabels \cup {"ack"}, Goto(h, label),
           \/ UNCHANGED task
           \/ \E ids : task' = [task EXCEPT ![h].todo = ids]
           \/ \E outcome : task' = [task EXCEPT ![h].status = outcome]
    PROVE  Single'
<1>1. /\ pc \in [Handlers -> Labels] /\ task \in [Handlers -> Tasks \cup {NoTask}]
      /\ task[h] \in Tasks
      BY DEF TypeInv, TypeOK, LateLabels, AfterRecord
<1>2. pc'[h] = label /\ \A g \in Handlers \ {h} : pc'[g] = pc[g] /\ task'[g] = task[g]
      BY <1>1 DEF Goto
<1>3. task'[h].node = task[h].node /\ task'[h].held = task[h].held
      <2>1. ASSUME NEW ids, task' = [task EXCEPT ![h].todo = ids]
            PROVE  task'[h].node = task[h].node /\ task'[h].held = task[h].held
            BY <1>1, <2>1 DEF Tasks
      <2>2. ASSUME NEW outcome, task' = [task EXCEPT ![h].status = outcome]
            PROVE  task'[h].node = task[h].node /\ task'[h].held = task[h].held
            BY <1>1, <2>2 DEF Tasks
      <2>3. QED
            BY <2>1, <2>2
<1>4. Finished(NodeOf(h)) /\ ~Untried(NodeOf(h)) /\ NodeOf(h) \in Nodes
      BY <1>1 DEF Single, RowsMatchTasks, RowMatches, LateLabels, Finished, Untried, Tasks, NodeOf
<1>5. OwnStep(h)
      BY <1>2, <1>3 DEF OwnStep, Live, LateLabels, AfterRecord
<1>6. RowMatches(h)'
      BY <1>2, <1>3, <1>4 DEF RowMatches, NodeOf, LateLabels, AfterRecord, Finished
<1>7. \A p \in Parents(NodeOf(h)) : nodeStatus[p] = "success"
      BY <1>4 DEF Single, ParentsDone
<1>8. KeepsItsRow(h)
      <2>1. pc'[h] \notin BeforeChildren
            BY <1>2 DEF BeforeChildren, LateLabels, AfterRecord
      <2>2. nodeStatus[NodeOf(h)] = "failed" => ~(nodeRetry[NodeOf(h)] < MaxRetryCount)
            BY <1>4 DEF Finished
      <2>3. QED
            BY <1>4, <1>6, <1>7, <2>1, <2>2 DEF KeepsItsRow, Untried
<1>9. QED
      BY <1>5, <1>8, SingleOwnStep

LEMMA SingleFinalize ==
    ASSUME TypeInv, Single, NEW h \in Handlers, UNCHANGED orchestratorVars,
           \/ CountRemaining(h) \/ CountPendingRows(h) \/ AcquireReinitLock(h)
           \/ ReinitializeRunningNodeSet(h) \/ ReadNodeRuns(h) \/ FinalizeRun(h)
           \/ RedisError(h)
    PROVE  Single'
<1> USE DEF orchestratorVars
<1>1. CASE \/ CountRemaining(h) \/ AcquireReinitLock(h) \/ ReinitializeRunningNodeSet(h)
           \/ FinalizeRun(h) \/ RedisError(h)
      <2>1. PICK label \in {"pendingRows", "readNodes", "ack", "reinitSet"} : Goto(h, label)
            BY <1>1 DEF CountRemaining, AcquireReinitLock, ReinitializeRunningNodeSet, FinalizeRun,
               RedisError
      <2>2. UNCHANGED <<nodeStatus, nodeRetry, task, queue, dlq>> /\ pc[h] \in LateLabels
            BY <1>1 DEF CountRemaining, AcquireReinitLock, ReinitializeRunningNodeSet, FinalizeRun,
               RedisError, CompleteWorkflowRun, storeVars, brokerVars, At, LateLabels, AfterRecord
      <2>3. label \in LateLabels \cup {"ack"}
            BY DEF LateLabels, AfterRecord
      <2>4. QED
            BY <2>1, <2>2, <2>3, SingleLate
<1>2. CASE CountPendingRows(h) \/ ReadNodeRuns(h)
      <2>1. PICK label \in {"readNodes", "reinitLock", "complete"} : Goto(h, label)
            BY <1>2 DEF CountPendingRows, ReadNodeRuns
      <2>2. UNCHANGED <<nodeStatus, nodeRetry, queue, dlq>> /\ pc[h] \in LateLabels
            BY <1>2 DEF CountPendingRows, ReadNodeRuns, storeVars, brokerVars, At, LateLabels,
               AfterRecord
      <2>3. label \in LateLabels \cup {"ack"}
            BY DEF LateLabels, AfterRecord
      <2>4. \/ \E ids : task' = [task EXCEPT ![h].todo = ids]
            \/ \E outcome : task' = [task EXCEPT ![h].status = outcome]
            BY <1>2 DEF CountPendingRows, ReadNodeRuns
      <2>5. QED
            BY <2>1, <2>2, <2>3, <2>4, SingleLate
<1>3. QED
      BY <1>1, <1>2

-----------------------------------------------------------------------------
(* Enqueuing.                                                              *)

\* As long as a handler is at its children's read they are untouched, and
\* nobody else will put them on a list.
LEMMA SingleReadChildren ==
    ASSUME Forest, TriggersAreRoots, TypeInv, Single, NEW h \in Handlers,
           UNCHANGED orchestratorVars, ReadChildren(h)
    PROVE  Single'
<1>0. /\ pc[h] = "children" /\ UNCHANGED <<nodeStatus, nodeRetry, queue, dlq, opc, oroots, otodo>>
      BY DEF ReadChildren, At, storeVars, brokerVars, orchestratorVars
<1>t. /\ pc \in [Handlers -> Labels] /\ task \in [Handlers -> Tasks \cup {NoTask}]
      /\ task[h] \in Tasks
      BY <1>0 DEF TypeInv, TypeOK
<1>q. PICK q \in Nodes : q = NodeOf(h)
      BY <1>t DEF Tasks, NodeOf
<1> DEFINE pending == {n \in Children(q) : nodeStatus[n] = "pending"}
<1>1. NodesWith("pending", GetChildWorkflowNodeRuns(NodeOf(h))) = pending
      BY <1>q DEF NodesWith, GetChildWorkflowNodeRuns, GetWorkflowNodeRun
<1>2. /\ task' = [task EXCEPT ![h].todo = pending]
      /\ Goto(h, IF pending = {} THEN "countRemaining" ELSE "publish")
      BY <1>1 DEF ReadChildren
<1> HIDE DEF pending
<1>3. \A g \in Handlers \ {h} : pc'[g] = pc[g] /\ task'[g] = task[g]
      BY <1>t, <1>2 DEF Goto
<1>4. /\ task'[h].node = task[h].node /\ task'[h].held = task[h].held
      /\ task'[h].todo = pending
      BY <1>t, <1>2 DEF Tasks
<1>5. pc'[h] = IF pending = {} THEN "countRemaining" ELSE "publish"
      BY <1>t, <1>2 DEF Goto
<1>6. Finished(q) /\ ~HasMessage(q) /\ q \notin Triggers
      BY <1>0, <1>q DEF Single, RowsMatchTasks, RowMatches, AfterRecord, OneTask, Live
<1>7. \A g \in Handlers \ {h} : Live(g) => NodeOf(g) # q
      BY <1>0, <1>q DEF Single, OneTask, Live
<1>8. CASE pending = {}
      <2>1. OwnStep(h)
            BY <1>0, <1>3, <1>4, <1>5, <1>8 DEF OwnStep, Live
      <2>2. RowMatches(h)'
            BY <1>0, <1>4, <1>5, <1>6, <1>8, <1>q DEF RowMatches, NodeOf, AfterRecord, Finished
      <2>3. \A p \in Parents(q) : nodeStatus[p] = "success"
            BY <1>6 DEF Single, ParentsDone, Untried, Finished
      <2>4. nodeStatus[q] = "failed" => ~(nodeRetry[q] < MaxRetryCount)
            BY <1>6 DEF Finished
      <2>5. nodeStatus[q] \in {"success", "failed"}
            BY <1>6 DEF Finished
      <2>6. KeepsItsRow(h)
            BY <1>0, <1>5, <1>8, <1>q, <2>2, <2>3, <2>4, <2>5 DEF KeepsItsRow, Untried, BeforeChildren
      <2>7. QED
            BY <2>1, <2>6, SingleOwnStep
<1>9. CASE pending # {}
      <2>1. pc'[h] = "publish"
            BY <1>5, <1>9
      <2>2. \A n : HasMessage(n)' <=> HasMessage(n)
            BY <1>0 DEF HasMessage
      <2>3. \A g \in Handlers : NodeOf(g)' = NodeOf(g) /\ (Live(g)' <=> Live(g))
            BY <1>0, <1>3, <1>4, <2>1 DEF NodeOf, Live
      <2>4. \A n \in Nodes : Taskless(n)' <=> Taskless(n)
            BY <2>2, <2>3 DEF Taskless
      <2>5. \A n \in Nodes : (Untried(n)' <=> Untried(n)) /\ (Finished(n)' <=> Finished(n))
            BY <1>0 DEF Untried, Finished
      <2>6. \A n \in Nodes : Promised(n)' <=> Promised(n) \/ n \in pending
            BY <1>0, <1>3, <1>4, <2>1 DEF Promised
      <2>7. ~HasRead(q)
            BY <1>0, <1>6, <1>q DEF HasRead, HandlerOn, BeforeChildren
      <2>8. \A n \in pending : /\ n \in Nodes \ Triggers /\ q \in Parents(n) /\ Fresh(n)
                               /\ Parents(n) = {q}
            <3>1. SUFFICES ASSUME NEW n \in pending
                           PROVE  n \in Nodes \ Triggers /\ q \in Parents(n) /\ Fresh(n) /\ Parents(n) = {q}
                  OBVIOUS
            <3>2. n \in Nodes /\ q \in Parents(n)
                  BY DEF pending, Children, Parents
            <3>3. n \notin Triggers
                  BY <3>2 DEF TriggersAreRoots, GetRootNodes
            <3>4. Fresh(n)
                  BY <2>7, <3>2 DEF Single, ChildrenFollow
            <3>5. Parents(n) = {q}
                  BY <3>2 DEF Forest
            <3>6. QED
                  BY <3>2, <3>3, <3>4, <3>5
      <2>9. \A n \in Nodes : \A L \in SUBSET (BeforeChildren \ {"children"}) :
                HandlerOn(n, L)' <=> HandlerOn(n, L)
            BY <1>0, <1>3, <2>1, <2>3 DEF HandlerOn, BeforeChildren
      <2>10. HasRead(q)'
            <3>1. \A g \in Handlers : pc'[g] \in BeforeChildren => Live(g) /\ g # h
                  BY <1>3, <2>1 DEF Live, BeforeChildren
            <3>2. ~HandlerOn(q, BeforeChildren)'
                  BY <1>7, <2>3, <3>1 DEF HandlerOn
            <3>3. QED
                  BY <1>0, <1>6, <2>2, <3>2 DEF HasRead, Finished
      <2>11. \A p \in Nodes \ {q} : HasRead(p) => HasRead(p)'
            <3>1. \A p \in Nodes \ {q} : HandlerOn(p, BeforeChildren)' => HandlerOn(p, BeforeChildren)
                  BY <1>3, <1>q, <2>3 DEF HandlerOn
            <3>2. QED
                  BY <1>0, <2>2, <3>1 DEF HasRead
      <2>12. StartFirst' /\ AllHeld'
            BY <1>0, <1>3, <1>4, <2>1 DEF Single, StartFirst, AllHeld
      <2>13. OneTask'
            BY <1>0, <2>2, <2>3 DEF Single, OneTask
      <2>14. Promises'
            <3>1. \A n \in Nodes : Promised(n)' => n \notin Triggers /\ Untried(n)' /\ Taskless(n)'
                  BY <2>4, <2>5, <2>6, <2>8 DEF Single, Promises, Fresh
            <3>2. \A g \in Handlers : pc'[g] = "publish" => task'[g].todo \subseteq Children(NodeOf(g)')
                  BY <1>3, <1>4, <1>q, <2>3 DEF Single, Promises, pending
            <3>3. QED
                  BY <1>0, <3>1, <3>2 DEF Single, Promises
      <2>15. ChildrenFollow'
            <3>1. ASSUME NEW n \in Nodes, NEW p \in Parents(n) PROVE Fresh(n)' \/ HasRead(p)'
                  <4>1. CASE n \in pending
                        BY <2>8, <2>10, <4>1
                  <4>2. CASE n \notin pending /\ Fresh(n)
                        BY <2>4, <2>5, <2>6, <4>2 DEF Fresh
                  <4>3. CASE ~Fresh(n)
                        BY <2>7, <2>11, <4>3 DEF Single, ChildrenFollow, Parents
                  <4>4. QED
                        BY <4>1, <4>2, <4>3
            <3>2. QED
                  BY <3>1 DEF ChildrenFollow
      <2>16. RowsMatchTasks'
            <3>1. RowMatches(h)'
                  BY <1>6, <1>q, <2>1, <2>3, <2>5 DEF RowMatches, AfterRecord
            <3>2. \A g \in Handlers \ {h} : RowMatches(g)'
                  BY <1>0, <1>3 DEF Single, RowsMatchTasks, RowMatches, NodeOf, Finished
            <3>3. QED
                  BY <1>0, <3>1, <3>2 DEF Single, RowsMatchTasks
      <2>17. ParentsDone'
            BY <1>0, <2>5, <2>9 DEF Single, ParentsDone, BeforeChildren
      <2>18. RetryOnItsWay'
            BY <1>0, <2>2, <2>9 DEF Single, RetryOnItsWay, Underway, BeforeChildren
      <2>19. QED
            BY <2>12, <2>13, <2>14, <2>15, <2>16, <2>17, <2>18 DEF Single
<1>10. QED
      BY <1>8, <1>9

\* A promise is kept: c leaves the one list it is on and gets its task.
KeepsPromise(c) ==
    /\ Promised(c) /\ Publish(c)
    /\ \A n \in Nodes : Promised(n)' => Promised(n) /\ n # c
    /\ \A g \in Handlers :
         /\ pc'[g] = pc[g] \/ (pc[g] = "publish" /\ pc'[g] = "countRemaining")
         /\ task'[g].node = task[g].node /\ task'[g].held = task[g].held
         /\ task'[g].header = task[g].header /\ task'[g].retryCount = task[g].retryCount
         /\ pc'[g] = "publish" => task'[g].todo \subseteq task[g].todo
    /\ opc \notin {"create", "initSet"} /\ opc' \notin {"create", "initSet"}
    /\ otodo' \subseteq otodo
    /\ UNCHANGED <<nodeStatus, nodeRetry, dlq, oroots>>

LEMMA SinglePublish ==
    ASSUME TypeInv, Remembered, Single, NEW c \in Nodes, KeepsPromise(c)
    PROVE  Single'
<1>t. queue \in [Messages -> Nat] /\ nodeStatus \in [Nodes -> NodeStatuses]
      BY DEF TypeInv, TypeOK
<1>1. c \notin Triggers /\ Untried(c) /\ Taskless(c)
      BY DEF KeepsPromise, Single, Promises
<1>2. nodeStatus[c] = "pending" /\ nodeRetry[c] = 0
      BY <1>1 DEF Untried, KeepsPromise, Single, StartFirst, Remembered, PendingIsUntried
<1>3. <<c, 0>> \in Messages /\ queue' = [queue EXCEPT ![<<c, 0>>] = @ + 1]
      BY DEF KeepsPromise, Publish, Messages
<1>4. \A k \in 0..MaxRetries : ~(queue[<<c, k>>] > 0)
      BY <1>1 DEF Taskless, HasMessage
<1>5. queue[<<c, 0>>] = 0
      BY <1>3, <1>4, <1>t
<1>6. \A m \in Messages : queue'[m] = IF m = <<c, 0>> THEN 1 ELSE queue[m]
      BY <1>3, <1>5, <1>t
<1>7. \A n \in Nodes, k \in 0..MaxRetries :
          queue'[<<n, k>>] > 0 <=> (n = c /\ k = 0) \/ queue[<<n, k>>] > 0
      BY <1>6 DEF Messages
<1>8. \A n \in Nodes : HasMessage(n)' <=> n = c \/ HasMessage(n)
      BY <1>7 DEF HasMessage
<1>9. \A g \in Handlers : NodeOf(g)' = NodeOf(g) /\ (Live(g)' <=> Live(g))
      BY DEF KeepsPromise, NodeOf, Live
<1>10. \A n \in Nodes \ {c} : Taskless(n)' <=> Taskless(n)
      BY <1>8, <1>9 DEF Taskless
<1>11. \A n \in Nodes : (Untried(n)' <=> Untried(n)) /\ (Finished(n)' <=> Finished(n))
      BY DEF KeepsPromise, Untried, Finished
<1>12. \A n \in Nodes : \A L \in SUBSET BeforeChildren : HandlerOn(n, L)' <=> HandlerOn(n, L)
      BY <1>9 DEF HandlerOn, BeforeChildren, KeepsPromise
<1>13. StartFirst' /\ AllHeld'
      BY DEF Single, StartFirst, AllHeld, KeepsPromise
<1>14. OneTask'
      <2>1. \A m \in Messages : queue'[m] \in {0, 1}
            BY <1>6 DEF Single, OneTask
      <2>2. \A n \in Nodes : \A j, k \in 0..MaxRetries :
                queue'[<<n, j>>] > 0 /\ queue'[<<n, k>>] > 0 => j = k
            BY <1>4, <1>7 DEF Single, OneTask
      <2>3. \A g \in Handlers : Live(g)' => ~HasMessage(NodeOf(g))' /\ NodeOf(g) \notin Triggers
            <3>1. ASSUME NEW g \in Handlers, Live(g) PROVE NodeOf(g) \in Nodes \ {c}
                  BY <1>1, <3>1 DEF Taskless, NodeOf, Live, TypeInv, TypeOK, Tasks
            <3>2. QED
                  BY <1>8, <1>9, <3>1 DEF Single, OneTask
      <2>4. \A n \in Triggers : ~HasMessage(n)'
            BY <1>1, <1>8 DEF Single, OneTask
      <2>5. QED
            BY <1>9, <2>1, <2>2, <2>3, <2>4 DEF Single, OneTask
<1>15. Promises'
      <2>1. \A n \in Nodes : Promised(n)' => n \notin Triggers /\ Untried(n)' /\ Taskless(n)'
            BY <1>10, <1>11 DEF Single, Promises, KeepsPromise
      <2>2. \A g \in Handlers : pc'[g] = "publish" => task'[g].todo \subseteq Children(NodeOf(g)')
            BY <1>9 DEF Single, Promises, KeepsPromise
      <2>3. QED
            BY <2>1, <2>2 DEF Single, Promises, KeepsPromise
<1>16. ChildrenFollow'
      <2>1. ~Fresh(c)
            BY DEF Fresh, KeepsPromise
      <2>2. \A n \in Nodes \ {c} : Fresh(n) => Fresh(n)'
            BY <1>10, <1>11 DEF Fresh, KeepsPromise
      <2>3. ASSUME NEW p \in Nodes, HasRead(p) PROVE HasRead(p)'
            <3>1. CASE p = c
                  BY <1>1, <1>2, <2>3, <3>1 DEF HasRead
            <3>2. CASE p # c
                  BY <1>8, <1>12, <2>3, <3>2 DEF HasRead, KeepsPromise
            <3>3. QED
                  BY <3>1, <3>2
      <2>4. QED
            BY <2>1, <2>2, <2>3 DEF Single, ChildrenFollow, Parents
<1>17. RowsMatchTasks'
      <2>1. \A n \in Nodes : \A k \in 0..MaxRetries :
                queue'[<<n, k>>] > 0 => nodeStatus'[n] \in {"pending", "failed"} /\ nodeRetry'[n] = k
            BY <1>2, <1>7 DEF Single, RowsMatchTasks, KeepsPromise
      <2>2. ASSUME NEW g \in Handlers PROVE RowMatches(g)'
            <3>1. pc'[g] = pc[g] \/ (pc[g] \in AfterRecord /\ pc'[g] = "countRemaining")
                  BY DEF KeepsPromise, AfterRecord
            <3>2. QED
                  BY <1>9, <3>1 DEF Single, RowsMatchTasks, RowMatches, KeepsPromise, Finished, AfterRecord
      <2>3. QED
            BY <2>1, <2>2 DEF RowsMatchTasks
<1>18. ParentsDone'
      BY <1>11, <1>12 DEF Single, ParentsDone, BeforeChildren, KeepsPromise
<1>19. RetryOnItsWay'
      BY <1>8, <1>12 DEF Single, RetryOnItsWay, Underway, BeforeChildren, KeepsPromise
<1>20. QED
      BY <1>13, <1>14, <1>15, <1>16, <1>17, <1>18, <1>19 DEF Single

LEMMA SinglePublishChild ==
    ASSUME Forest, TypeInv, Remembered, Single, NEW h \in Handlers,
           UNCHANGED orchestratorVars, PublishChild(h)
    PROVE  Single'
<1>0. pc[h] = "publish" /\ UNCHANGED <<nodeStatus, nodeRetry, opc, oroots, otodo>>
      BY DEF PublishChild, At, storeVars, orchestratorVars
<1>t. /\ pc \in [Handlers -> Labels] /\ task \in [Handlers -> Tasks \cup {NoTask}]
      /\ task[h] \in Tasks
      BY <1>0 DEF TypeInv, TypeOK
<1>1. PICK c \in task[h].todo :
           /\ Publish(c)
           /\ task' = [task EXCEPT ![h].todo = @ \ {c}]
           /\ Goto(h, IF task[h].todo = {c} THEN "countRemaining" ELSE "publish")
      BY DEF PublishChild
<1>2. \A g \in Handlers \ {h} : pc'[g] = pc[g] /\ task'[g] = task[g]
      BY <1>t, <1>1 DEF Goto
<1>3. /\ task'[h].node = task[h].node /\ task'[h].held = task[h].held
      /\ task'[h].header = task[h].header /\ task'[h].retryCount = task[h].retryCount
      /\ task'[h].todo = task[h].todo \ {c}
      BY <1>t, <1>1 DEF Tasks
<1>4. pc'[h] \in {"publish", "countRemaining"}
      BY <1>t, <1>1 DEF Goto
<1>5. c \in Nodes /\ NodeOf(h) \in Parents(c) /\ NodeOf(h) \notin Triggers
      BY <1>0 DEF Single, Promises, OneTask, Live, Children, Parents, NodeOf, TypeInv, TypeOK, Tasks
<1>6. c \notin otodo /\ c \notin oroots
      BY <1>5 DEF Single, Promises, GetRootNodes
<1>7. \A g \in Handlers \ {h} : pc[g] = "publish" => c \notin task[g].todo
      <2>1. SUFFICES ASSUME NEW g \in Handlers \ {h}, pc[g] = "publish", c \in task[g].todo PROVE FALSE
            OBVIOUS
      <2>2. NodeOf(g) \in Parents(c)
            BY <1>5, <2>1 DEF Single, Promises, Children, Parents, NodeOf, TypeInv, TypeOK, Tasks
      <2>3. NodeOf(g) = NodeOf(h)
            BY <1>5, <2>2 DEF Forest
      <2>4. QED
            BY <1>0, <2>1, <2>3 DEF Single, OneTask, Live
<1>8. \A n \in Nodes : Promised(n)' => Promised(n) /\ n # c
      BY <1>0, <1>2, <1>3, <1>6, <1>7 DEF Promised
<1>9. Promised(c)
      BY <1>0 DEF Promised
<1>10. opc \notin {"create", "initSet"}
      BY <1>0 DEF Single, StartFirst
<1>11. UNCHANGED dlq
      BY <1>1 DEF Publish
<1>12. KeepsPromise(c)
      BY <1>0, <1>1, <1>2, <1>3, <1>4, <1>8, <1>9, <1>10, <1>11 DEF KeepsPromise
<1>13. QED
      BY <1>5, <1>12, SinglePublish

-----------------------------------------------------------------------------
(* Deliveries and their ends.                                              *)

LEMMA SingleDelivery == TypeInv /\ Single /\ Delivery => Single'
<1> SUFFICES ASSUME TypeInv, Single, Delivery PROVE Single'
    OBVIOUS
<1>t. /\ queue \in [Messages -> Nat] /\ pc \in [Handlers -> Labels]
      /\ task \in [Handlers -> Tasks \cup {NoTask}]
      BY DEF TypeInv, TypeOK
<1>1. PICK h \in Handlers, m \in Messages : Deliver(h, m)
      BY DEF Delivery
<1>2. PICK c \in Nodes, i \in 0..MaxRetries : m = <<c, i>>
      BY DEF Messages
<1>3. UNCHANGED <<nodeStatus, nodeRetry, dlq, opc, oroots, otodo>>
      BY <1>1 DEF Delivery, Deliver, Dequeue, storeVars, orchestratorVars
<1>4. /\ pc[h] = "idle" /\ pc'[h] = "parents"
      /\ task'[h].node = c /\ task'[h].header = i /\ task'[h].held
      BY <1>1, <1>2, <1>t DEF Deliver, At, Goto
<1>5. \A g \in Handlers \ {h} : pc'[g] = pc[g] /\ task'[g] = task[g]
      BY <1>1, <1>t DEF Deliver, Goto
<1>6. queue[<<c, i>>] > 0 /\ queue[<<c, i>>] = 1 /\ queue' = [queue EXCEPT ![<<c, i>>] = @ - 1]
      <2>1. queue[m] > 0 /\ queue' = [queue EXCEPT ![m] = @ - 1]
            BY <1>1 DEF Deliver, Dequeue
      <2>2. queue[m] \in {0, 1}
            BY DEF Single, OneTask
      <2>3. QED
            BY <1>2, <2>1, <2>2
<1>7. \A l \in Messages : queue'[l] = IF l = <<c, i>> THEN 0 ELSE queue[l]
      BY <1>2, <1>6, <1>t
<1>8. \A n \in Nodes, k \in 0..MaxRetries :
          queue'[<<n, k>>] > 0 <=> queue[<<n, k>>] > 0 /\ ~(n = c /\ k = i)
      BY <1>7 DEF Messages
<1>9. HasMessage(c) /\ c \notin Triggers
      BY <1>6 DEF HasMessage, Single, OneTask
<1>10. \A k \in 0..MaxRetries : queue[<<c, k>>] > 0 => k = i
      BY <1>6 DEF Single, OneTask
<1>11. \A n \in Nodes : HasMessage(n)' <=> HasMessage(n) /\ n # c
      BY <1>8, <1>10 DEF HasMessage
<1>12. \A g \in Handlers : Live(g) => NodeOf(g) # c
      BY <1>9 DEF Single, OneTask
<1>13. \A g \in Handlers \ {h} : NodeOf(g)' = NodeOf(g) /\ (Live(g)' <=> Live(g))
      BY <1>5 DEF NodeOf, Live
<1>14. NodeOf(h)' = c /\ Live(h)' /\ ~Live(h)
      BY <1>4 DEF NodeOf, Live
<1>15. \A n \in Nodes : Taskless(n) => Taskless(n)'
      BY <1>9, <1>11, <1>13, <1>14 DEF Taskless
<1>16. \A n \in Nodes : Promised(n)' <=> Promised(n)
      BY <1>3, <1>4, <1>5 DEF Promised
<1>17. \A n \in Nodes : (Untried(n)' <=> Untried(n)) /\ (Finished(n)' <=> Finished(n))
      BY <1>3 DEF Untried, Finished
<1>18. \A n \in Nodes \ {c} : \A L \in SUBSET BeforeChildren : HandlerOn(n, L)' <=> HandlerOn(n, L)
      BY <1>4, <1>5, <1>13, <1>14 DEF HandlerOn, BeforeChildren
<1>19. HandlerOn(c, {"parents"})' /\ ~HandlerOn(c, {"skipCheck", "markRunning"})'
      BY <1>4, <1>5, <1>12, <1>13, <1>14 DEF HandlerOn, Live
<1>20. nodeStatus[c] \in {"pending", "failed"} /\ nodeRetry[c] = i
      BY <1>6 DEF Single, RowsMatchTasks
<1>21. StartFirst' /\ AllHeld'
      <2>1. opc \notin {"create", "initSet"}
            BY <1>2, <1>6 DEF Single, StartFirst
      <2>2. QED
            BY <1>3, <1>4, <1>5, <2>1 DEF Single, StartFirst, AllHeld
<1>22. OneTask'
      <2>1. \A l \in Messages : queue'[l] \in {0, 1}
            BY <1>7 DEF Single, OneTask
      <2>2. \A n \in Nodes : \A j, k \in 0..MaxRetries :
                queue'[<<n, j>>] > 0 /\ queue'[<<n, k>>] > 0 => j = k
            BY <1>8 DEF Single, OneTask
      <2>3. \A f, g \in Handlers : Live(f)' /\ Live(g)' /\ NodeOf(f)' = NodeOf(g)' => f = g
            BY <1>12, <1>13, <1>14 DEF Single, OneTask
      <2>4. ASSUME NEW g \in Handlers, Live(g)'
            PROVE  ~HasMessage(NodeOf(g))' /\ NodeOf(g)' \notin Triggers
            <3>1. CASE g = h
                  BY <1>9, <1>11, <1>14, <3>1
            <3>2. CASE g # h
                  <4>1. NodeOf(g) \in Nodes /\ Live(g)
                        BY <1>13, <2>4, <3>2 DEF NodeOf, Live, TypeInv, TypeOK, Tasks
                  <4>2. QED
                        BY <1>11, <1>13, <3>2, <4>1 DEF Single, OneTask
            <3>3. QED
                  BY <3>1, <3>2
      <2>5. \A n \in Triggers : ~HasMessage(n)'
            BY <1>11 DEF Single, OneTask
      <2>6. QED
            BY <2>1, <2>2, <2>3, <2>4, <2>5 DEF OneTask
<1>23. Promises'
      <2>1. \A g \in Handlers : pc'[g] = "publish" => pc[g] = "publish" /\ task'[g] = task[g]
            BY <1>4, <1>5
      <2>2. \A g \in Handlers : pc'[g] = "publish" => task'[g].todo \subseteq Children(NodeOf(g)')
            BY <2>1 DEF Single, Promises, NodeOf
      <2>3. QED
            BY <1>3, <1>15, <1>16, <1>17, <2>2 DEF Single, Promises
<1>24. ChildrenFollow'
      <2>1. \A n \in Nodes : Fresh(n) => Fresh(n)'
            BY <1>15, <1>16, <1>17 DEF Fresh
      <2>2. ~HasRead(c)
            BY <1>9 DEF HasRead
      <2>3. \A p \in Nodes \ {c} : HasRead(p) => HasRead(p)'
            BY <1>3, <1>11, <1>18 DEF HasRead
      <2>4. QED
            BY <2>1, <2>2, <2>3 DEF Single, ChildrenFollow, Parents
<1>25. RowsMatchTasks'
      <2>1. RowMatches(h)'
            BY <1>3, <1>4, <1>14, <1>20 DEF RowMatches, AfterRecord
      <2>2. \A g \in Handlers \ {h} : RowMatches(g)'
            BY <1>3, <1>5, <1>13 DEF Single, RowsMatchTasks, RowMatches, Finished
      <2>3. QED
            BY <1>3, <1>8, <2>1, <2>2 DEF Single, RowsMatchTasks
<1>26. ParentsDone'
      <2>1. ASSUME NEW n \in Nodes, HandlerOn(n, {"skipCheck", "markRunning"})'
            PROVE  HandlerOn(n, {"skipCheck", "markRunning"})
            BY <1>18, <1>19, <2>1 DEF BeforeChildren
      <2>2. QED
            BY <1>3, <1>17, <2>1 DEF Single, ParentsDone
<1>27. RetryOnItsWay'
      <2>1. \A n \in Nodes : Underway(n) => Underway(n)'
            <3>1. Underway(c)'
                  BY <1>19 DEF Underway, HandlerOn
            <3>2. \A n \in Nodes \ {c} : Underway(n) => Underway(n)'
                  BY <1>11, <1>18 DEF Underway, BeforeChildren
            <3>3. QED
                  BY <3>1, <3>2
      <2>2. QED
            BY <1>3, <2>1 DEF Single, RetryOnItsWay
<1>28. QED
      BY <1>21, <1>22, <1>23, <1>24, <1>25, <1>26, <1>27 DEF Single

\* The handler is done with its delivery: acknowledged, or dead-lettered.
LEMMA SingleRelease ==
    ASSUME TypeInv, Single, NEW h \in Handlers, Release(h),
           UNCHANGED <<nodeStatus, nodeRetry, queue, opc, oroots, otodo>>,
           \/ pc[h] = "ack" /\ UNCHANGED dlq
           \/ pc[h] = "failed" /\ dlq' = dlq \cup {NodeOf(h)}
    PROVE  Single'
<1>t. /\ pc \in [Handlers -> Labels] /\ task \in [Handlers -> Tasks \cup {NoTask}]
      BY DEF TypeInv, TypeOK
<1>1. pc'[h] = "idle" /\ \A g \in Handlers \ {h} : pc'[g] = pc[g] /\ task'[g] = task[g]
      BY <1>t DEF Release, Goto
<1>2. \A n : HasMessage(n)' <=> HasMessage(n)
      BY DEF HasMessage
<1>3. \A g \in Handlers \ {h} : NodeOf(g)' = NodeOf(g) /\ (Live(g)' <=> Live(g))
      BY <1>1 DEF NodeOf, Live
<1>4. ~Live(h)'
      BY <1>1 DEF Live
<1>5. \A n \in Nodes : Taskless(n) => Taskless(n)'
      BY <1>2, <1>3, <1>4 DEF Taskless
<1>6. \A n \in Nodes : Promised(n)' <=> Promised(n)
      BY <1>1 DEF Promised
<1>7. \A n \in Nodes : (Untried(n)' <=> Untried(n)) /\ (Finished(n)' <=> Finished(n))
      BY DEF Untried, Finished
<1>8. \A n : \A L \in SUBSET BeforeChildren : HandlerOn(n, L)' => HandlerOn(n, L)
      BY <1>1, <1>3 DEF HandlerOn, BeforeChildren
<1>9. StartFirst' /\ AllHeld'
      BY <1>1 DEF Single, StartFirst, AllHeld
<1>10. OneTask'
      BY <1>2, <1>3, <1>4 DEF Single, OneTask
<1>11. Promises'
      <2>1. \A g \in Handlers : pc'[g] = "publish" => pc[g] = "publish" /\ task'[g] = task[g]
            BY <1>1
      <2>2. \A g \in Handlers : pc'[g] = "publish" => task'[g].todo \subseteq Children(NodeOf(g)')
            BY <2>1 DEF Single, Promises, NodeOf
      <2>3. QED
            BY <1>5, <1>6, <1>7, <2>2 DEF Single, Promises
<1>12. ChildrenFollow'
      <2>1. \A n \in Nodes : Fresh(n) => Fresh(n)'
            BY <1>5, <1>6, <1>7 DEF Fresh
      <2>2. \A p \in Nodes : HasRead(p) => HasRead(p)'
            BY <1>2, <1>8 DEF HasRead
      <2>3. QED
            BY <2>1, <2>2 DEF Single, ChildrenFollow, Parents
<1>13. RowsMatchTasks'
      <2>1. RowMatches(h)'
            BY <1>1 DEF RowMatches, AfterRecord
      <2>2. \A g \in Handlers \ {h} : RowMatches(g)'
            BY <1>1, <1>3 DEF Single, RowsMatchTasks, RowMatches, Finished
      <2>3. QED
            BY <2>1, <2>2 DEF Single, RowsMatchTasks
<1>14. ParentsDone'
      BY <1>7, <1>8 DEF Single, ParentsDone, BeforeChildren
<1>15. RetryOnItsWay'
      <2>1. ASSUME NEW n \in Nodes, Underway(n), n \notin dlq' PROVE Underway(n)'
            <3>1. \A g \in Handlers \ {h} : pc'[g] = pc[g] /\ NodeOf(g)' = NodeOf(g)
                  BY <1>1, <1>3
            <3>2. pc[h] = "ack" \/ NodeOf(h) # n
                  BY <2>1
            <3>3. QED
                  BY <1>2, <2>1, <3>1, <3>2 DEF Underway, HandlerOn
      <2>2. QED
            BY <2>1 DEF Single, RetryOnItsWay
<1>16. QED
      BY <1>9, <1>10, <1>11, <1>12, <1>13, <1>14, <1>15 DEF Single

\* A failed attempt hands its task over to the retry copy.
LEMMA SingleRetry ==
    ASSUME TypeInv, Single, NEW h \in Handlers, UNCHANGED orchestratorVars, ScheduleRetry(h)
    PROVE  Single'
<1>t. /\ queue \in [Messages -> Nat] /\ pc \in [Handlers -> Labels]
      BY DEF TypeInv, TypeOK
<1>0. pc[h] = "failed" /\ UNCHANGED <<nodeStatus, nodeRetry, task, dlq, opc, oroots, otodo>>
      BY DEF ScheduleRetry, PublishRetry, At, storeVars, orchestratorVars
<1>1. PICK c \in Nodes, i \in 0..MaxRetries : c = NodeOf(h) /\ i = task[h].header
      BY <1>0 DEF NodeOf, TypeInv, TypeOK, Tasks
<1>2. i < MaxRetries /\ queue' = [queue EXCEPT ![<<c, i + 1>>] = @ + 1]
      BY <1>1 DEF ScheduleRetry, PublishRetry
<1>3. <<c, i + 1>> \in Messages /\ i + 1 \in 0..MaxRetries
      BY <1>2 DEF Messages
<1>4. pc'[h] = "ack" /\ \A g \in Handlers \ {h} : pc'[g] = pc[g]
      BY <1>t DEF ScheduleRetry, Goto
<1>5. ~HasMessage(c) /\ c \notin Triggers
      BY <1>0, <1>1 DEF Single, OneTask, Live
<1>6. \A k \in 0..MaxRetries : ~(queue[<<c, k>>] > 0)
      BY <1>5 DEF HasMessage
<1>7. queue[<<c, i + 1>>] = 0
      BY <1>3, <1>6, <1>t
<1>8. \A m \in Messages : queue'[m] = IF m = <<c, i + 1>> THEN 1 ELSE queue[m]
      BY <1>2, <1>3, <1>7, <1>t
<1>9. \A n \in Nodes, k \in 0..MaxRetries :
          queue'[<<n, k>>] > 0 <=> (n = c /\ k = i + 1) \/ queue[<<n, k>>] > 0
      <2>1. SUFFICES ASSUME NEW n \in Nodes, NEW k \in 0..MaxRetries
                     PROVE  queue'[<<n, k>>] > 0 <=> (n = c /\ k = i + 1) \/ queue[<<n, k>>] > 0
            OBVIOUS
      <2>2. <<n, k>> \in Messages /\ (<<n, k>> = <<c, i + 1>> <=> n = c /\ k = i + 1)
            BY DEF Messages
      <2>3. QED
            BY <1>8, <2>2
<1>10. \A n \in Nodes : HasMessage(n)' <=> n = c \/ HasMessage(n)
      BY <1>3, <1>9 DEF HasMessage
<1>11. \A g \in Handlers : NodeOf(g)' = NodeOf(g) /\ (Live(g)' <=> Live(g) /\ g # h)
      BY <1>0, <1>4 DEF NodeOf, Live
<1>12. \A g \in Handlers \ {h} : Live(g) => NodeOf(g) # c
      BY <1>0, <1>1 DEF Single, OneTask, Live
<1>13. nodeStatus[c] = "failed" /\ nodeRetry[c] = i + 1
      BY <1>0, <1>1 DEF Single, RowsMatchTasks, RowMatches
<1>14. \A n \in Nodes \ {c} : Taskless(n) => Taskless(n)'
      BY <1>10, <1>11 DEF Taskless
<1>15. \A n \in Nodes : (Untried(n)' <=> Untried(n)) /\ (Finished(n)' <=> Finished(n))
      BY <1>0 DEF Untried, Finished
<1>16. ~Untried(c) /\ ~Fresh(c) /\ ~Promised(c)
      BY <1>13 DEF Untried, Fresh, Single, Promises
<1>17. \A n \in Nodes : Promised(n)' <=> Promised(n)
      BY <1>0, <1>4 DEF Promised
<1>18. \A n \in Nodes : \A L \in SUBSET BeforeChildren : HandlerOn(n, L)' => HandlerOn(n, L)
      BY <1>4, <1>11 DEF HandlerOn, BeforeChildren
<1>19. StartFirst' /\ AllHeld'
      BY <1>0, <1>4 DEF Single, StartFirst, AllHeld
<1>20. OneTask'
      <2>1. \A m \in Messages : queue'[m] \in {0, 1}
            BY <1>8 DEF Single, OneTask
      <2>2. \A n \in Nodes : \A j, k \in 0..MaxRetries :
                queue'[<<n, j>>] > 0 /\ queue'[<<n, k>>] > 0 => j = k
            BY <1>6, <1>9 DEF Single, OneTask
      <2>3. \A g \in Handlers : Live(g)' => ~HasMessage(NodeOf(g))' /\ NodeOf(g) \notin Triggers
            <3>1. ASSUME NEW g \in Handlers, Live(g), g # h PROVE NodeOf(g) \in Nodes \ {c}
                  BY <1>12, <3>1 DEF NodeOf, Live, TypeInv, TypeOK, Tasks
            <3>2. QED
                  BY <1>10, <1>11, <3>1 DEF Single, OneTask
      <2>4. \A n \in Triggers : ~HasMessage(n)'
            BY <1>5, <1>10 DEF Single, OneTask
      <2>5. QED
            BY <1>11, <2>1, <2>2, <2>3, <2>4 DEF Single, OneTask
<1>21. Promises'
      <2>1. \A n \in Nodes : Promised(n)' => n \notin Triggers /\ Untried(n)' /\ Taskless(n)'
            BY <1>14, <1>15, <1>16, <1>17 DEF Single, Promises
      <2>2. \A g \in Handlers : pc'[g] = "publish" => task'[g].todo \subseteq Children(NodeOf(g)')
            BY <1>0, <1>4, <1>11 DEF Single, Promises
      <2>3. QED
            BY <1>0, <2>1, <2>2 DEF Single, Promises
<1>22. ChildrenFollow'
      <2>1. \A n \in Nodes : Fresh(n) => Fresh(n)'
            BY <1>14, <1>15, <1>16, <1>17 DEF Fresh
      <2>2. ~HasRead(c)
            BY <1>0, <1>1, <1>5 DEF HasRead, HandlerOn, BeforeChildren
      <2>3. \A p \in Nodes \ {c} : HasRead(p) => HasRead(p)'
            BY <1>0, <1>10, <1>18 DEF HasRead
      <2>4. QED
            BY <2>1, <2>2, <2>3 DEF Single, ChildrenFollow, Parents
<1>23. RowsMatchTasks'
      <2>1. \A n \in Nodes : \A k \in 0..MaxRetries :
                queue'[<<n, k>>] > 0 => nodeStatus'[n] \in {"pending", "failed"} /\ nodeRetry'[n] = k
            BY <1>0, <1>9, <1>13 DEF Single, RowsMatchTasks
      <2>2. RowMatches(h)'
            BY <1>4 DEF RowMatches, AfterRecord
      <2>3. \A g \in Handlers \ {h} : RowMatches(g)'
            BY <1>0, <1>4, <1>11 DEF Single, RowsMatchTasks, RowMatches, Finished
      <2>4. QED
            BY <2>1, <2>2, <2>3 DEF RowsMatchTasks
<1>24. ParentsDone'
      BY <1>0, <1>15, <1>18 DEF Single, ParentsDone, BeforeChildren
<1>25. RetryOnItsWay'
      <2>1. \A n \in Nodes : Underway(n) => Underway(n)'
            <3>1. Underway(c)'
                  BY <1>10 DEF Underway
            <3>2. ASSUME NEW n \in Nodes \ {c}, Underway(n) PROVE Underway(n)'
                  BY <1>1, <1>4, <1>10, <1>11, <3>2 DEF Underway, HandlerOn
            <3>3. QED
                  BY <3>1, <3>2
      <2>2. QED
            BY <1>0, <2>1 DEF Single, RetryOnItsWay
<1>26. QED
      BY <1>19, <1>20, <1>21, <1>22, <1>23, <1>24, <1>25 DEF Single

LEMMA SingleSettle ==
    ASSUME TypeInv, Single, NEW h \in Handlers, UNCHANGED orchestratorVars,
           Acknowledge(h) \/ ScheduleRetry(h) \/ GiveUp(h)
    PROVE  Single'
<1>1. CASE Acknowledge(h)
      BY <1>1, SingleRelease DEF Acknowledge, At, storeVars, brokerVars, orchestratorVars
<1>2. CASE GiveUp(h)
      <2>1. task[h].held /\ pc[h] = "failed"
            BY <1>2 DEF GiveUp, At, Single, AllHeld
      <2>2. dlq' = dlq \cup {NodeOf(h)} /\ Release(h)
            /\ UNCHANGED <<nodeStatus, nodeRetry, queue, opc, oroots, otodo>>
            BY <1>2, <2>1 DEF GiveUp, DeadLetter, storeVars, orchestratorVars
      <2>3. QED
            BY <2>1, <2>2, SingleRelease
<1>3. QED
      BY <1>1, <1>2, SingleRetry

-----------------------------------------------------------------------------
(* The orchestrator.                                                       *)

LEMMA SingleCreate ==
    ASSUME TriggersAreRoots, TypeInv, Remembered, Single, CreateRun, UNCHANGED handlerVars
    PROVE  Single'
<1>0. /\ opc = "create" /\ opc' = "initSet"
      /\ UNCHANGED <<pc, task, queue, dlq, oroots, otodo>>
      BY DEF CreateRun, brokerVars, handlerVars
<1>1. /\ \A n \in Nodes : nodeStatus'[n] = IF n \in Triggers THEN "success" ELSE "pending"
      BY DEF CreateRun, CreateWorkflowRun
<1>2. /\ \A m \in Messages : queue[m] = 0
      /\ \A h \in Handlers : pc[h] = "idle"
      BY <1>0 DEF Single, StartFirst
<1>3. \A n \in Nodes : (Taskless(n)' <=> Taskless(n)) /\ (Promised(n)' <=> Promised(n))
      BY <1>0 DEF Taskless, Promised, HasMessage, Live, NodeOf
<1>4. \A n \in Nodes \ Triggers : Untried(n)'
      BY <1>1 DEF Untried
<1>5. \A n \in Triggers : Parents(n) = {}
      BY DEF TriggersAreRoots, GetRootNodes
<1>6. StartFirst' /\ AllHeld'
      BY <1>0, <1>1, <1>2 DEF Single, StartFirst, AllHeld
<1>7. OneTask'
      BY <1>0 DEF Single, OneTask, HasMessage, Live, NodeOf
<1>8. Promises'
      <2>1. \A n \in Nodes : Promised(n)' => n \notin Triggers /\ Untried(n)' /\ Taskless(n)'
            BY <1>3, <1>4 DEF Single, Promises
      <2>2. \A g \in Handlers : pc'[g] # "publish"
            BY <1>0, <1>2
      <2>3. QED
            BY <1>0, <2>1, <2>2 DEF Single, Promises
<1>9. ChildrenFollow'
      <2>1. ASSUME NEW n \in Nodes, NEW p \in Parents(n) PROVE Fresh(n)' \/ HasRead(p)'
            <3>1. n \notin Triggers
                  BY <1>5
            <3>2. ~HasMessage(n)
                  <4>1. ASSUME NEW k \in 0..MaxRetries PROVE ~(queue[<<n, k>>] > 0)
                        <5>1. queue[<<n, k>>] = 0
                              BY <1>2 DEF Messages
                        <5>2. QED
                              BY <5>1
                  <4>2. QED
                        BY <4>1 DEF HasMessage
            <3>3. Taskless(n)
                  BY <1>2, <3>2 DEF Taskless, Live
            <3>4. ~Promised(n)
                  BY <1>0, <1>2 DEF Promised, Single, Promises, GetRootNodes, Remembered, StartIsOrderly
            <3>5. QED
                  BY <1>3, <1>4, <3>1, <3>3, <3>4 DEF Fresh
      <2>2. QED
            BY <2>1 DEF ChildrenFollow
<1>10. RowsMatchTasks'
      <2>1. ASSUME NEW n \in Nodes, NEW k \in 0..MaxRetries PROVE ~(queue'[<<n, k>>] > 0)
            <3>1. queue'[<<n, k>>] = 0
                  BY <1>0, <1>2 DEF Messages
            <3>2. QED
                  BY <3>1
      <2>2. \A h \in Handlers : RowMatches(h)'
            BY <1>0, <1>2 DEF RowMatches, AfterRecord
      <2>3. QED
            BY <2>1, <2>2 DEF RowsMatchTasks
<1>11. ParentsDone'
      <2>1. \A n : ~HandlerOn(n, {"skipCheck", "markRunning"})'
            BY <1>0, <1>2 DEF HandlerOn
      <2>2. QED
            BY <1>4, <1>5, <2>1 DEF ParentsDone
<1>12. RetryOnItsWay'
      BY <1>1 DEF RetryOnItsWay
<1>13. QED
      BY <1>6, <1>7, <1>8, <1>9, <1>10, <1>11, <1>12 DEF Single

\* A trigger's children, or an action without parents, get on the list.
LEMMA SingleStartRoot ==
    ASSUME Forest, TriggersAreRoots, TypeInv, Remembered, Single, StartRoot, UNCHANGED handlerVars
    PROVE  Single'
<1>0. /\ opc = "roots" /\ opc' \notin {"create", "initSet"} /\ otodo = {}
      /\ UNCHANGED <<pc, task, queue, dlq, nodeStatus, nodeRetry>>
      BY DEF StartRoot, storeVars, brokerVars, handlerVars, Remembered, StartIsOrderly
<1>1. PICK root \in oroots : oroots' = oroots \ {root} /\ otodo' = NodesToEnqueue(root)
      BY DEF StartRoot
<1>2. root \in Nodes /\ Parents(root) = {} /\ oroots \subseteq GetRootNodes
      BY DEF Single, Promises, GetRootNodes
<1>3. \A n : (HasMessage(n)' <=> HasMessage(n)) /\ (Taskless(n)' <=> Taskless(n))
      BY <1>0 DEF HasMessage, Taskless, Live, NodeOf
<1>4. \A n \in Nodes : Untried(n)' <=> Untried(n)
      BY <1>0 DEF Untried
<1>5. \A n : \A L : HandlerOn(n, L)' <=> HandlerOn(n, L)
      BY <1>0 DEF HandlerOn, NodeOf
<1>6. \A p \in Nodes : HasRead(p) => HasRead(p)'
      BY <1>0, <1>1, <1>3, <1>5 DEF HasRead
\* What becomes promised is untouched, and its parent is the trigger.
<1>7. \A n \in otodo' :
          /\ n \in Nodes \ Triggers /\ Untried(n) /\ Taskless(n) /\ n \notin oroots'
          /\ Parents(n) \subseteq Triggers
          /\ \A p \in Parents(n) : HasRead(p)'
      <2>1. SUFFICES ASSUME NEW n \in otodo'
                     PROVE  /\ n \in Nodes \ Triggers /\ Untried(n) /\ Taskless(n) /\ n \notin oroots'
                            /\ Parents(n) \subseteq Triggers
                            /\ \A p \in Parents(n) : HasRead(p)'
            OBVIOUS
      <2>2. CASE root \in Triggers
            <3>1. n \in Nodes /\ root \in Parents(n)
                  BY <1>1, <2>2 DEF NodesToEnqueue, NodesWith, GetChildWorkflowNodeRuns, Children, Parents
            <3>2. Parents(n) = {root}
                  BY <3>1 DEF Forest
            <3>3. n \notin GetRootNodes
                  BY <3>1 DEF GetRootNodes
            <3>4. ~HasRead(root) /\ HasRead(root)'
                  BY <1>1, <2>2 DEF HasRead
            <3>5. Fresh(n)
                  BY <3>1, <3>4 DEF Single, ChildrenFollow
            <3>6. QED
                  BY <1>1, <1>2, <2>2, <3>1, <3>2, <3>3, <3>4, <3>5 DEF Fresh, TriggersAreRoots
      <2>3. CASE root \notin Triggers
            <3>1. n = root
                  BY <1>1, <2>3 DEF NodesToEnqueue
            <3>2. Promised(root)
                  BY <2>3 DEF Promised
            <3>3. QED
                  BY <1>1, <1>2, <2>3, <3>1, <3>2 DEF Single, Promises
      <2>4. QED
            BY <2>2, <2>3
<1>8. \A n \in Nodes : Promised(n)' => Promised(n) \/ n \in otodo'
      BY <1>0, <1>1 DEF Promised
<1>9. StartFirst' /\ AllHeld'
      BY <1>0 DEF Single, StartFirst, AllHeld
<1>10. OneTask'
      BY <1>0, <1>3 DEF Single, OneTask, Live, NodeOf
<1>11. Promises'
      <2>1. \A n \in Nodes : Promised(n)' => n \notin Triggers /\ Untried(n)' /\ Taskless(n)'
            BY <1>3, <1>4, <1>7, <1>8 DEF Single, Promises
      <2>2. \A g \in Handlers : pc'[g] = "publish" => task'[g].todo \subseteq Children(NodeOf(g)')
            BY <1>0 DEF Single, Promises, NodeOf
      <2>3. QED
            BY <1>1, <1>2, <1>7, <2>1, <2>2 DEF Promises
<1>12. ChildrenFollow'
      <2>1. ASSUME NEW n \in Nodes, NEW p \in Parents(n) PROVE Fresh(n)' \/ HasRead(p)'
            <3>1. CASE n \in otodo'
                  BY <1>7, <3>1
            <3>2. CASE n \notin otodo' /\ Fresh(n)
                  BY <1>3, <1>4, <1>8, <3>2 DEF Fresh
            <3>3. CASE HasRead(p)
                  BY <1>6, <3>3 DEF Parents
            <3>4. QED
                  BY <3>1, <3>2, <3>3 DEF Single, ChildrenFollow
      <2>2. QED
            BY <2>1 DEF ChildrenFollow
<1>13. RowsMatchTasks' /\ ParentsDone' /\ RetryOnItsWay'
      <2>1. RowsMatchTasks'
            BY <1>0 DEF Single, RowsMatchTasks, RowMatches, NodeOf, Finished
      <2>2. ParentsDone'
            BY <1>0, <1>4, <1>5 DEF Single, ParentsDone
      <2>3. RetryOnItsWay'
            BY <1>0, <1>3, <1>5 DEF Single, RetryOnItsWay, Underway
      <2>4. QED
            BY <2>1, <2>2, <2>3
<1>14. QED
      BY <1>9, <1>10, <1>11, <1>12, <1>13 DEF Single

LEMMA SinglePublishFirst ==
    ASSUME Forest, TypeInv, Remembered, Single, PublishFirst, UNCHANGED handlerVars
    PROVE  Single'
<1>0. /\ opc = "publish" /\ opc' \notin {"create", "initSet"}
      /\ UNCHANGED <<pc, task, nodeStatus, nodeRetry, oroots>>
      BY DEF PublishFirst, storeVars, handlerVars
<1>1. PICK c \in otodo : Publish(c) /\ otodo' = otodo \ {c}
      BY DEF PublishFirst
<1>2. c \in Nodes /\ c \notin oroots /\ Parents(c) \subseteq Triggers
      BY DEF TypeInv, TypeOK, Single, Promises
<1>3. \A g \in Handlers : pc[g] = "publish" => c \notin task[g].todo
      <2>1. SUFFICES ASSUME NEW g \in Handlers, pc[g] = "publish", c \in task[g].todo PROVE FALSE
            OBVIOUS
      <2>2. NodeOf(g) \in Parents(c)
            BY <1>2, <2>1 DEF Single, Promises, Children, Parents, NodeOf, TypeInv, TypeOK, Tasks
      <2>3. QED
            BY <1>2, <2>1, <2>2 DEF Single, OneTask, Live
<1>4. \A n \in Nodes : Promised(n)' => Promised(n) /\ n # c
      BY <1>0, <1>1, <1>2, <1>3 DEF Promised
<1>5. KeepsPromise(c)
      BY <1>0, <1>1, <1>4 DEF KeepsPromise, Promised, Publish
<1>6. QED
      BY <1>2, <1>5, SinglePublish

\* Steps that change nothing the invariant speaks of.
LEMMA SingleFrame ==
    ASSUME Single, UNCHANGED <<nodeStatus, nodeRetry, queue, dlq, oroots, otodo, pc, task>>,
           opc' = opc \/ (opc = "initSet" /\ opc' = "roots")
    PROVE  Single'
<1>1. \A n : /\ HasMessage(n)' <=> HasMessage(n)
             /\ Taskless(n)' <=> Taskless(n)
             /\ Promised(n)' <=> Promised(n)
             /\ Untried(n)' <=> Untried(n)
             /\ Finished(n)' <=> Finished(n)
      BY DEF HasMessage, Taskless, Promised, Untried, Finished, Live, NodeOf
<1>2. \A n : \A L : HandlerOn(n, L)' <=> HandlerOn(n, L)
      BY DEF HandlerOn, NodeOf
<1>3. StartFirst' /\ AllHeld' /\ OneTask'
      BY <1>1 DEF Single, StartFirst, AllHeld, OneTask, Live, NodeOf
<1>4. Promises'
      BY <1>1 DEF Single, Promises, NodeOf
<1>5. ChildrenFollow'
      BY <1>1, <1>2 DEF Single, ChildrenFollow, Fresh, HasRead
<1>6. RowsMatchTasks'
      BY DEF Single, RowsMatchTasks, RowMatches, Finished, NodeOf
<1>7. ParentsDone' /\ RetryOnItsWay'
      BY <1>1, <1>2 DEF Single, ParentsDone, RetryOnItsWay, Underway
<1>8. QED
      BY <1>3, <1>4, <1>5, <1>6, <1>7 DEF Single

LEMMA SingleStep ==
    ASSUME Forest, TriggersAreRoots, OnlyRedisFails, TypeInv, Remembered, Single, [Next]_vars
    PROVE  Single'
<1>1. CASE UNCHANGED vars
      BY <1>1, SingleFrame DEF vars, storeVars, brokerVars, orchestratorVars, handlerVars
<1>2. CASE OrchestratorNext
      <2>1. UNCHANGED handlerVars
            BY <1>2 DEF OrchestratorNext
      <2>2. CASE CreateRun
            BY <2>1, <2>2, SingleCreate
      <2>3. CASE InitRunningSet \/ InitRunningSetError
            BY <2>1, <2>3, SingleFrame DEF InitRunningSet, InitRunningSetError, storeVars, brokerVars,
               handlerVars
      <2>4. CASE StartRoot
            BY <2>1, <2>4, SingleStartRoot
      <2>5. CASE PublishFirst
            BY <2>1, <2>5, SinglePublishFirst
      <2>6. ~OrchestratorError
            BY DEF OrchestratorError, Fault, OnlyRedisFails
      <2>7. QED
            BY <1>2, <2>2, <2>3, <2>4, <2>5, <2>6
            DEF OrchestratorNext, OrchestratorStep, OrchestratorFault
<1>3. CASE Delivery
      BY <1>3, SingleDelivery
<1>4. CASE \E h \in Handlers : HandlerNext(h)
      <2>1. PICK h \in Handlers : HandlerStep(h) /\ UNCHANGED orchestratorVars
            BY <1>4 DEF HandlerNext
      <2>2. CASE \/ CheckParents(h) \/ ShouldSkipNodeTaskExecution(h) \/ MarkRunning(h)
                 \/ ExecuteAction(h) \/ RecordOutcome(h) \/ FailRun(h)
            BY <2>1, <2>2, SingleExecution
      <2>3. CASE ReadChildren(h)
            BY <2>1, <2>3, SingleReadChildren
      <2>4. CASE PublishChild(h)
            BY <2>1, <2>4, SinglePublishChild
      <2>5. CASE \/ CountRemaining(h) \/ CountPendingRows(h) \/ AcquireReinitLock(h)
                 \/ ReinitializeRunningNodeSet(h) \/ ReadNodeRuns(h) \/ FinalizeRun(h)
            BY <2>1, <2>5, SingleFinalize
      <2>6. CASE Acknowledge(h) \/ ScheduleRetry(h) \/ GiveUp(h)
            BY <2>1, <2>6, SingleSettle
      <2>7. QED
            BY <2>1, <2>2, <2>3, <2>4, <2>5, <2>6 DEF HandlerStep
<1>5. CASE \E h \in Handlers : HandlerFaultNext(h)
      <2>1. PICK h \in Handlers : HandlerFault(h) /\ UNCHANGED orchestratorVars
            BY <1>5 DEF HandlerFaultNext
      <2>2. RedisError(h)
            BY <2>1 DEF HandlerFault, OnlyRedisFails, DbError, PublishError, RetryPublishError,
               Crash, ChannelClosed, Fault
      <2>3. QED
            BY <2>1, <2>2, SingleFinalize
<1>6. CASE KeyExpiry
      BY <1>6, SingleFrame DEF KeyExpiry, RunningSetLost, ReinitLockExpires, storeVars, brokerVars,
         orchestratorVars, handlerVars
<1>7. QED
      BY <1>1, <1>2, <1>3, <1>4, <1>5, <1>6 DEF Next

\* Only three statements write a node's row.
RowWritten == CreateRun \/ \E h \in Handlers : MarkRunning(h) \/ RecordOutcome(h)

LEMMA RowWriters == [Next]_vars /\ ~RowWritten => UNCHANGED <<nodeStatus, nodeRetry>>
<1> SUFFICES ASSUME [Next]_vars, ~RowWritten PROVE UNCHANGED <<nodeStatus, nodeRetry>>
    OBVIOUS
<1>1. CASE UNCHANGED vars
      BY <1>1 DEF vars, storeVars
<1>2. CASE OrchestratorNext
      BY <1>2 DEF OrchestratorNext, OrchestratorStep, OrchestratorFault, RowWritten,
         InitRunningSet, StartRoot, PublishFirst, OrchestratorError, InitRunningSetError, storeVars
<1>3. CASE Delivery
      BY <1>3 DEF Delivery, Deliver, storeVars
<1>4. CASE \E h \in Handlers : HandlerNext(h)
      <2>1. PICK h \in Handlers : HandlerStep(h)
            BY <1>4 DEF HandlerNext
      <2>2. QED
            BY <2>1 DEF RowWritten, HandlerStep, CheckParents, ShouldSkipNodeTaskExecution,
               ExecuteAction, FailRun, ReadChildren, PublishChild, CountRemaining,
               CountPendingRows, AcquireReinitLock, ReinitializeRunningNodeSet, ReadNodeRuns,
               FinalizeRun, Acknowledge, ScheduleRetry, GiveUp, CompleteWorkflowRun, storeVars
<1>5. CASE \E h \in Handlers : HandlerFaultNext(h)
      BY <1>5 DEF HandlerFaultNext, HandlerFault, DbError, RedisError, PublishError,
         RetryPublishError, Crash, ChannelClosed, storeVars
<1>6. CASE KeyExpiry
      BY <1>6 DEF KeyExpiry, RunningSetLost, ReinitLockExpires, storeVars
<1>7. QED
      BY <1>1, <1>2, <1>3, <1>4, <1>5, <1>6 DEF Next

LEMMA SuccessStays ==
    ASSUME TypeInv, Single, [Next]_vars, NEW n \in Nodes, nodeStatus[n] = "success"
    PROVE  nodeStatus'[n] = "success"
<1>t. nodeStatus \in [Nodes -> NodeStatuses]
      BY DEF TypeInv, TypeOK
<1>1. ~CreateRun
      BY DEF Single, StartFirst, CreateRun
<1>2. ASSUME NEW h \in Handlers, MarkRunning(h) \/ RecordOutcome(h)
      PROVE  nodeStatus'[n] = nodeStatus[n]
      <2>1. NodeOf(h) # n
            BY <1>2 DEF Single, RowsMatchTasks, RowMatches, MarkRunning, RecordOutcome, At
      <2>2. QED
            BY <1>2, <1>t, <2>1 DEF MarkRunning, RecordOutcome, MarkWorkflowNodeAsRunning,
               UpdateWorkflowNodeRunStatus
<1>3. QED
      BY <1>1, <1>2, RowWriters DEF RowWritten

-----------------------------------------------------------------------------
(* What follows from it.                                                   *)

SafeForest == Forest /\ TriggersAreRoots /\ OnlyRedisFails

LEMMA SingleAlways ==
    ASSUME SafeForest
    PROVE  Spec => [](TypeInv /\ Remembered /\ Single)
<1>1. Forest /\ TriggersAreRoots /\ OnlyRedisFails /\ NothingAborts
      BY DEF SafeForest, OnlyRedisFails, NothingAborts
<1>2. Init => TypeInv /\ Remembered /\ Single
      BY TypeInit, RememberedInit, SingleInit
<1>3. TypeInv /\ Remembered /\ Single /\ [Next]_vars => (TypeInv /\ Remembered /\ Single)'
      BY <1>1, TypeStep, RememberedStep, SingleStep
<1>4. QED
      BY <1>2, <1>3, PTL DEF Spec

\* In a workflow without joins no two handlers ever run the action of one
\* node at the same time, although the skip check and the write that marks
\* the node running are separate statements: there is one task per node.
THEOREM OneHandlerInForests ==
    ASSUME SafeForest
    PROVE  Spec => []OneHandlerPerNode
<1>1. TypeInv /\ Remembered /\ Single => OneHandlerPerNode
      BY DEF Single, OneTask, OneHandlerPerNode, Live
<1>2. QED
      BY <1>1, SingleAlways, PTL

\* There, no retry is lost: a node that failed and has attempts left has a
\* task on its way, for whatever retry limits (with limits that do not fit,
\* it may be in the dead letter queue).
THEOREM NoRetryLostInForests ==
    ASSUME SafeForest
    PROVE  Spec => []NoLostRetry
<1>1. TypeInv /\ Remembered /\ Single => NoLostRetry
      BY DEF Single, RetryOnItsWay, NoLostRetry, GivenUp
<1>2. QED
      BY <1>1, SingleAlways, PTL

\* There, a node that has succeeded is never run again: the row never leaves
\* "success".  With a join it does, as the run join_runs_twice shows.
THEOREM SuccessFinalInForests ==
    ASSUME SafeForest
    PROVE  Spec => SuccessIsFinal
<1>1. TypeInv /\ Remembered /\ Single /\ [Next]_vars
          => [\A n \in Nodes : nodeStatus[n] = "success" => nodeStatus'[n] = "success"]_vars
      BY SuccessStays
<1>2. QED
      BY <1>1, SingleAlways, PTL DEF Spec, SuccessIsFinal

\* There, with limits that fit as the code's do, no failing action ever sends
\* a task to the dead letter queue: the attempts counted in the row end
\* before the retries counted in the message.
THEOREM NoDeadLetterInForests ==
    ASSUME SafeForest, RetriesFit
    PROVE  Spec => []NoDeadLetter
<1>1. Init => NoDeadLetter
      BY DEF Init, BrokerInit, NoDeadLetter
<1>2. TypeInv /\ Remembered /\ Single /\ NoDeadLetter /\ [Next]_vars => NoDeadLetter'
      <2> SUFFICES ASSUME TypeInv, Single, NoDeadLetter, [Next]_vars PROVE NoDeadLetter'
          OBVIOUS
      <2>1. ASSUME NEW h \in Handlers PROVE ~GiveUp(h)
            <3>1. SUFFICES ASSUME GiveUp(h) PROVE FALSE
                  OBVIOUS
            <3>2. pc[h] = "failed" /\ task[h] \in Tasks /\ NodeOf(h) \in Nodes
                  BY <3>1 DEF GiveUp, At, TypeInv, TypeOK, Tasks, NodeOf
            <3>3. nodeRetry[NodeOf(h)] = task[h].header + 1
                  BY <3>2 DEF Single, RowsMatchTasks, RowMatches
            <3>4. nodeRetry[NodeOf(h)] \in 0..MaxRetryCount /\ task[h].header \in 0..MaxRetries
                  BY <3>2 DEF TypeInv, TypeOK, Tasks
            <3>5. task[h].header >= MaxRetries
                  BY <3>1 DEF GiveUp
            <3>6. QED
                  BY <3>3, <3>4, <3>5 DEF RetriesFit
      <2>2. UNCHANGED dlq
            <3>1. CASE UNCHANGED vars
                  BY <3>1 DEF vars, brokerVars
            <3>2. CASE OrchestratorNext
                  BY <3>2 DEF OrchestratorNext, OrchestratorStep, OrchestratorFault, CreateRun,
                     InitRunningSet, StartRoot, PublishFirst, OrchestratorError,
                     InitRunningSetError, Publish, brokerVars
            <3>3. CASE Delivery
                  BY <3>3 DEF Delivery, Deliver, Dequeue
            <3>4. CASE \E h \in Handlers : HandlerNext(h)
                  <4>1. PICK h \in Handlers : HandlerStep(h)
                        BY <3>4 DEF HandlerNext
                  <4>2. QED
                        BY <2>1, <4>1 DEF HandlerStep, CheckParents, ShouldSkipNodeTaskExecution,
                           MarkRunning, RecordOutcome, ExecuteAction, FailRun, ReadChildren,
                           PublishChild, CountRemaining, CountPendingRows, AcquireReinitLock,
                           ReinitializeRunningNodeSet, ReadNodeRuns, FinalizeRun, Acknowledge,
                           ScheduleRetry, Publish, PublishRetry, brokerVars
            <3>5. CASE \E h \in Handlers : HandlerFaultNext(h)
                  <4>1. PICK h \in Handlers : HandlerFault(h)
                        BY <3>5 DEF HandlerFaultNext
                  <4>2. RedisError(h)
                        BY <4>1 DEF HandlerFault, SafeForest, OnlyRedisFails, DbError, PublishError,
                           RetryPublishError, Crash, ChannelClosed, Fault
                  <4>3. QED
                        BY <4>2 DEF RedisError, brokerVars
            <3>6. CASE KeyExpiry
                  BY <3>6 DEF KeyExpiry, RunningSetLost, ReinitLockExpires, brokerVars
            <3>7. QED
                  BY <3>1, <3>2, <3>3, <3>4, <3>5, <3>6 DEF Next
      <2>3. QED
            BY <2>2 DEF NoDeadLetter
<1>3. QED
      BY <1>1, <1>2, SingleAlways, PTL DEF Spec

-----------------------------------------------------------------------------
(* The verdict of a run, in workflows without joins and without faults:    *)
(* the rows keep the promise of RunContract at every step, and when        *)
(* nothing is left to do the verdict is there and is the right one.        *)

\* The running set holds no root, so a root without children is not waited for.
EveryRootLeads == \A r \in GetRootNodes : Children(r) # {}

\* What ValidateWorkflowGraph accepts has no cycle: among any nodes
\* there is one without a parent among them.
Acyclic == \A S \in SUBSET Nodes : S # {} => \E n \in S : Parents(n) \cap S = {}

-----------------------------------------------------------------------------
(* The inductive invariant.                                                *)

AllDone == \A n \in Nodes : nodeStatus[n] = "success"

Exhausted(n) == nodeStatus[n] = "failed" /\ nodeRetry[n] = MaxRetryCount

SomeExhausted == \E n \in Nodes : Exhausted(n)

AllFinished == \A n \in Nodes : Finished(n)

\* Before the first task every action is pending and the set is empty.
Prepared ==
    /\ opc = "create" => runningNodes = {}
    /\ opc = "initSet" =>
         /\ runningNodes = {} /\ Nodes # {}
         /\ \A n \in Nodes \ Triggers : nodeStatus[n] = "pending"
    /\ \A n \in Triggers : nodeStatus[n] \in {"none", "success"}

\* The running set misses no node that still has to complete.
SetIsTrue ==
    /\ runningNodes \subseteq Nodes \ GetRootNodes
    /\ opc \notin {"create", "initSet"} =>
         \A n \in Nodes \ GetRootNodes : n \in runningNodes \/ Finished(n)

\* A verdict, stored or about to be, is what the rows say and will go on saying.
VerdictsAreTrue ==
    /\ opc = "create" <=> runStatus = "none"
    /\ runStatus = "success" => AllDone
    /\ runStatus = "failed" => SomeExhausted
    /\ \A h \in Handlers :
         /\ pc[h] \notin {"reinitLock", "reinitSet"}
         /\ pc[h] \in {"pendingRows", "readNodes"} => AllFinished
         /\ pc[h] = "complete" /\ task[h].status = "success" => AllDone
         /\ pc[h] = "complete" /\ task[h].status = "failed" => SomeExhausted

\* Whoever has to store, or to bring about, the verdict is still at work.
VerdictComes ==
    /\ opc = "done" => oroots = {}
    /\ \A n \in Nodes :
         /\ nodeStatus[n] = "running" => HandlerOn(n, {"execute", "record"})
         /\ Exhausted(n) => runStatus = "failed" \/ HandlerOn(n, {"failRun"})
         /\ n \in runningNodes /\ nodeStatus[n] = "success"
              => HandlerOn(n, {"children", "publish", "countRemaining"})
    /\ opc \notin {"create", "initSet"} /\ runningNodes = {} /\ runStatus = "running"
         => \E h \in Handlers : pc[h] \in {"readNodes", "complete"}

Verdict == Prepared /\ SetIsTrue /\ VerdictsAreTrue /\ VerdictComes

LEMMA VerdictInit == Init => Verdict
BY DEF Init, StoreInit, RedisInit, HandlersInit, OrchestratorInit, Verdict, Prepared, SetIsTrue,
       VerdictsAreTrue, VerdictComes, Exhausted

\* The set holds no roots, and need not: each has a child, which is finished
\* only after its parent has succeeded.
LEMMA RootsFinish ==
    ASSUME EveryRootLeads, Single, \A n \in Nodes \ GetRootNodes : Finished(n)
    PROVE  AllFinished
<1>1. ASSUME NEW r \in GetRootNodes PROVE Finished(r)
      <2>1. PICK c \in Children(r) : TRUE
            BY DEF EveryRootLeads
      <2>2. c \in Nodes \ GetRootNodes /\ r \in Parents(c)
            BY DEF Children, Parents, GetRootNodes
      <2>3. ~Untried(c)
            BY <2>2 DEF Finished, Untried
      <2>4. QED
            BY <2>2, <2>3 DEF Single, ParentsDone, Finished
<1>2. QED
      BY <1>1 DEF AllFinished

-----------------------------------------------------------------------------
(* Each step preserves it.                                                 *)

\* What a handler contributes to the verdict, it contributes after the step.
StillThere(g) ==
    /\ \A L \in {{"execute", "record"}, {"failRun"}, {"children", "publish", "countRemaining"}} :
          pc[g] \in L => pc'[g] \in L /\ NodeOf(g)' = NodeOf(g)
    /\ pc[g] \in {"readNodes", "complete"} => pc'[g] \in {"readNodes", "complete"}

\* Handler g comes to no conclusion of its own.
NoNewVerdict(g) ==
    /\ pc'[g] \notin {"reinitLock", "reinitSet"}
    /\ pc'[g] \in {"pendingRows", "readNodes"} => pc[g] = pc'[g]
    /\ pc'[g] = "complete" => pc[g] = "complete" /\ task'[g].status = task[g].status

LEMMA VerdictFrame ==
    ASSUME Verdict, UNCHANGED <<nodeStatus, nodeRetry, runStatus, runningNodes>>,
           opc' = opc \/ (opc \notin {"create", "initSet"} /\ opc' \notin {"create", "initSet"}),
           opc' = "done" => oroots' = {},
           \A g \in Handlers : StillThere(g) /\ NoNewVerdict(g)
    PROVE  Verdict'
<1>1. \A n : (Finished(n)' <=> Finished(n)) /\ (Exhausted(n)' <=> Exhausted(n))
      BY DEF Finished, Exhausted
<1>2. (AllDone' <=> AllDone) /\ (SomeExhausted' <=> SomeExhausted) /\ (AllFinished' <=> AllFinished)
      BY <1>1 DEF AllDone, SomeExhausted, AllFinished
<1>3. Prepared' /\ SetIsTrue'
      BY <1>1 DEF Verdict, Prepared, SetIsTrue
<1>4. VerdictsAreTrue'
      BY <1>2 DEF Verdict, VerdictsAreTrue, NoNewVerdict
<1>5. VerdictComes'
      <2>1. \A n : \A L \in {{"execute", "record"}, {"failRun"},
                             {"children", "publish", "countRemaining"}} :
                HandlerOn(n, L) => HandlerOn(n, L)'
            BY DEF HandlerOn, StillThere
      <2>2. QED
            BY <1>1, <2>1 DEF Verdict, VerdictComes, StillThere
<1>6. QED
      BY <1>3, <1>4, <1>5 DEF Verdict

\* One handler moves.
LEMMA VerdictMove ==
    ASSUME TypeInv, Verdict, UNCHANGED <<nodeStatus, nodeRetry, runStatus, runningNodes>>,
           UNCHANGED orchestratorVars, NEW h \in Handlers,
           \A g \in Handlers \ {h} : pc'[g] = pc[g] /\ task'[g] = task[g],
           StillThere(h), NoNewVerdict(h)
    PROVE  Verdict'
<1>1. \A g \in Handlers : StillThere(g) /\ NoNewVerdict(g)
      <2>1. ASSUME NEW g \in Handlers \ {h} PROVE StillThere(g) /\ NoNewVerdict(g)
            <3>1. pc[g] \notin {"reinitLock", "reinitSet"}
                  BY DEF Verdict, VerdictsAreTrue
            <3>2. QED
                  BY <3>1 DEF StillThere, NoNewVerdict, NodeOf
      <2>2. QED
            BY <2>1
<1>2. opc' = opc /\ (opc' = "done" => oroots' = {})
      BY DEF orchestratorVars, Verdict, VerdictComes
<1>3. QED
      BY <1>1, <1>2, VerdictFrame

LEMMA VerdictStart ==
    ASSUME TypeInv, TriggersAreRoots, EveryRootLeads, Remembered, Single, Verdict,
           OrchestratorStep, UNCHANGED handlerVars
    PROVE  Verdict'
<1>h. UNCHANGED <<pc, task>>
      BY DEF handlerVars
<1>1. CASE CreateRun
      <2>1. /\ opc = "create" /\ opc' = "initSet" /\ runStatus' = "running" /\ Nodes # {}
            /\ nodeStatus' = [n \in Nodes |-> IF n \in Triggers THEN "success" ELSE "pending"]
            /\ UNCHANGED runningNodes
            BY <1>1 DEF CreateRun, CreateWorkflowRun, redisVars
      <2>2. \A g \in Handlers : pc'[g] = "idle"
            BY <1>h, <2>1 DEF Single, StartFirst
      <2>3. runningNodes' = {}
            BY <2>1 DEF Verdict, Prepared
      <2>4. Prepared'
            BY <2>1, <2>3 DEF Prepared
      <2>5. SetIsTrue'
            BY <2>1, <2>3 DEF SetIsTrue
      <2>6. VerdictsAreTrue'
            BY <2>1, <2>2 DEF VerdictsAreTrue
      <2>7. VerdictComes'
            BY <2>1, <2>3 DEF VerdictComes, Exhausted
      <2>8. QED
            BY <2>4, <2>5, <2>6, <2>7 DEF Verdict
<1>2. CASE InitRunningSet
      <2>1. /\ opc = "initSet" /\ opc' = "roots" /\ runningNodes = {} /\ Nodes # {}
            /\ runningNodes' = Nodes \ GetRootNodes
            /\ UNCHANGED <<runStatus, nodeStatus, nodeRetry>>
            BY <1>2 DEF InitRunningSet, InitializeRunningNodeSet, storeVars, Verdict, Prepared
      <2>2. \A n \in Nodes \ GetRootNodes : nodeStatus[n] = "pending"
            BY <2>1 DEF Verdict, Prepared, TriggersAreRoots
      <2>3. PICK n \in Nodes : TRUE
            BY <2>1
      <2>4. runningNodes' # {}
            <3>1. CASE n \in GetRootNodes
                  <4>1. PICK c \in Children(n) : TRUE
                        BY <3>1 DEF EveryRootLeads
                  <4>2. c \in Nodes \ GetRootNodes
                        BY <4>1 DEF Children, Parents, GetRootNodes
                  <4>3. QED
                        BY <2>1, <4>2
            <3>2. CASE n \notin GetRootNodes
                  BY <2>1, <3>2
            <3>3. QED
                  BY <3>1, <3>2
      <2>5. \A g \in Handlers : pc'[g] = "idle"
            BY <1>h, <2>1 DEF Single, StartFirst
      <2>6. Prepared'
            BY <2>1 DEF Verdict, Prepared
      <2>7. SetIsTrue'
            BY <2>1 DEF SetIsTrue
      <2>8. VerdictsAreTrue'
            BY <2>1, <2>5 DEF Verdict, VerdictsAreTrue, AllDone, SomeExhausted, Exhausted
      <2>9. VerdictComes'
            BY <1>h, <2>1, <2>2, <2>4 DEF Verdict, VerdictComes, Exhausted, HandlerOn, NodeOf
      <2>10. QED
            BY <2>6, <2>7, <2>8, <2>9 DEF Verdict
<1>3. CASE StartRoot \/ PublishFirst
      <2>1. /\ opc \notin {"create", "initSet"} /\ opc' \notin {"create", "initSet"}
            /\ opc' = "done" => oroots' = {}
            /\ UNCHANGED <<nodeStatus, nodeRetry, runStatus, runningNodes>>
            BY <1>3 DEF StartRoot, PublishFirst, storeVars, redisVars
      <2>2. \A g \in Handlers : StillThere(g) /\ NoNewVerdict(g)
            BY <1>h DEF StillThere, NoNewVerdict, NodeOf, Verdict, VerdictsAreTrue
      <2>3. QED
            BY <2>1, <2>2, VerdictFrame
<1>4. QED
      BY <1>1, <1>2, <1>3 DEF OrchestratorStep

\* The steps that read, publish and acknowledge.
LEMMA VerdictQuiet ==
    ASSUME TypeInv, Single, Verdict, UNCHANGED orchestratorVars, NEW h \in Handlers,
           \/ \E m \in Messages : Deliver(h, m)
           \/ CheckParents(h) \/ ShouldSkipNodeTaskExecution(h) \/ ExecuteAction(h)
           \/ ReadChildren(h) \/ PublishChild(h)
           \/ Acknowledge(h) \/ ScheduleRetry(h) \/ GiveUp(h)
    PROVE  Verdict'
<1>t. pc \in [Handlers -> Labels] /\ task \in [Handlers -> Tasks \cup {NoTask}]
      /\ (pc[h] # "idle" => task[h] \in Tasks)
      BY DEF TypeInv, TypeOK
<1>1. UNCHANGED <<nodeStatus, nodeRetry, runStatus, runningNodes>>
      BY DEF Deliver, CheckParents, ShouldSkipNodeTaskExecution, ExecuteAction, ReadChildren,
             PublishChild, Acknowledge, ScheduleRetry, GiveUp, storeVars, redisVars
<1>2. \A g \in Handlers \ {h} : pc'[g] = pc[g] /\ task'[g] = task[g]
      BY <1>t DEF Goto, Release, Deliver, CheckParents, ShouldSkipNodeTaskExecution, ExecuteAction,
         ReadChildren, PublishChild, Acknowledge, ScheduleRetry, GiveUp
<1>3. StillThere(h) /\ NoNewVerdict(h)
      <2>1. CASE \/ \E m \in Messages : Deliver(h, m)
                 \/ CheckParents(h) \/ ShouldSkipNodeTaskExecution(h)
                 \/ Acknowledge(h) \/ ScheduleRetry(h) \/ GiveUp(h)
            <3>1. /\ pc[h] \in {"idle", "parents", "skipCheck", "ack", "failed"}
                  /\ pc'[h] \in {"idle", "parents", "skipCheck", "markRunning", "children", "ack"}
                  BY <1>t, <2>1 DEF At, Goto, Release, Deliver, CheckParents,
                     ShouldSkipNodeTaskExecution, Acknowledge, ScheduleRetry, GiveUp
            <3>2. QED
                  BY <3>1 DEF StillThere, NoNewVerdict
      <2>2. CASE ExecuteAction(h)
            <3>1. PICK outcome \in {"success", "failed"} :
                      task' = [task EXCEPT ![h].status = outcome]
                  BY <2>2 DEF ExecuteAction
            <3>2. pc[h] = "execute" /\ pc'[h] = "record" /\ task'[h].node = task[h].node
                  BY <1>t, <2>2, <3>1 DEF ExecuteAction, At, Goto, Tasks
            <3>3. QED
                  BY <3>2 DEF StillThere, NoNewVerdict, NodeOf
      <2>3. CASE ReadChildren(h)
            <3>1. /\ pc[h] = "children" /\ pc'[h] \in {"countRemaining", "publish"}
                  /\ task'[h].node = task[h].node
                  BY <1>t, <2>3 DEF ReadChildren, At, Goto, Tasks
            <3>2. QED
                  BY <3>1 DEF StillThere, NoNewVerdict, NodeOf
      <2>4. CASE PublishChild(h)
            <3>1. PICK c \in task[h].todo : task' = [task EXCEPT ![h].todo = @ \ {c}]
                                         /\ Goto(h, IF task[h].todo = {c} THEN "countRemaining" ELSE "publish")
                  BY <2>4 DEF PublishChild
            <3>2. /\ pc[h] = "publish" /\ pc'[h] \in {"countRemaining", "publish"}
                  /\ task'[h].node = task[h].node
                  BY <1>t, <2>4, <3>1 DEF PublishChild, At, Goto, Tasks
            <3>3. QED
                  BY <3>2 DEF StillThere, NoNewVerdict, NodeOf
      <2>5. QED
            BY <2>1, <2>2, <2>3, <2>4
<1>4. QED
      BY <1>1, <1>2, <1>3, VerdictMove

\* A node that is started is not finished, so no verdict has been reached.
LEMMA VerdictMarkRunning ==
    ASSUME TypeInv, TypeInv', Single, Verdict, UNCHANGED orchestratorVars,
           NEW h \in Handlers, MarkRunning(h)
    PROVE  Verdict'
<1> PICK q \in Nodes : q = NodeOf(h)
    BY DEF TypeInv, TypeOK, Tasks, NodeOf, MarkRunning, At
<1>t. /\ pc \in [Handlers -> Labels] /\ task \in [Handlers -> Tasks \cup {NoTask}]
      /\ nodeStatus \in [Nodes -> NodeStatuses] /\ nodeRetry \in [Nodes -> 0..MaxRetryCount]
      /\ task[h] \in Tasks /\ nodeRetry'[q] \in 0..MaxRetryCount
      BY DEF TypeInv, TypeOK, MarkRunning, At
<1>1. /\ pc[h] = "markRunning" /\ pc'[h] = "execute" /\ task'[h].node = q
      /\ nodeStatus'[q] = "running" /\ nodeRetry'[q] = task[h].retryCount + 1
      /\ \A n \in Nodes \ {q} : nodeStatus'[n] = nodeStatus[n] /\ nodeRetry'[n] = nodeRetry[n]
      /\ \A g \in Handlers \ {h} : pc'[g] = pc[g] /\ task'[g] = task[g]
      /\ UNCHANGED <<runStatus, runningNodes, opc, oroots>>
      BY <1>t DEF MarkRunning, At, Goto, MarkWorkflowNodeAsRunning, redisVars, orchestratorVars,
         Tasks, NodeOf
<1>2. /\ nodeStatus[q] \in {"pending", "failed"} /\ nodeRetry[q] = task[h].retryCount
      /\ q \notin Triggers
      BY <1>1 DEF Single, RowsMatchTasks, RowMatches, OneTask, Live
<1>3. ~Finished(q) /\ ~Exhausted(q) /\ ~Exhausted(q)' /\ opc \notin {"create", "initSet"}
      <2>1. nodeRetry[q] # MaxRetryCount
            <3>1. task[h].retryCount \in 0..MaxRetryCount
                  BY <1>t DEF Tasks
            <3>2. task[h].retryCount + 1 \in 0..MaxRetryCount /\ nodeRetry[q] = task[h].retryCount
                  BY <1>1, <1>2, <1>t
            <3>3. QED
                  BY <3>1, <3>2
      <2>2. QED
            BY <1>1, <1>2, <2>1 DEF Finished, Exhausted, Single, StartFirst
<1>4. \A n \in Nodes \ {q} : (Finished(n)' <=> Finished(n)) /\ (Exhausted(n)' <=> Exhausted(n))
      BY <1>1 DEF Finished, Exhausted
<1>5. ~AllDone /\ ~AllFinished /\ (SomeExhausted => SomeExhausted')
      BY <1>2, <1>3, <1>4 DEF AllDone, AllFinished, SomeExhausted
<1>6. Prepared'
      BY <1>1, <1>2, <1>3 DEF Verdict, Prepared
<1>7. SetIsTrue'
      BY <1>1, <1>3, <1>4 DEF Verdict, SetIsTrue
<1>8. VerdictsAreTrue'
      BY <1>1, <1>3, <1>5 DEF Verdict, VerdictsAreTrue
<1>9. VerdictComes'
      <2>1. \A g \in Handlers : NodeOf(g)' = NodeOf(g)
            BY <1>1 DEF NodeOf
      <2>2. \A n \in Nodes \ {q} : \A L : HandlerOn(n, L) => HandlerOn(n, L)'
            BY <1>1, <2>1 DEF HandlerOn
      <2>3. HandlerOn(q, {"execute", "record"})'
            BY <1>1, <2>1 DEF HandlerOn
      <2>4. (\E g \in Handlers : pc[g] \in {"readNodes", "complete"})
               => \E g \in Handlers : pc'[g] \in {"readNodes", "complete"}
            BY <1>1
      <2>5. QED
            BY <1>1, <1>3, <1>4, <2>2, <2>3, <2>4 DEF Verdict, VerdictComes
<1>10. QED
      BY <1>6, <1>7, <1>8, <1>9 DEF Verdict

LEMMA VerdictRecord ==
    ASSUME TypeInv, TypeInv', Single, Verdict, UNCHANGED orchestratorVars,
           NEW h \in Handlers, RecordOutcome(h)
    PROVE  Verdict'
<1> PICK q \in Nodes : q = NodeOf(h)
    BY DEF TypeInv, TypeOK, Tasks, NodeOf, RecordOutcome, At
<1>t. /\ pc \in [Handlers -> Labels] /\ task \in [Handlers -> Tasks \cup {NoTask}]
      /\ nodeStatus \in [Nodes -> NodeStatuses] /\ nodeStatus'[q] \in NodeStatuses
      /\ task[h] \in Tasks
      BY DEF TypeInv, TypeOK, RecordOutcome, At
<1>1. /\ pc[h] = "record" /\ UNCHANGED <<nodeRetry, task, runStatus, runningNodes, opc, oroots>>
      /\ nodeStatus'[q] = task[h].status
      /\ \A n \in Nodes \ {q} : nodeStatus'[n] = nodeStatus[n]
      /\ \A g \in Handlers \ {h} : pc'[g] = pc[g]
      /\ pc'[h] = IF task[h].status = "success" THEN "children"
                  ELSE IF task[h].retryCount = MaxRetryCount THEN "failRun" ELSE "failed"
      BY <1>t DEF RecordOutcome, At, Goto, UpdateWorkflowNodeRunStatus, redisVars, orchestratorVars
<1>s. nodeStatus'[q] \in {"success", "failed"}
      BY <1>t, <1>1 DEF Tasks, NodeStatuses
<1>2. nodeStatus[q] = "running" /\ nodeRetry[q] = task[h].retryCount /\ q \notin Triggers
      BY <1>1 DEF Single, RowsMatchTasks, RowMatches, OneTask, Live
<1>3. ~Finished(q) /\ ~Exhausted(q) /\ opc \notin {"create", "initSet"}
      BY <1>1, <1>2 DEF Finished, Exhausted, Single, StartFirst
<1>4. \A n \in Nodes \ {q} : (Finished(n)' <=> Finished(n)) /\ (Exhausted(n)' <=> Exhausted(n))
      BY <1>1 DEF Finished, Exhausted
<1>5. ~AllDone /\ ~AllFinished /\ (SomeExhausted => SomeExhausted')
      BY <1>2, <1>3, <1>4 DEF AllDone, AllFinished, SomeExhausted
<1>6. Prepared'
      BY <1>1, <1>2, <1>3 DEF Verdict, Prepared
<1>7. SetIsTrue'
      BY <1>1, <1>3, <1>4 DEF Verdict, SetIsTrue
<1>8. VerdictsAreTrue'
      BY <1>1, <1>3, <1>5 DEF Verdict, VerdictsAreTrue
<1>9. VerdictComes'
      <2>1. \A g \in Handlers : NodeOf(g)' = NodeOf(g)
            BY <1>1 DEF NodeOf
      <2>2. \A n \in Nodes \ {q} : \A L : HandlerOn(n, L) => HandlerOn(n, L)'
            BY <1>1, <2>1 DEF HandlerOn
      <2>3. nodeStatus'[q] = "success" => HandlerOn(q, {"children", "publish", "countRemaining"})'
            BY <1>1, <2>1 DEF HandlerOn
      <2>4. Exhausted(q)' => HandlerOn(q, {"failRun"})'
            BY <1>1, <1>2, <2>1 DEF HandlerOn, Exhausted
      <2>5. (\E g \in Handlers : pc[g] \in {"readNodes", "complete"})
               => \E g \in Handlers : pc'[g] \in {"readNodes", "complete"}
            BY <1>1
      <2>6. QED
            BY <1>1, <1>s, <1>3, <1>4, <2>2, <2>3, <2>4, <2>5 DEF Verdict, VerdictComes
<1>10. QED
      BY <1>6, <1>7, <1>8, <1>9 DEF Verdict

\* An exhausted node fails the run; a success would have needed that node.
LEMMA VerdictFailRun ==
    ASSUME TypeInv, Single, Verdict, UNCHANGED orchestratorVars, NEW h \in Handlers, FailRun(h)
    PROVE  Verdict'
<1>1. /\ pc[h] = "failRun" /\ pc'[h] = "failed"
      /\ UNCHANGED <<nodeStatus, nodeRetry, runningNodes, opc, oroots, task>>
      /\ runStatus' = "failed" /\ \A g \in Handlers \ {h} : pc'[g] = pc[g]
      BY DEF FailRun, At, Goto, CompleteWorkflowRun, redisVars, orchestratorVars, TypeInv, TypeOK
<1>2. NodeOf(h) \in Nodes /\ Exhausted(NodeOf(h)) /\ opc \notin {"create", "initSet"}
      <2>1. NodeOf(h) \in Nodes /\ opc \notin {"create", "initSet"}
            BY <1>1 DEF TypeInv, TypeOK, Tasks, NodeOf, Single, StartFirst
      <2>2. QED
            BY <1>1, <2>1 DEF Single, RowsMatchTasks, RowMatches, Exhausted
<1>3. \A n : /\ Finished(n)' <=> Finished(n)
             /\ Exhausted(n)' <=> Exhausted(n)
      BY <1>1 DEF Finished, Exhausted
<1>4. (AllDone' <=> AllDone) /\ (AllFinished' <=> AllFinished) /\ SomeExhausted /\ SomeExhausted'
      BY <1>1, <1>2, <1>3 DEF AllDone, AllFinished, SomeExhausted
<1>5. Prepared' /\ SetIsTrue'
      BY <1>1, <1>3 DEF Verdict, Prepared, SetIsTrue
<1>6. VerdictsAreTrue'
      BY <1>1, <1>2, <1>4 DEF Verdict, VerdictsAreTrue
<1>7. VerdictComes'
      <2>1. \A n : \A L : "failRun" \notin L /\ HandlerOn(n, L) => HandlerOn(n, L)'
            BY <1>1 DEF HandlerOn, NodeOf
      <2>2. QED
            BY <1>1, <1>3, <2>1 DEF Verdict, VerdictComes
<1>8. QED
      BY <1>5, <1>6, <1>7 DEF Verdict

\* The node leaves the set when it is finished; who empties the set goes on.
LEMMA VerdictCount ==
    ASSUME TypeInv, EveryRootLeads, Single, Verdict, UNCHANGED orchestratorVars,
           NEW h \in Handlers, CountRemaining(h)
    PROVE  Verdict'
<1> PICK q \in Nodes : q = NodeOf(h)
    BY DEF TypeInv, TypeOK, Tasks, NodeOf, CountRemaining, At
<1>1. /\ pc[h] = "countRemaining"
      /\ UNCHANGED <<nodeStatus, nodeRetry, runStatus, opc, oroots, task>>
      /\ runningNodes' = runningNodes \ {q}
      /\ pc'[h] = IF runningNodes = {} THEN "pendingRows"
                  ELSE IF runningNodes' = {} THEN "readNodes" ELSE "ack"
      /\ \A g \in Handlers \ {h} : pc'[g] = pc[g]
      BY DEF CountRemaining, At, Goto, RemoveNode, RunningSetExists, NoneRemaining, storeVars,
             orchestratorVars, TypeInv, TypeOK
<1>2. Finished(q) /\ opc \notin {"create", "initSet"}
      BY <1>1 DEF Single, RowsMatchTasks, RowMatches, AfterRecord, StartFirst
<1>3. \A n : /\ Finished(n)' <=> Finished(n)
             /\ Exhausted(n)' <=> Exhausted(n)
      BY <1>1 DEF Finished, Exhausted
<1>4. (AllDone' <=> AllDone) /\ (AllFinished' <=> AllFinished) /\ (SomeExhausted' <=> SomeExhausted)
      BY <1>1, <1>3 DEF AllDone, AllFinished, SomeExhausted
<1>5. Prepared'
      BY <1>1, <1>2 DEF Verdict, Prepared
<1>6. SetIsTrue'
      BY <1>1, <1>2, <1>3 DEF Verdict, SetIsTrue
<1>7. runningNodes' = {} => AllFinished
      <2>1. runningNodes' = {} => \A n \in Nodes \ GetRootNodes : Finished(n)
            BY <1>1, <1>2, <1>3, <1>6 DEF SetIsTrue
      <2>2. QED
            BY <2>1, RootsFinish
<1>8. VerdictsAreTrue'
      <2>1. pc'[h] \in {"pendingRows", "readNodes"} => AllFinished
            BY <1>1, <1>7
      <2>2. QED
            BY <1>1, <1>4, <2>1 DEF Verdict, VerdictsAreTrue
<1>9. VerdictComes'
      <2>1. \A n : \A L : "countRemaining" \notin L /\ HandlerOn(n, L) => HandlerOn(n, L)'
            BY <1>1 DEF HandlerOn, NodeOf
      <2>2. \A n \in Nodes \ {q} : \A L : HandlerOn(n, L) => HandlerOn(n, L)'
            BY <1>1 DEF HandlerOn, NodeOf
      <2>3. runningNodes' = {} /\ runStatus' = "running"
               => \E g \in Handlers : pc'[g] \in {"readNodes", "complete"}
            <3>1. CASE runningNodes = {}
                  <4>1. runStatus = "running" => \E g \in Handlers : pc[g] \in {"readNodes", "complete"}
                        BY <1>2, <3>1 DEF Verdict, VerdictComes
                  <4>2. QED
                        BY <1>1, <4>1
            <3>2. CASE runningNodes # {}
                  BY <1>1, <3>2
            <3>3. QED
                  BY <3>1, <3>2
      <2>4. ASSUME NEW n \in Nodes
            PROVE /\ nodeStatus'[n] = "running" => HandlerOn(n, {"execute", "record"})'
                  /\ Exhausted(n)' => runStatus' = "failed" \/ HandlerOn(n, {"failRun"})'
                  /\ n \in runningNodes' /\ nodeStatus'[n] = "success"
                       => HandlerOn(n, {"children", "publish", "countRemaining"})'
            BY <1>1, <1>3, <2>1, <2>2 DEF Verdict, VerdictComes
      <2>5. QED
            BY <1>1, <2>3, <2>4 DEF Verdict, VerdictComes
<1>10. QED
      BY <1>5, <1>6, <1>8, <1>9 DEF Verdict

\* The rows decide: every node is finished, so a failed one is exhausted and
\* none is pending.
LEMMA VerdictRead ==
    ASSUME TypeInv, Verdict, UNCHANGED orchestratorVars, NEW h \in Handlers,
           CountPendingRows(h) \/ ReadNodeRuns(h)
    PROVE  Verdict'
<1>t. pc \in [Handlers -> Labels] /\ task \in [Handlers -> Tasks \cup {NoTask}] /\ task[h] \in Tasks
      BY DEF TypeInv, TypeOK, CountPendingRows, ReadNodeRuns, At
<1>0. AllFinished
      BY DEF CountPendingRows, ReadNodeRuns, At, Verdict, VerdictsAreTrue
<1>1. /\ UNCHANGED <<nodeStatus, nodeRetry, runStatus, runningNodes, opc, oroots>>
      /\ \A g \in Handlers \ {h} : pc'[g] = pc[g] /\ task'[g] = task[g]
      BY <1>t DEF CountPendingRows, ReadNodeRuns, Goto, storeVars, redisVars, orchestratorVars
<1>2. \/ pc[h] = "pendingRows" /\ pc'[h] = "readNodes"
      \/ /\ pc[h] = "readNodes" /\ pc'[h] = "complete"
         /\ task'[h].status = "success" => AllDone
         /\ task'[h].status = "failed" => SomeExhausted
      <2>1. CASE CountPendingRows(h)
            <3>1. NodesWith("pending", GetWorkflowNodeRuns) = {}
                  BY <1>0 DEF AllFinished, Finished, NodesWith, GetWorkflowNodeRuns, GetWorkflowNodeRun
            <3>2. QED
                  BY <1>t, <2>1, <3>1 DEF CountPendingRows, At, Goto
      <2>2. CASE ReadNodeRuns(h)
            <3>1. NodesWith("failed", GetWorkflowNodeRuns) = {n \in Nodes : nodeStatus[n] = "failed"}
                  BY DEF NodesWith, GetWorkflowNodeRuns, GetWorkflowNodeRun
            <3>2. pc[h] = "readNodes" /\ pc'[h] = "complete"
                  BY <1>t, <2>2 DEF ReadNodeRuns, At, Goto
            <3>3. task'[h].status = IF NodesWith("failed", GetWorkflowNodeRuns) # {}
                                    THEN "failed" ELSE "success"
                  BY <1>t, <2>2 DEF ReadNodeRuns, Tasks
            <3>4. task'[h].status = "success" => AllDone
                  BY <1>0, <3>1, <3>3 DEF AllFinished, Finished, AllDone
            <3>5. task'[h].status = "failed" => SomeExhausted
                  BY <1>0, <3>1, <3>3 DEF AllFinished, Finished, SomeExhausted, Exhausted
            <3>6. QED
                  BY <3>2, <3>4, <3>5
      <2>3. QED
            BY <2>1, <2>2
<1>3. \A n : /\ Finished(n)' <=> Finished(n)
             /\ Exhausted(n)' <=> Exhausted(n)
      BY <1>1 DEF Finished, Exhausted
<1>4. (AllDone' <=> AllDone) /\ (AllFinished' <=> AllFinished) /\ (SomeExhausted' <=> SomeExhausted)
      BY <1>1, <1>3 DEF AllDone, AllFinished, SomeExhausted
<1>5. Prepared' /\ SetIsTrue'
      BY <1>1, <1>3 DEF Verdict, Prepared, SetIsTrue
<1>6. VerdictsAreTrue'
      BY <1>0, <1>1, <1>2, <1>4 DEF Verdict, VerdictsAreTrue
<1>7. VerdictComes'
      <2>1. \A n : \A L : pc[h] \notin L /\ HandlerOn(n, L) => HandlerOn(n, L)'
            BY <1>1 DEF HandlerOn, NodeOf
      <2>2. (\E g \in Handlers : pc[g] \in {"readNodes", "complete"})
               => \E g \in Handlers : pc'[g] \in {"readNodes", "complete"}
            BY <1>1, <1>2
      <2>3. QED
            BY <1>1, <1>2, <1>3, <2>1, <2>2 DEF Verdict, VerdictComes
<1>8. QED
      BY <1>5, <1>6, <1>7 DEF Verdict

LEMMA VerdictFinalize ==
    ASSUME TypeInv, TypeInv', Single, Verdict, UNCHANGED orchestratorVars,
           NEW h \in Handlers, FinalizeRun(h)
    PROVE  Verdict'
<1>1. /\ pc[h] = "complete" /\ pc'[h] = "ack" /\ runStatus' = task[h].status
      /\ UNCHANGED <<nodeStatus, nodeRetry, runningNodes, opc, oroots, task>>
      /\ \A g \in Handlers \ {h} : pc'[g] = pc[g]
      BY DEF FinalizeRun, At, Goto, CompleteWorkflowRun, redisVars, orchestratorVars, TypeInv, TypeOK
<1>2. runStatus' \in {"success", "failed"} /\ opc \notin {"create", "initSet"}
      <2>1. task[h].status \in {"", "success", "failed"} /\ runStatus' \in RunStatuses
            BY <1>1 DEF TypeInv, TypeOK, Tasks
      <2>2. QED
            BY <1>1, <2>1 DEF RunStatuses, Single, StartFirst
<1>3. \A n : /\ Finished(n)' <=> Finished(n)
             /\ Exhausted(n)' <=> Exhausted(n)
      BY <1>1 DEF Finished, Exhausted
<1>4. (AllDone' <=> AllDone) /\ (AllFinished' <=> AllFinished) /\ (SomeExhausted' <=> SomeExhausted)
      BY <1>1, <1>3 DEF AllDone, AllFinished, SomeExhausted
<1>5. Prepared' /\ SetIsTrue'
      BY <1>1, <1>3 DEF Verdict, Prepared, SetIsTrue
<1>6. VerdictsAreTrue'
      BY <1>1, <1>2, <1>4 DEF Verdict, VerdictsAreTrue
<1>7. VerdictComes'
      <2>1. \A n : \A L : "complete" \notin L /\ HandlerOn(n, L) => HandlerOn(n, L)'
            BY <1>1 DEF HandlerOn, NodeOf
      <2>2. \A n \in Nodes : Exhausted(n) => runStatus' = "failed"
            <3>1. runStatus' = "success" => AllDone
                  BY <1>1 DEF Verdict, VerdictsAreTrue
            <3>2. QED
                  BY <1>2, <3>1 DEF AllDone, Exhausted
      <2>3. QED
            BY <1>1, <1>2, <1>3, <2>1, <2>2 DEF Verdict, VerdictComes
<1>8. QED
      BY <1>5, <1>6, <1>7 DEF Verdict

LEMMA VerdictStep ==
    ASSUME SafeForest, EveryRootLeads, FaultKinds = {},
           TypeInv, TypeInv', Remembered, Single, Verdict, [Next]_vars
    PROVE  Verdict'
<1>f. \A kind : ~Fault(kind)
      BY DEF Fault
<1>1. CASE UNCHANGED vars
      <2>1. \A g \in Handlers : StillThere(g) /\ NoNewVerdict(g)
            BY <1>1 DEF vars, handlerVars, StillThere, NoNewVerdict, NodeOf, Verdict, VerdictsAreTrue
      <2>2. QED
            BY <1>1, <2>1, VerdictFrame DEF vars, storeVars, redisVars, orchestratorVars, Verdict,
               VerdictComes
<1>2. CASE OrchestratorNext
      <2>1. OrchestratorStep /\ UNCHANGED handlerVars
            BY <1>2, <1>f DEF OrchestratorNext, OrchestratorFault, OrchestratorError,
               InitRunningSetError
      <2>2. QED
            BY <2>1, VerdictStart DEF SafeForest
<1>3. CASE Delivery
      BY <1>3, VerdictQuiet DEF Delivery
<1>4. CASE \E h \in Handlers : HandlerNext(h)
      <2>1. PICK h \in Handlers : HandlerStep(h) /\ UNCHANGED orchestratorVars
            BY <1>4 DEF HandlerNext
      <2>2. CASE \/ CheckParents(h) \/ ShouldSkipNodeTaskExecution(h) \/ ExecuteAction(h)
                 \/ ReadChildren(h) \/ PublishChild(h)
                 \/ Acknowledge(h) \/ ScheduleRetry(h) \/ GiveUp(h)
            BY <2>1, <2>2, VerdictQuiet
      <2>3. CASE MarkRunning(h)
            BY <2>1, <2>3, VerdictMarkRunning
      <2>4. CASE RecordOutcome(h)
            BY <2>1, <2>4, VerdictRecord
      <2>5. CASE FailRun(h)
            BY <2>1, <2>5, VerdictFailRun
      <2>6. CASE CountRemaining(h)
            BY <2>1, <2>6, VerdictCount
      <2>7. CASE CountPendingRows(h) \/ ReadNodeRuns(h)
            BY <2>1, <2>7, VerdictRead
      <2>8. CASE FinalizeRun(h)
            BY <2>1, <2>8, VerdictFinalize
      <2>9. ~AcquireReinitLock(h) /\ ~ReinitializeRunningNodeSet(h)
            BY DEF AcquireReinitLock, ReinitializeRunningNodeSet, At, Verdict, VerdictsAreTrue
      <2>10. QED
            BY <2>1, <2>2, <2>3, <2>4, <2>5, <2>6, <2>7, <2>8, <2>9 DEF HandlerStep
<1>5. ~ \E h \in Handlers : HandlerFaultNext(h)
      BY <1>f DEF HandlerFaultNext, HandlerFault, DbError, RedisError, PublishError,
         RetryPublishError, Crash, ChannelClosed
<1>6. CASE KeyExpiry
      <2>1. /\ UNCHANGED <<nodeStatus, nodeRetry, runStatus, runningNodes, opc, oroots, pc, task>>
            BY <1>6, <1>f DEF KeyExpiry, RunningSetLost, ReinitLockExpires, LockExpires, storeVars,
               orchestratorVars, handlerVars
      <2>2. \A g \in Handlers : StillThere(g) /\ NoNewVerdict(g)
            BY <2>1 DEF StillThere, NoNewVerdict, NodeOf, Verdict, VerdictsAreTrue
      <2>3. QED
            BY <2>1, <2>2, VerdictFrame DEF Verdict, VerdictComes
<1>7. QED
      BY <1>1, <1>2, <1>3, <1>4, <1>5, <1>6 DEF Next

-----------------------------------------------------------------------------
(* What follows from it.                                                   *)

\* A workflow without joins in which every root has a child, and no faults.
CalmForest == SafeForest /\ EveryRootLeads /\ FaultKinds = {}

LEMMA VerdictAlways ==
    ASSUME CalmForest
    PROVE  Spec => [](TypeInv /\ Remembered /\ Single /\ Verdict)
<1>1. SafeForest /\ EveryRootLeads /\ FaultKinds = {}
      BY DEF CalmForest
<1>2. Init => Verdict
      BY VerdictInit
<1>3. TypeInv /\ TypeInv' /\ Remembered /\ Single /\ Verdict /\ [Next]_vars => Verdict'
      BY <1>1, VerdictStep
<1>4. Spec => [](TypeInv /\ Remembered /\ Single)
      BY <1>1, SingleAlways
<1>5. QED
      BY <1>2, <1>3, <1>4, PTL DEF Spec

\* Only two statements write the run's row after it exists.
LEMMA VerdictWriters ==
    [Next]_vars /\ ~RowWritten
        => UNCHANGED runStatus \/ \E h \in Handlers : FailRun(h) \/ FinalizeRun(h)
<1> SUFFICES ASSUME [Next]_vars, ~RowWritten,
                    ~ \E h \in Handlers : FailRun(h) \/ FinalizeRun(h)
             PROVE  UNCHANGED runStatus
    OBVIOUS
<1>1. CASE UNCHANGED vars
      BY <1>1 DEF vars, storeVars
<1>2. CASE OrchestratorNext
      BY <1>2 DEF OrchestratorNext, OrchestratorStep, OrchestratorFault, RowWritten,
         InitRunningSet, StartRoot, PublishFirst, OrchestratorError, InitRunningSetError, storeVars
<1>3. CASE Delivery
      BY <1>3 DEF Delivery, Deliver, storeVars
<1>4. CASE \E h \in Handlers : HandlerNext(h)
      <2>1. PICK h \in Handlers : HandlerStep(h)
            BY <1>4 DEF HandlerNext
      <2>2. QED
            BY <2>1 DEF RowWritten, HandlerStep, CheckParents, ShouldSkipNodeTaskExecution,
               ExecuteAction, ReadChildren, PublishChild, CountRemaining, CountPendingRows,
               AcquireReinitLock, ReinitializeRunningNodeSet, ReadNodeRuns, Acknowledge,
               ScheduleRetry, GiveUp, storeVars
<1>5. CASE \E h \in Handlers : HandlerFaultNext(h)
      BY <1>5 DEF HandlerFaultNext, HandlerFault, DbError, RedisError, PublishError,
         RetryPublishError, Crash, ChannelClosed, storeVars
<1>6. CASE KeyExpiry
      BY <1>6 DEF KeyExpiry, RunningSetLost, ReinitLockExpires, storeVars
<1>7. QED
      BY <1>1, <1>2, <1>3, <1>4, <1>5, <1>6 DEF Next

\* The rows of such a run implement RunContract at every step: nodes are done
\* in the order of the edges and stay done, and the run gets one verdict,
\* once, that no later statement of any handler changes: success over a graph
\* that is completely done, or failed over one that never will be.
THEOREM RunsKeepContract ==
    ASSUME CalmForest
    PROVE  Spec => ImplementsContract
<1>1. Init => Contract!ContractInit
      BY DEF Init, StoreInit, Contract!ContractInit, SucceededNodes
<1>2. ASSUME TypeInv, TypeInv', Single, Verdict, [Next]_vars
      PROVE  [Contract!ContractNext]_Contract!contractVars
      <2>t. nodeStatus \in [Nodes -> NodeStatuses]
            BY <1>2 DEF TypeInv, TypeOK
      <2>1. CASE CreateRun
            <3>1. opc = "create" /\ runStatus' = "running"
                  BY <2>1 DEF CreateRun, CreateWorkflowRun
            <3>2. runStatus = "none"
                  BY <1>2, <3>1 DEF Verdict, VerdictsAreTrue
            <3>3. SucceededNodes' = Triggers
                  BY <2>1 DEF CreateRun, CreateWorkflowRun, SucceededNodes
            <3>4. QED
                  BY <3>1, <3>2, <3>3 DEF Contract!ContractNext, Contract!Begin
      <2>2. ASSUME NEW h \in Handlers, MarkRunning(h)
            PROVE  [Contract!ContractNext]_Contract!contractVars
            <3>1. nodeStatus[NodeOf(h)] # "success"
                  BY <1>2, <2>2 DEF Single, RowsMatchTasks, RowMatches, MarkRunning, At
            <3>2. nodeStatus' = [nodeStatus EXCEPT ![NodeOf(h)] = "running"] /\ UNCHANGED runStatus
                  BY <2>2 DEF MarkRunning, MarkWorkflowNodeAsRunning
            <3>3. SucceededNodes' = SucceededNodes
                  BY <2>t, <3>1, <3>2 DEF SucceededNodes
            <3>4. QED
                  BY <3>2, <3>3 DEF Contract!contractVars
      <2>3. ASSUME NEW h \in Handlers, RecordOutcome(h)
            PROVE  [Contract!ContractNext]_Contract!contractVars
            <3>1. PICK q \in Nodes : q = NodeOf(h)
                  BY <1>2, <2>3 DEF TypeInv, TypeOK, Tasks, NodeOf, RecordOutcome, At
            <3>2. nodeStatus' = [nodeStatus EXCEPT ![q] = task[h].status] /\ UNCHANGED runStatus
                  BY <2>3, <3>1 DEF RecordOutcome, UpdateWorkflowNodeRunStatus
            <3>3. nodeStatus[q] = "running" /\ pc[h] = "record"
                  BY <1>2, <2>3, <3>1 DEF Single, RowsMatchTasks, RowMatches, RecordOutcome, At
            <3>4. CASE task[h].status = "success"
                  <4>1. SucceededNodes' = SucceededNodes \cup {q} /\ q \notin SucceededNodes
                        BY <2>t, <3>2, <3>3, <3>4 DEF SucceededNodes
                  <4>2. Parents(q) \subseteq SucceededNodes
                        BY <1>2, <3>3 DEF Single, ParentsDone, Untried, SucceededNodes, Parents
                  <4>3. runStatus # "none"
                        BY <1>2, <3>3 DEF Verdict, VerdictsAreTrue, Single, StartFirst
                  <4>4. Contract!Perform(q)
                        BY <3>2, <4>1, <4>2, <4>3 DEF Contract!Perform, Contract!Parents, Parents
                  <4>5. QED
                        BY <4>4 DEF Contract!ContractNext
            <3>5. CASE task[h].status # "success"
                  <4>1. SucceededNodes' = SucceededNodes
                        BY <2>t, <3>2, <3>3, <3>5 DEF SucceededNodes
                  <4>2. QED
                        BY <3>2, <4>1 DEF Contract!contractVars
            <3>6. QED
                  BY <3>4, <3>5
      <2>4. CASE ~RowWritten
            <3>1. UNCHANGED <<nodeStatus, nodeRetry>>
                  BY <1>2, <2>4, RowWriters
            <3>2. SucceededNodes' = SucceededNodes
                  BY <3>1 DEF SucceededNodes
            <3>3. (AllDone <=> SucceededNodes = Nodes) /\ (SomeExhausted => SucceededNodes # Nodes)
                  BY DEF AllDone, SomeExhausted, Exhausted, SucceededNodes
            <3>4. ASSUME NEW h \in Handlers, FailRun(h) \/ FinalizeRun(h)
                  PROVE  \/ runStatus' = "success" /\ AllDone
                         \/ runStatus' = "failed" /\ SomeExhausted
                  <4>1. CASE FailRun(h)
                        <5>1. pc[h] = "failRun" /\ runStatus' = "failed" /\ NodeOf(h) \in Nodes
                              BY <1>2, <4>1 DEF FailRun, At, CompleteWorkflowRun, TypeInv, TypeOK,
                                 Tasks, NodeOf
                        <5>2. Exhausted(NodeOf(h))
                              BY <1>2, <5>1 DEF Single, RowsMatchTasks, RowMatches, Exhausted
                        <5>3. QED
                              BY <5>1, <5>2 DEF SomeExhausted
                  <4>2. CASE FinalizeRun(h)
                        <5>1. /\ pc[h] = "complete" /\ runStatus' = task[h].status
                              /\ runStatus' \in RunStatuses
                              /\ task[h].status \in {"", "success", "failed"}
                              BY <1>2, <4>2 DEF FinalizeRun, At, CompleteWorkflowRun, TypeInv, TypeOK,
                                 Tasks
                        <5>2. runStatus' \in {"success", "failed"}
                              BY <5>1 DEF RunStatuses
                        <5>3. QED
                              BY <1>2, <5>1, <5>2 DEF Verdict, VerdictsAreTrue
                  <4>3. QED
                        BY <3>4, <4>1, <4>2
            <3>5. ASSUME NEW h \in Handlers, FailRun(h) \/ FinalizeRun(h)
                  PROVE  runStatus \in {"running", "success", "failed"}
                  <4>1. pc[h] # "idle"
                        BY <3>5 DEF FailRun, FinalizeRun, At
                  <4>2. runStatus # "none" /\ runStatus \in RunStatuses
                        BY <1>2, <4>1 DEF Verdict, VerdictsAreTrue, Single, StartFirst, TypeInv, TypeOK
                  <4>3. QED
                        BY <4>2 DEF RunStatuses
            <3>6. /\ runStatus = "success" => SucceededNodes = Nodes
                  /\ runStatus = "failed" => SucceededNodes # Nodes
                  BY <1>2, <3>3 DEF Verdict, VerdictsAreTrue
            <3>7. CASE UNCHANGED runStatus
                  BY <3>2, <3>7 DEF Contract!contractVars
            <3>8. CASE \E h \in Handlers : FailRun(h) \/ FinalizeRun(h)
                  BY <3>2, <3>3, <3>4, <3>5, <3>6, <3>8
                  DEF Contract!contractVars, Contract!ContractNext, Contract!Succeed, Contract!Fail
            <3>9. QED
                  BY <1>2, <2>4, <3>7, <3>8, VerdictWriters
      <2>5. QED
            BY <2>1, <2>2, <2>3, <2>4 DEF RowWritten
<1>3. QED
      BY <1>1, <1>2, VerdictAlways, PTL DEF Spec, ImplementsContract, Contract!ContractSpec

\* With limits that fit and a graph without cycles, a run that has nothing
\* left to do has its verdict and it is the right one: no order of failing
\* actions, retries and counting leaves it "running" or tells a lie.
THEOREM OutcomeTrueInForests ==
    ASSUME CalmForest, RetriesFit, Acyclic
    PROVE  Spec => []OutcomeIsTrue
<1>1. ASSUME TypeInv, Remembered, Single, Verdict, NoDeadLetter, Quiescent
      PROVE  runStatus = IF SucceededNodes = Nodes THEN "success" ELSE "failed"
      <2>1. /\ opc = "done" /\ oroots = {} /\ otodo = {} /\ dlq = {}
            /\ \A h \in Handlers : pc[h] = "idle"
            BY <1>1 DEF Quiescent, Verdict, VerdictComes, Remembered, StartIsOrderly, NoDeadLetter
      <2>2. \A n \in Nodes : ~HasMessage(n)
            <3>1. ASSUME NEW n \in Nodes, NEW k \in 0..MaxRetries PROVE ~(queue[<<n, k>>] > 0)
                  <4>1. queue[<<n, k>>] = 0
                        BY <1>1 DEF Quiescent, Messages
                  <4>2. QED
                        BY <4>1
            <3>2. QED
                  BY <3>1 DEF HasMessage
      <2>3. \A n : \A L : "idle" \notin L => ~HandlerOn(n, L)
            BY <2>1 DEF HandlerOn
      <2>4. \A n \in Nodes \ Triggers : ~Ready(n)
            <3>1. \A n \in Nodes : ~Coming(n)
                  BY <2>1, <2>2, <2>3 DEF Coming
            <3>2. QED
                  BY <1>1, <3>1 DEF Remembered, ReadyIsComing
      <2>5. \A n \in Nodes : Exhausted(n) => runStatus = "failed"
            BY <1>1, <2>3 DEF Verdict, VerdictComes
      <2>6. \A n \in Nodes : nodeStatus[n] \in {"pending", "success"} \/ Exhausted(n)
            <3>1. \A n \in Nodes : nodeStatus[n] # "running"
                  BY <1>1, <2>3 DEF Verdict, VerdictComes
            <3>2. \A n \in Nodes : nodeStatus[n] # "none"
                  BY <1>1, <2>1 DEF Single, StartFirst
            <3>3. ASSUME NEW n \in Nodes, nodeStatus[n] = "failed" PROVE nodeRetry[n] = MaxRetryCount
                  <4>1. ~Underway(n) /\ n \notin dlq
                        BY <2>1, <2>2, <2>3 DEF Underway
                  <4>2. ~(nodeRetry[n] < MaxRetryCount)
                        BY <1>1, <3>3, <4>1 DEF Single, RetryOnItsWay
                  <4>3. nodeRetry[n] \in 0..MaxRetryCount
                        BY <1>1 DEF TypeInv, TypeOK
                  <4>4. QED
                        BY <4>2, <4>3
            <3>4. \A n \in Nodes : nodeStatus[n] \in NodeStatuses
                  BY <1>1 DEF TypeInv, TypeOK
            <3>5. QED
                  BY <3>1, <3>2, <3>3, <3>4 DEF NodeStatuses, Exhausted
      <2>7. CASE SucceededNodes = Nodes
            <3>1. AllDone /\ ~SomeExhausted
                  BY <2>7 DEF SucceededNodes, AllDone, SomeExhausted, Exhausted
            <3>2. runStatus \notin {"failed", "none"}
                  BY <1>1, <2>1, <3>1 DEF Verdict, VerdictsAreTrue
            <3>3. runningNodes = {}
                  BY <1>1, <2>3, <3>1 DEF AllDone, Verdict, VerdictComes, SetIsTrue
            <3>4. runStatus # "running"
                  BY <1>1, <2>1, <3>3 DEF Verdict, VerdictComes
            <3>5. runStatus \in RunStatuses
                  BY <1>1 DEF TypeInv, TypeOK
            <3>6. QED
                  BY <2>7, <3>2, <3>4, <3>5 DEF RunStatuses
      <2>8. CASE SucceededNodes # Nodes
            <3>1. CASE SomeExhausted
                  BY <2>5, <2>8, <3>1 DEF SomeExhausted
            <3>2. CASE ~SomeExhausted
                  <4> DEFINE S == {n \in Nodes : nodeStatus[n] = "pending"}
                  <4>1. S # {}
                        BY <2>6, <2>8, <3>2 DEF SucceededNodes, SomeExhausted
                  <4>2. PICK n \in S : Parents(n) \cap S = {}
                        BY <4>1 DEF Acyclic
                  <4>3. \A p \in Parents(n) : nodeStatus[p] = "success"
                        BY <2>6, <3>2, <4>2 DEF SomeExhausted, Parents
                  <4>4. Ready(n)
                        BY <4>2, <4>3 DEF Ready
                  <4>5. n \notin Triggers
                        BY <1>1, <4>2 DEF Verdict, Prepared
                  <4>6. QED
                        BY <2>4, <4>4, <4>5
            <3>3. QED
                  BY <3>1, <3>2
      <2>9. QED
            BY <2>7, <2>8
<1>2. TypeInv /\ Remembered /\ Single /\ Verdict /\ NoDeadLetter => OutcomeIsTrue
      BY <1>1 DEF OutcomeIsTrue
<1>3. Spec => []NoDeadLetter
      BY NoDeadLetterInForests DEF CalmForest
<1>4. QED
      BY <1>2, <1>3, VerdictAlways, PTL
=============================================================================
