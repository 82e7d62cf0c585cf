---------------------- MODULE WorkflowExecutionProofs ----------------------
(***************************************************************************)
(* Proofs about WorkflowExecution, for every workflow graph, any number of *)
(* handlers, any retry limits and any faults: the types, the order of the  *)
(* nodes, and, where no handler is cut short, that no node is forgotten.   *)
(***************************************************************************)
EXTENDS WorkflowExecution, TLAPS

\* What a handler's locals hold at the steps that store them: an attempt is
\* left when one is about to start, and the outcome is known when it is
\* written to a row.
LocalsReady ==
    \A h \in Handlers :
        /\ pc[h] = "markRunning" => task[h].retryCount < MaxRetryCount
        /\ pc[h] \in {"record", "complete"} => task[h].status \in {"success", "failed"}

TypeInv == TypeOK /\ LocalsReady

USE GraphAssumption, MaxRetriesAssumption, MaxRetryCountAssumption, FaultAssumption

\* What the row-returning reads give, in terms of the tables.
LEMMA ParentRows ==
    ASSUME NEW n \in Nodes
    PROVE  LET rows == GetParentWorkflowNodeRuns(n)
           IN  NodesWith("success", rows) = DOMAIN rows
                   <=> \A p \in Parents(n) : nodeStatus[p] = "success"
BY DEF GetParentWorkflowNodeRuns, GetWorkflowNodeRun, NodesWith

LEMMA ChildRows ==
    ASSUME NEW n \in Nodes
    PROVE  NodesWith("pending", GetChildWorkflowNodeRuns(n)) \subseteq Nodes
BY DEF GetChildWorkflowNodeRuns, Children, NodesWith

LEMMA RunRows == NodesWith("pending", GetWorkflowNodeRuns) \subseteq Nodes
BY DEF GetWorkflowNodeRuns, NodesWith

LEMMA EnqueueRows ==
    ASSUME NEW n \in Nodes
    PROVE  NodesToEnqueue(n) \subseteq Nodes
BY ChildRows DEF NodesToEnqueue

-----------------------------------------------------------------------------
(* Type correctness.                                                       *)

LEMMA TypeInit == Init => TypeInv
<1> SUFFICES ASSUME Init PROVE TypeInv
    OBVIOUS
<1>1. finalizeLock \in BOOLEAN
      BY DEF Init, RedisInit
<1>2. faults \in 0..MaxFaults
      BY DEF Init, FaultInit
<1>3. queue \in [Messages -> Nat] /\ dlq \subseteq Nodes
      BY DEF Init, BrokerInit
<1>4. runningNodes \subseteq Nodes
      BY DEF Init, RedisInit
<1>5. /\ runStatus \in RunStatuses
      /\ nodeStatus \in [Nodes -> NodeStatuses]
      /\ nodeRetry \in [Nodes -> 0..MaxRetryCount]
      BY DEF Init, StoreInit, RunStatuses, NodeStatuses
<1>6. opc \in OrchestratorLabels /\ oroots \subseteq Nodes /\ otodo \subseteq Nodes
      BY DEF Init, OrchestratorInit, OrchestratorLabels, GetRootNodes
<1>7. /\ pc \in [Handlers -> Labels]
      /\ task \in [Handlers -> Tasks \cup {NoTask}]
      /\ \A h \in Handlers : pc[h] = "idle"
      /\ executed \subseteq Nodes
      BY DEF Init, HandlersInit, Labels
<1>8. QED
      BY <1>1, <1>2, <1>3, <1>4, <1>5, <1>6, <1>7 DEF TypeInv, TypeOK, LocalsReady

LEMMA TypeOrchestrator == TypeInv /\ OrchestratorNext => TypeInv'
<1> SUFFICES ASSUME TypeInv, OrchestratorNext PROVE TypeInv'
    OBVIOUS
<1> USE DEF TypeInv, TypeOK, LocalsReady, OrchestratorLabels, handlerVars
<1>1. CASE CreateRun
      BY <1>1 DEF OrchestratorNext, CreateRun, CreateWorkflowRun, redisVars, brokerVars,
                  RunStatuses, NodeStatuses
<1>2. CASE InitRunningSet
      BY <1>2 DEF OrchestratorNext, InitRunningSet, InitializeRunningNodeSet, storeVars, brokerVars
<1>3. CASE StartRoot
      <2>1. PICK root \in oroots : oroots' = oroots \ {root} /\ otodo' = NodesToEnqueue(root)
            BY <1>3 DEF StartRoot
      <2>2. oroots' \subseteq Nodes /\ otodo' \subseteq Nodes
            BY <2>1, EnqueueRows
      <2>3. opc' \in OrchestratorLabels
            BY <1>3 DEF StartRoot
      <2>4. QED
            BY <1>3, <2>2, <2>3 DEF OrchestratorNext, StartRoot, storeVars, redisVars, brokerVars
<1>4. CASE PublishFirst
      BY <1>4 DEF OrchestratorNext, PublishFirst, Publish, Messages, storeVars, redisVars
<1>5. CASE OrchestratorFault
      BY <1>5 DEF OrchestratorNext, OrchestratorFault, OrchestratorError, InitRunningSetError,
                  Fault, storeVars, redisVars, brokerVars
<1>6. QED
      BY <1>1, <1>2, <1>3, <1>4, <1>5 DEF OrchestratorNext, OrchestratorStep

\* The handlers' part of the type invariant, and what keeps it.
TypeHandlers ==
    /\ pc \in [Handlers -> Labels]
    /\ task \in [Handlers -> Tasks \cup {NoTask}]
    /\ \A h \in Handlers : pc[h] # "idle" => task[h] \in Tasks
    /\ LocalsReady

LEMMA HandlerUpdate ==
    ASSUME TypeHandlers, NEW h \in Handlers, NEW t \in Tasks, NEW label \in Labels,
           label = "markRunning" => t.retryCount < MaxRetryCount,
           label \in {"record", "complete"} => t.status \in {"success", "failed"},
           task' = [task EXCEPT ![h] = t],
           Goto(h, label)
    PROVE  TypeHandlers'
BY DEF TypeHandlers, LocalsReady, Goto

LEMMA HandlerGoto ==
    ASSUME TypeHandlers, NEW h \in Handlers, pc[h] # "idle", NEW label \in Labels,
           label \notin {"markRunning", "record", "complete"}, UNCHANGED task, Goto(h, label)
    PROVE  TypeHandlers'
BY DEF TypeHandlers, LocalsReady, Goto

LEMMA HandlerRelease ==
    ASSUME TypeHandlers, NEW h \in Handlers, Release(h)
    PROVE  TypeHandlers'
BY DEF TypeHandlers, LocalsReady, Release, Goto, Labels

\* The queue's part: adding a copy of a message.
LEMMA QueueAdd ==
    ASSUME queue \in [Messages -> Nat], NEW m \in Messages,
           queue' = [queue EXCEPT ![m] = @ + 1]
    PROVE  queue' \in [Messages -> Nat]
<1>1. queue[m] + 1 \in Nat
      OBVIOUS
<1>2. QED
      BY <1>1

LEMMA QueuePublish ==
    ASSUME queue \in [Messages -> Nat], NEW n \in Nodes, Publish(n)
    PROVE  queue' \in [Messages -> Nat]
<1>1. <<n, 0>> \in Messages
      BY DEF Messages
<1>2. QED
      BY <1>1, QueueAdd DEF Publish

LEMMA TypeDelivery == TypeInv /\ Delivery => TypeInv'
<1> SUFFICES ASSUME TypeInv, Delivery PROVE TypeInv'
    OBVIOUS
<1>1. PICK h \in Handlers, m \in Messages : Deliver(h, m)
      BY DEF Delivery
<1>2. queue' \in [Messages -> Nat]
      <2>1. queue[m] \in Nat /\ queue[m] > 0
            BY <1>1 DEF Deliver, Dequeue, TypeInv, TypeOK
      <2>2. queue[m] - 1 \in Nat
            BY <2>1
      <2>3. QED
            BY <1>1, <2>2 DEF Deliver, Dequeue, TypeInv, TypeOK
<1>3. TypeHandlers'
      <2> DEFINE n == m[1]
                 k == m[2]
                 t == [node |-> n, header |-> k, retryCount |-> 0,
                       status |-> "", todo |-> {}, held |-> TRUE]
      <2>1. n \in Nodes /\ k \in 0..MaxRetries /\ 0 \in 0..MaxRetryCount
            BY DEF Messages
      <2>2. task' = [task EXCEPT ![h] = t] /\ Goto(h, "parents")
            BY <1>1 DEF Deliver
      <2> HIDE DEF n, k
      <2>3. t \in Tasks
            BY <2>1 DEF Tasks
      <2> HIDE DEF t
      <2>4. TypeHandlers /\ "parents" \in Labels
            BY DEF TypeHandlers, TypeInv, TypeOK, Labels
      <2>5. QED
            BY <2>2, <2>3, <2>4, HandlerUpdate
<1>4. QED
      BY <1>1, <1>2, <1>3 DEF Delivery, Deliver, Dequeue, TypeHandlers, TypeInv, TypeOK,
         storeVars, redisVars, orchestratorVars

\* Executing a node: from the parents check to the stored outcome.
LEMMA TypeExecution ==
    ASSUME TypeInv, NEW h \in Handlers, UNCHANGED orchestratorVars,
           \/ CheckParents(h) \/ ShouldSkipNodeTaskExecution(h) \/ MarkRunning(h)
           \/ ExecuteAction(h) \/ RecordOutcome(h) \/ FailRun(h)
    PROVE  TypeInv'
<1> USE DEF At, NodeOf, orchestratorVars
<1>0. pc[h] # "idle" /\ task[h] \in Tasks /\ NodeOf(h) \in Nodes /\ TypeHandlers
      BY DEF TypeHandlers, TypeInv, TypeOK, Tasks, CheckParents, ShouldSkipNodeTaskExecution,
             MarkRunning, ExecuteAction, RecordOutcome, FailRun
<1>1. CASE CheckParents(h)
      <2>1. PICK label \in {"skipCheck", "ack"} : Goto(h, label)
            BY <1>1 DEF CheckParents
      <2>2. TypeHandlers'
            BY <1>0, <1>1, <2>1, HandlerGoto DEF CheckParents, Labels
      <2>3. QED
            BY <1>1, <2>2 DEF CheckParents, TypeHandlers, TypeInv, TypeOK,
               storeVars, redisVars, brokerVars
<1>2. CASE ShouldSkipNodeTaskExecution(h)
      <2> DEFINE row == GetWorkflowNodeRun(NodeOf(h))
                 t == [task[h] EXCEPT !.retryCount = row.retryCount]
      <2>1. row.retryCount \in 0..MaxRetryCount
            BY <1>0 DEF GetWorkflowNodeRun, TypeInv, TypeOK
      <2>2. t \in Tasks /\ t.retryCount = row.retryCount
            BY <1>0, <2>1 DEF Tasks
      <2>3. PICK label \in {"children", "markRunning"} :
                 Goto(h, label) /\ (label = "markRunning" => row.retryCount < MaxRetryCount)
            BY <1>2, <2>1 DEF ShouldSkipNodeTaskExecution
      <2>4. task' = [task EXCEPT ![h] = t]
            BY <1>2 DEF ShouldSkipNodeTaskExecution
      <2>5. TypeHandlers'
            <3> HIDE DEF t, row
            <3> QED BY <1>0, <2>2, <2>3, <2>4, HandlerUpdate DEF Labels
      <2>6. QED
            BY <1>2, <2>5 DEF ShouldSkipNodeTaskExecution, TypeHandlers, TypeInv, TypeOK,
               storeVars, redisVars, brokerVars
<1>3. CASE MarkRunning(h)
      <2> DEFINE attempt == task[h].retryCount + 1
                 t == [task[h] EXCEPT !.retryCount = attempt]
      <2>1. attempt \in 0..MaxRetryCount
            <3>1. task[h].retryCount \in 0..MaxRetryCount
                  BY <1>0 DEF Tasks
            <3>2. task[h].retryCount < MaxRetryCount
                  BY <1>0, <1>3 DEF MarkRunning, TypeHandlers, LocalsReady
            <3>3. QED
                  BY <3>1, <3>2
      <2>2. t \in Tasks
            BY <1>0, <2>1 DEF Tasks
      <2>3. task' = [task EXCEPT ![h] = t] /\ Goto(h, "execute")
            BY <1>3 DEF MarkRunning
      <2>4. TypeHandlers'
            <3> HIDE DEF t, attempt
            <3> QED BY <1>0, <2>2, <2>3, HandlerUpdate DEF Labels
      <2>5. nodeStatus' \in [Nodes -> NodeStatuses] /\ nodeRetry' \in [Nodes -> 0..MaxRetryCount]
            BY <1>0, <1>3, <2>1 DEF MarkRunning, MarkWorkflowNodeAsRunning, NodeStatuses,
               TypeInv, TypeOK
      <2>6. QED
            BY <1>3, <2>4, <2>5 DEF MarkRunning, MarkWorkflowNodeAsRunning, TypeHandlers,
               TypeInv, TypeOK, redisVars, brokerVars
<1>4. CASE ExecuteAction(h)
      <2>1. PICK outcome \in {"success", "failed"} :
                 /\ task' = [task EXCEPT ![h] = [task[h] EXCEPT !.status = outcome]]
                 /\ executed' = IF outcome = "success" THEN executed \cup {NodeOf(h)} ELSE executed
            BY <1>4 DEF ExecuteAction
      <2>2. /\ [task[h] EXCEPT !.status = outcome] \in Tasks
            /\ [task[h] EXCEPT !.status = outcome].status = outcome
            BY <1>0 DEF Tasks
      <2>3. TypeHandlers'
            BY <1>0, <1>4, <2>1, <2>2, HandlerUpdate DEF ExecuteAction, Labels
      <2>4. executed' \subseteq Nodes
            BY <1>0, <2>1 DEF TypeInv, TypeOK
      <2>5. QED
            BY <1>4, <2>3, <2>4 DEF ExecuteAction, TypeHandlers, TypeInv, TypeOK,
               storeVars, redisVars, brokerVars
<1>5. CASE RecordOutcome(h)
      <2>1. PICK label \in {"children", "failRun", "failed"} : Goto(h, label)
            BY <1>5 DEF RecordOutcome
      <2>2. TypeHandlers'
            BY <1>0, <1>5, <2>1, HandlerGoto DEF RecordOutcome, Labels
      <2>3. task[h].status \in {"success", "failed"}
            BY <1>0, <1>5 DEF RecordOutcome, TypeHandlers, LocalsReady
      <2>4. nodeStatus' \in [Nodes -> NodeStatuses]
            BY <1>0, <1>5, <2>3 DEF RecordOutcome, UpdateWorkflowNodeRunStatus, NodeStatuses,
               TypeInv, TypeOK
      <2>5. QED
            BY <1>5, <2>2, <2>4 DEF RecordOutcome, UpdateWorkflowNodeRunStatus, TypeHandlers,
               TypeInv, TypeOK, redisVars, brokerVars
<1>6. CASE FailRun(h)
      <2>1. TypeHandlers'
            BY <1>0, <1>6, HandlerGoto DEF FailRun, Labels
      <2>2. QED
            BY <1>6, <2>1 DEF FailRun, CompleteWorkflowRun, RunStatuses, TypeHandlers,
               TypeInv, TypeOK, redisVars, brokerVars
<1>7. QED
      BY <1>1, <1>2, <1>3, <1>4, <1>5, <1>6

\* After the execution: children, counting, finalization.
LEMMA TypeFollowUp ==
    ASSUME TypeInv, NEW h \in Handlers, UNCHANGED orchestratorVars,
           \/ ReadChildren(h) \/ PublishChild(h) \/ CountRemaining(h) \/ CountPendingRows(h)
           \/ AcquireReinitLock(h) \/ ReinitializeRunningNodeSet(h)
           \/ ReadNodeRuns(h) \/ FinalizeRun(h)
    PROVE  TypeInv'
<1> USE DEF At, NodeOf, orchestratorVars
<1>0. pc[h] # "idle" /\ task[h] \in Tasks /\ NodeOf(h) \in Nodes /\ task[h].todo \subseteq Nodes
      /\ TypeHandlers
      BY DEF TypeHandlers, TypeInv, TypeOK, Tasks, ReadChildren, PublishChild, CountRemaining,
             CountPendingRows, AcquireReinitLock, ReinitializeRunningNodeSet, ReadNodeRuns,
             FinalizeRun
<1>1. CASE ReadChildren(h)
      <2> DEFINE pending == NodesWith("pending", GetChildWorkflowNodeRuns(NodeOf(h)))
                 t == [task[h] EXCEPT !.todo = pending]
      <2>1. t \in Tasks
            BY <1>0, ChildRows DEF Tasks
      <2>2. PICK label \in {"countRemaining", "publish"} : Goto(h, label)
            BY <1>1 DEF ReadChildren
      <2>3. task' = [task EXCEPT ![h] = t]
            BY <1>1 DEF ReadChildren
      <2>4. TypeHandlers'
            <3> HIDE DEF t
            <3> QED BY <1>0, <2>1, <2>2, <2>3, HandlerUpdate DEF Labels
      <2>5. QED
            BY <1>1, <2>4 DEF ReadChildren, TypeHandlers, TypeInv, TypeOK,
               storeVars, redisVars, brokerVars
<1>2. CASE PublishChild(h)
      <2>1. PICK c \in task[h].todo :
                 /\ Publish(c)
                 /\ task' = [task EXCEPT ![h] = [task[h] EXCEPT !.todo = @ \ {c}]]
                 /\ \E label \in {"countRemaining", "publish"} : Goto(h, label)
            BY <1>2 DEF PublishChild
      <2> DEFINE t == [task[h] EXCEPT !.todo = @ \ {c}]
      <2>2. t \in Tasks
            BY <1>0 DEF Tasks
      <2>3. TypeHandlers'
            <3> HIDE DEF t
            <3>1. task' = [task EXCEPT ![h] = t]
                  BY <2>1 DEF t
            <3>2. PICK label \in {"countRemaining", "publish"} : Goto(h, label)
                  BY <2>1
            <3> QED BY <1>0, <2>2, <3>1, <3>2, HandlerUpdate DEF Labels
      <2>4. queue' \in [Messages -> Nat]
            BY <1>0, <2>1, QueuePublish DEF TypeInv, TypeOK
      <2>5. QED
            BY <1>2, <2>1, <2>3, <2>4 DEF PublishChild, Publish, TypeHandlers, TypeInv, TypeOK,
               storeVars, redisVars
<1>3. CASE CountRemaining(h)
      <2>1. PICK label \in {"pendingRows", "readNodes", "ack"} : Goto(h, label)
            BY <1>3 DEF CountRemaining
      <2>2. TypeHandlers'
            BY <1>0, <1>3, <2>1, HandlerGoto DEF CountRemaining, Labels
      <2>3. QED
            BY <1>3, <2>2 DEF CountRemaining, RemoveNode, TypeHandlers, TypeInv, TypeOK,
               storeVars, brokerVars
<1>4. CASE CountPendingRows(h)
      <2> DEFINE pending == NodesWith("pending", GetWorkflowNodeRuns)
                 t == [task[h] EXCEPT !.todo = pending]
      <2>1. t \in Tasks
            BY <1>0, RunRows DEF Tasks
      <2>2. PICK label \in {"readNodes", "reinitLock"} : Goto(h, label)
            BY <1>4 DEF CountPendingRows
      <2>3. task' = [task EXCEPT ![h] = t]
            BY <1>4 DEF CountPendingRows
      <2>4. TypeHandlers'
            <3> HIDE DEF t
            <3> QED BY <1>0, <2>1, <2>2, <2>3, HandlerUpdate DEF Labels
      <2>5. QED
            BY <1>4, <2>4 DEF CountPendingRows, TypeHandlers, TypeInv, TypeOK,
               storeVars, redisVars, brokerVars
<1>5. CASE AcquireReinitLock(h)
      <2>1. PICK label \in {"reinitSet", "ack"} : Goto(h, label)
            BY <1>5 DEF AcquireReinitLock
      <2>2. TypeHandlers'
            BY <1>0, <1>5, <2>1, HandlerGoto DEF AcquireReinitLock, Labels
      <2>3. finalizeLock' \in BOOLEAN /\ runningNodes' \subseteq Nodes
            BY <1>5 DEF AcquireReinitLock, TryAcquireWorkflowRunFinalizationLock, redisVars,
               TypeInv, TypeOK
      <2>4. QED
            BY <1>5, <2>2, <2>3 DEF AcquireReinitLock, TypeHandlers, TypeInv, TypeOK,
               storeVars, brokerVars
<1>6. CASE ReinitializeRunningNodeSet(h)
      <2>1. TypeHandlers'
            BY <1>0, <1>6, HandlerGoto DEF ReinitializeRunningNodeSet, Labels
      <2>2. QED
            BY <1>0, <1>6, <2>1 DEF ReinitializeRunningNodeSet, InitializeRunningNodeSet,
               TypeHandlers, TypeInv, TypeOK, storeVars, brokerVars
<1>7. CASE ReadNodeRuns(h)
      <2>1. PICK outcome \in {"success", "failed"} :
                 task' = [task EXCEPT ![h] = [task[h] EXCEPT !.status = outcome]]
            BY <1>7 DEF ReadNodeRuns
      <2>2. /\ [task[h] EXCEPT !.status = outcome] \in Tasks
            /\ [task[h] EXCEPT !.status = outcome].status = outcome
            BY <1>0 DEF Tasks
      <2>3. TypeHandlers'
            BY <1>0, <1>7, <2>1, <2>2, HandlerUpdate DEF ReadNodeRuns, Labels
      <2>4. QED
            BY <1>7, <2>3 DEF ReadNodeRuns, TypeHandlers, TypeInv, TypeOK,
               storeVars, redisVars, brokerVars
<1>8. CASE FinalizeRun(h)
      <2>1. TypeHandlers'
            BY <1>0, <1>8, HandlerGoto DEF FinalizeRun, Labels
      <2>2. task[h].status \in {"success", "failed"}
            BY <1>0, <1>8 DEF FinalizeRun, TypeHandlers, LocalsReady
      <2>3. QED
            BY <1>8, <2>1, <2>2 DEF FinalizeRun, CompleteWorkflowRun, RunStatuses, TypeHandlers,
               TypeInv, TypeOK, redisVars, brokerVars
<1>9. QED
      BY <1>1, <1>2, <1>3, <1>4, <1>5, <1>6, <1>7, <1>8

\* Giving the delivery back: acknowledge, retry, dead-letter.
LEMMA TypeSettle ==
    ASSUME TypeInv, NEW h \in Handlers, UNCHANGED orchestratorVars,
           Acknowledge(h) \/ ScheduleRetry(h) \/ GiveUp(h)
    PROVE  TypeInv'
<1> USE DEF At, NodeOf, orchestratorVars
<1>0. pc[h] # "idle" /\ task[h] \in Tasks /\ NodeOf(h) \in Nodes
      /\ task[h].header \in 0..MaxRetries /\ TypeHandlers
      BY DEF TypeHandlers, TypeInv, TypeOK, Tasks, Acknowledge, ScheduleRetry, GiveUp
<1>1. CASE Acknowledge(h)
      BY <1>0, <1>1, HandlerRelease DEF Acknowledge, TypeHandlers, TypeInv, TypeOK,
         storeVars, redisVars, brokerVars
<1>2. CASE ScheduleRetry(h)
      <2> DEFINE m == <<NodeOf(h), task[h].header + 1>>
      <2>1. task[h].header + 1 \in 0..MaxRetries
            BY <1>0, <1>2 DEF ScheduleRetry, PublishRetry
      <2>2. m \in Messages
            BY <1>0, <2>1 DEF Messages
      <2>3. queue' = [queue EXCEPT ![m] = @ + 1]
            BY <1>2 DEF ScheduleRetry, PublishRetry
      <2>4. queue' \in [Messages -> Nat]
            <3> HIDE DEF m
            <3> QED BY <2>2, <2>3, QueueAdd DEF TypeInv, TypeOK
      <2>5. TypeHandlers'
            BY <1>0, <1>2, HandlerGoto DEF ScheduleRetry, Labels
      <2>6. QED
            BY <1>2, <2>4, <2>5 DEF ScheduleRetry, PublishRetry, TypeHandlers, TypeInv, TypeOK,
               storeVars, redisVars
<1>3. CASE GiveUp(h)
      <2>1. TypeHandlers'
            BY <1>0, <1>3, HandlerRelease DEF GiveUp
      <2>2. dlq' \subseteq Nodes
            BY <1>0, <1>3 DEF GiveUp, DeadLetter, TypeInv, TypeOK
      <2>3. QED
            BY <1>3, <2>1, <2>2 DEF GiveUp, DeadLetter, TypeHandlers, TypeInv, TypeOK,
               storeVars, redisVars
<1>4. QED
      BY <1>1, <1>2, <1>3

LEMMA TypeFault ==
    ASSUME TypeInv, NEW h \in Handlers, HandlerFaultNext(h)
    PROVE  TypeInv'
<1> USE DEF At, NodeOf, orchestratorVars
<1>0. pc[h] # "idle" /\ task[h] \in Tasks /\ NodeOf(h) \in Nodes
      /\ task[h].header \in 0..MaxRetries /\ TypeHandlers
      BY DEF TypeHandlers, TypeInv, TypeOK, Tasks, HandlerFaultNext, HandlerFault, DbError,
             DbLabels, RedisError, PublishError, RetryPublishError, Crash, ChannelClosed
<1>a. faults' \in 0..MaxFaults
      BY DEF HandlerFaultNext, HandlerFault, DbError, RedisError, PublishError,
             RetryPublishError, Crash, ChannelClosed, Fault, TypeInv, TypeOK
<1>b. UNCHANGED orchestratorVars
      BY DEF HandlerFaultNext
<1>c. <<NodeOf(h), task[h].header>> \in Messages
      BY <1>0 DEF Messages
<1>1. CASE DbError(h) \/ PublishError(h)
      <2>1. TypeHandlers'
            BY <1>0, <1>1, HandlerGoto DEF DbError, PublishError, Labels
      <2>2. QED
            BY <1>1, <1>a, <1>b, <2>1 DEF DbError, PublishError, TypeHandlers, TypeInv, TypeOK,
               storeVars, redisVars, brokerVars
<1>2. CASE RedisError(h)
      <2>1. PICK label \in {"pendingRows", "ack"} : Goto(h, label)
            BY <1>2 DEF RedisError
      <2>2. TypeHandlers'
            BY <1>0, <1>2, <2>1, HandlerGoto DEF RedisError, Labels
      <2>3. QED
            BY <1>2, <1>a, <1>b, <2>2 DEF RedisError, TypeHandlers, TypeInv, TypeOK,
               storeVars, redisVars, brokerVars
<1>3. CASE RetryPublishError(h)
      <2>1. TypeHandlers'
            BY <1>0, <1>3, HandlerRelease DEF RetryPublishError
      <2>2. dlq' \subseteq Nodes
            BY <1>0, <1>3 DEF RetryPublishError, DeadLetter, TypeInv, TypeOK
      <2>3. QED
            BY <1>3, <1>a, <1>b, <2>1, <2>2 DEF RetryPublishError, DeadLetter, TypeHandlers,
               TypeInv, TypeOK, storeVars, redisVars
<1>4. CASE Crash(h)
      <2>1. TypeHandlers'
            BY <1>0, <1>4, HandlerRelease DEF Crash
      <2>2. queue' \in [Messages -> Nat] /\ dlq' \subseteq Nodes
            <3>1. CASE task[h].held
                  BY <1>4, <1>c, <3>1, QueueAdd DEF Crash, Requeue, TypeInv, TypeOK
            <3>2. CASE ~task[h].held
                  BY <1>4, <3>2 DEF Crash, brokerVars, TypeInv, TypeOK
            <3>3. QED
                  BY <3>1, <3>2
      <2>3. QED
            BY <1>4, <1>a, <1>b, <2>1, <2>2 DEF Crash, TypeHandlers, TypeInv, TypeOK,
               storeVars, redisVars
<1>5. CASE ChannelClosed(h)
      <2> DEFINE t == [task[h] EXCEPT !.held = FALSE]
      <2>1. t \in Tasks /\ t.retryCount = task[h].retryCount /\ t.status = task[h].status
            BY <1>0 DEF Tasks
      <2>2. task' = [task EXCEPT ![h] = t] /\ UNCHANGED pc
            BY <1>5 DEF ChannelClosed
      <2>3. TypeHandlers'
            <3> HIDE DEF t
            <3> QED BY <1>0, <2>1, <2>2 DEF TypeHandlers, LocalsReady
      <2>4. queue' \in [Messages -> Nat] /\ dlq' \subseteq Nodes
            BY <1>5, <1>c, QueueAdd DEF ChannelClosed, Requeue, TypeInv, TypeOK
      <2>5. QED
            BY <1>5, <1>a, <1>b, <2>3, <2>4 DEF ChannelClosed, TypeHandlers, TypeInv, TypeOK,
               storeVars, redisVars
<1>6. QED
      BY <1>1, <1>2, <1>3, <1>4, <1>5 DEF HandlerFaultNext, HandlerFault

LEMMA TypeExpiry == TypeInv /\ KeyExpiry => TypeInv'
<1> SUFFICES ASSUME TypeInv, KeyExpiry PROVE TypeInv'
    OBVIOUS
<1> USE DEF TypeInv, TypeOK, LocalsReady, handlerVars, orchestratorVars, storeVars, brokerVars
<1>1. CASE RunningSetLost
      BY <1>1 DEF KeyExpiry, RunningSetLost, RunningSetExpires, Fault
<1>2. CASE ReinitLockExpires
      BY <1>2 DEF KeyExpiry, ReinitLockExpires, LockExpires
<1>3. QED
      BY <1>1, <1>2 DEF KeyExpiry

LEMMA TypeStep == TypeInv /\ [Next]_vars => TypeInv'
<1> SUFFICES ASSUME TypeInv, [Next]_vars PROVE TypeInv'
    OBVIOUS
<1>1. CASE UNCHANGED vars
      BY <1>1 DEF vars, storeVars, redisVars, brokerVars, orchestratorVars, handlerVars,
                  TypeInv, TypeOK, LocalsReady
<1>2. CASE OrchestratorNext
      BY <1>2, TypeOrchestrator
<1>3. CASE Delivery
      BY <1>3, TypeDelivery
<1>4. CASE \E h \in Handlers : HandlerNext(h)
      <2>1. PICK h \in Handlers : HandlerNext(h)
            BY <1>4
      <2>2. QED
            BY <2>1, TypeExecution, TypeFollowUp, TypeSettle DEF HandlerNext, HandlerStep
<1>5. CASE \E h \in Handlers : HandlerFaultNext(h)
      BY <1>5, TypeFault
<1>6. CASE KeyExpiry
      BY <1>6, TypeExpiry
<1>7. QED
      BY <1>1, <1>2, <1>3, <1>4, <1>5, <1>6 DEF Next

\* Every variable keeps its type: rows hold the statuses the schema's CHECK
\* constraints admit, no retry_count passes the limit, no message carries a
\* header beyond maxRetries, and a handler past its delivery has a task.
THEOREM TypeCorrect == Spec => []TypeOK
<1>1. TypeInv => TypeOK
      BY DEF TypeInv
<1>2. QED
      BY TypeInit, TypeStep, <1>1, PTL DEF Spec

-----------------------------------------------------------------------------
(* The dataflow order.  ParentsFirst alone is not inductive: a handler acts *)
(* on a check it made several steps earlier.  The invariant adds what that  *)
(* check established and why it stays true: a row says success only of an   *)
(* action that ran, and no step takes a node out of executed.               *)

Succeeded == executed \cup Triggers

ClearedLabels == {"skipCheck", "markRunning", "execute", "record"}

RowsAreTrue == \A n \in Nodes : nodeStatus[n] = "success" => n \in Succeeded

ClearedToRun ==
    \A h \in Handlers : pc[h] \in ClearedLabels => Parents(NodeOf(h)) \subseteq Succeeded

OutcomesAreTrue ==
    \A h \in Handlers : pc[h] = "record" /\ task[h].status = "success" => NodeOf(h) \in executed

Dataflow == RowsAreTrue /\ ClearedToRun /\ OutcomesAreTrue /\ ParentsFirst

LEMMA DataflowInit == Init => Dataflow
BY DEF Init, StoreInit, HandlersInit, Dataflow, RowsAreTrue, ClearedToRun, OutcomesAreTrue,
       ParentsFirst, ClearedLabels

\* Steps that touch neither the node rows nor the actions, and bring no
\* handler past the parents check.
LEMMA DataflowFrame ==
    ASSUME Dataflow, UNCHANGED <<nodeStatus, executed>>,
           \A g \in Handlers : pc'[g] \in ClearedLabels =>
               pc'[g] = pc[g] /\ task'[g].node = task[g].node /\ task'[g].status = task[g].status
    PROVE  Dataflow'
BY DEF Dataflow, RowsAreTrue, ClearedToRun, OutcomesAreTrue, ParentsFirst, Succeeded,
       ClearedLabels, NodeOf

LEMMA DataflowExecution ==
    ASSUME TypeInv, Dataflow, NEW h \in Handlers,
           \/ CheckParents(h) \/ ShouldSkipNodeTaskExecution(h) \/ MarkRunning(h)
           \/ ExecuteAction(h) \/ RecordOutcome(h)
    PROVE  Dataflow'
<1>0. pc[h] # "idle" /\ task[h] \in Tasks /\ NodeOf(h) \in Nodes
      BY DEF TypeInv, TypeOK, Tasks, NodeOf, At, CheckParents, ShouldSkipNodeTaskExecution,
             MarkRunning, ExecuteAction, RecordOutcome
<1>t. /\ pc \in [Handlers -> Labels] /\ task \in [Handlers -> Tasks \cup {NoTask}]
      /\ nodeStatus \in [Nodes -> NodeStatuses] /\ executed \subseteq Nodes
      BY DEF TypeInv, TypeOK
<1>1. CASE CheckParents(h)
      <2>1. pc'[h] = "skipCheck" => Parents(NodeOf(h)) \subseteq Succeeded
            <3>1. SUFFICES ASSUME pc'[h] = "skipCheck" PROVE Parents(NodeOf(h)) \subseteq Succeeded
                  OBVIOUS
            <3>2. \A p \in Parents(NodeOf(h)) : nodeStatus[p] = "success"
                  BY <1>0, <1>1, <1>t, <3>1, ParentRows DEF CheckParents, Goto
            <3>3. QED
                  BY <3>2 DEF Dataflow, RowsAreTrue, Parents
      <2>2. pc'[h] \in {"skipCheck", "ack"} /\ \A g \in Handlers \ {h} : pc'[g] = pc[g]
            BY <1>1, <1>t DEF CheckParents, Goto
      <2>3. UNCHANGED <<nodeStatus, task, executed>>
            BY <1>1 DEF CheckParents, storeVars
      <2>4. QED
            BY <2>1, <2>2, <2>3 DEF Dataflow, RowsAreTrue, ClearedToRun, OutcomesAreTrue,
               ParentsFirst, Succeeded, ClearedLabels, NodeOf
<1>2. CASE ShouldSkipNodeTaskExecution(h)
      <2>1. /\ pc[h] = "skipCheck" /\ pc'[h] \in {"children", "markRunning"}
            /\ \A g \in Handlers \ {h} : pc'[g] = pc[g] /\ task'[g] = task[g]
            BY <1>2, <1>t DEF ShouldSkipNodeTaskExecution, At, Goto
      <2>2. task'[h].node = task[h].node
            BY <1>0, <1>2, <1>t DEF ShouldSkipNodeTaskExecution, Tasks
      <2>3. UNCHANGED <<nodeStatus, executed>>
            BY <1>2 DEF ShouldSkipNodeTaskExecution, storeVars
      <2>4. QED
            BY <2>1, <2>2, <2>3 DEF Dataflow, RowsAreTrue, ClearedToRun, OutcomesAreTrue,
               ParentsFirst, Succeeded, ClearedLabels, NodeOf
<1>3. CASE MarkRunning(h)
      <2>1. /\ pc[h] = "markRunning" /\ pc'[h] = "execute"
            /\ \A g \in Handlers \ {h} : pc'[g] = pc[g] /\ task'[g] = task[g]
            BY <1>3, <1>t DEF MarkRunning, At, Goto
      <2>2. task'[h].node = task[h].node
            BY <1>0, <1>3, <1>t DEF MarkRunning, Tasks
      <2>3. nodeStatus' = [nodeStatus EXCEPT ![NodeOf(h)] = "running"] /\ UNCHANGED executed
            BY <1>3 DEF MarkRunning, MarkWorkflowNodeAsRunning
      <2>4. Parents(NodeOf(h)) \subseteq Succeeded
            BY <2>1 DEF Dataflow, ClearedToRun, ClearedLabels
      <2>5. RowsAreTrue' /\ ParentsFirst'
            BY <1>0, <1>t, <2>3, <2>4 DEF Dataflow, RowsAreTrue, ParentsFirst, Succeeded
      <2>6. ClearedToRun' /\ OutcomesAreTrue'
            BY <2>1, <2>2, <2>3 DEF Dataflow, ClearedToRun, OutcomesAreTrue, Succeeded,
               ClearedLabels, NodeOf
      <2>7. QED
            BY <2>5, <2>6 DEF Dataflow
<1>4. CASE ExecuteAction(h)
      <2>1. /\ pc[h] = "execute" /\ pc'[h] = "record"
            /\ \A g \in Handlers \ {h} : pc'[g] = pc[g] /\ task'[g] = task[g]
            BY <1>4, <1>t DEF ExecuteAction, At, Goto
      <2>2. PICK outcome \in {"success", "failed"} :
                 /\ task' = [task EXCEPT ![h].status = outcome]
                 /\ executed' = IF outcome = "success" THEN executed \cup {NodeOf(h)} ELSE executed
            BY <1>4 DEF ExecuteAction
      <2>3. task'[h].node = task[h].node /\ task'[h].status = outcome
            BY <1>0, <1>t, <2>2 DEF Tasks
      <2>4. UNCHANGED nodeStatus
            BY <1>4 DEF ExecuteAction, storeVars
      <2>5. Parents(NodeOf(h)) \subseteq Succeeded
            BY <2>1 DEF Dataflow, ClearedToRun, ClearedLabels
      <2>6. executed \subseteq executed' /\ executed' \subseteq executed \cup {NodeOf(h)}
            BY <2>2
      <2>7. RowsAreTrue' /\ ParentsFirst'
            BY <1>0, <2>4, <2>5, <2>6 DEF Dataflow, RowsAreTrue, ParentsFirst, Succeeded
      <2>8. ClearedToRun'
            BY <2>1, <2>3, <2>5, <2>6 DEF Dataflow, ClearedToRun, Succeeded, NodeOf
      <2>9. OutcomesAreTrue'
            BY <2>1, <2>2, <2>3, <2>6 DEF Dataflow, OutcomesAreTrue, NodeOf
      <2>10. QED
            BY <2>7, <2>8, <2>9 DEF Dataflow
<1>5. CASE RecordOutcome(h)
      <2>1. /\ pc[h] = "record" /\ pc'[h] \in {"children", "failRun", "failed"}
            /\ \A g \in Handlers \ {h} : pc'[g] = pc[g]
            BY <1>5, <1>t DEF RecordOutcome, At, Goto
      <2>2. UNCHANGED <<task, executed>>
            BY <1>5 DEF RecordOutcome
      <2>3. nodeStatus' = [nodeStatus EXCEPT ![NodeOf(h)] = task[h].status]
            BY <1>5 DEF RecordOutcome, UpdateWorkflowNodeRunStatus
      <2>4. Parents(NodeOf(h)) \subseteq Succeeded
            /\ (task[h].status = "success" => NodeOf(h) \in executed)
            BY <2>1 DEF Dataflow, ClearedToRun, OutcomesAreTrue, ClearedLabels
      <2>5. RowsAreTrue' /\ ParentsFirst'
            BY <1>0, <1>t, <2>2, <2>3, <2>4 DEF Dataflow, RowsAreTrue, ParentsFirst, Succeeded
      <2>6. ClearedToRun' /\ OutcomesAreTrue'
            BY <2>1, <2>2 DEF Dataflow, ClearedToRun, OutcomesAreTrue, Succeeded,
               ClearedLabels, NodeOf
      <2>7. QED
            BY <2>5, <2>6 DEF Dataflow
<1>6. QED
      BY <1>1, <1>2, <1>3, <1>4, <1>5

\* A handler step beyond the execution: it leaves the node rows alone and
\* ends at a label from which the action is not run.
LEMMA DataflowOther ==
    ASSUME TypeInv, Dataflow, NEW h \in Handlers, UNCHANGED <<nodeStatus, executed>>,
           NEW label, label \notin ClearedLabels, Goto(h, label),
           NEW t, task' = [task EXCEPT ![h] = t]
    PROVE  Dataflow'
<1>1. pc'[h] \notin ClearedLabels
      BY DEF Goto, TypeInv, TypeOK
<1>2. \A g \in Handlers \ {h} : pc'[g] = pc[g] /\ task'[g] = task[g]
      BY DEF Goto, TypeInv, TypeOK
<1>3. QED
      BY <1>1, <1>2, DataflowFrame

LEMMA DataflowOtherSameTask ==
    ASSUME TypeInv, Dataflow, NEW h \in Handlers, UNCHANGED <<nodeStatus, executed, task>>,
           NEW label, label \notin ClearedLabels, Goto(h, label)
    PROVE  Dataflow'
<1>1. pc'[h] \notin ClearedLabels
      BY DEF Goto, TypeInv, TypeOK
<1>2. \A g \in Handlers \ {h} : pc'[g] = pc[g] /\ task'[g] = task[g]
      BY DEF Goto, TypeInv, TypeOK
<1>3. QED
      BY <1>1, <1>2, DataflowFrame

LEMMA DataflowFollowUp ==
    ASSUME TypeInv, Dataflow, NEW h \in Handlers,
           \/ FailRun(h) \/ ReadChildren(h) \/ PublishChild(h)
           \/ CountRemaining(h) \/ CountPendingRows(h)
           \/ AcquireReinitLock(h) \/ ReinitializeRunningNodeSet(h)
           \/ ReadNodeRuns(h) \/ FinalizeRun(h)
           \/ Acknowledge(h) \/ ScheduleRetry(h) \/ GiveUp(h)
    PROVE  Dataflow'
<1>1. CASE \/ FailRun(h) \/ CountRemaining(h) \/ AcquireReinitLock(h)
           \/ ReinitializeRunningNodeSet(h) \/ FinalizeRun(h) \/ ScheduleRetry(h)
      <2>1. PICK label \in {"failed", "pendingRows", "readNodes", "ack", "reinitSet"} : Goto(h, label)
            BY <1>1 DEF FailRun, CountRemaining, AcquireReinitLock, ReinitializeRunningNodeSet,
               FinalizeRun, ScheduleRetry
      <2>2. UNCHANGED <<nodeStatus, executed, task>>
            BY <1>1 DEF FailRun, CountRemaining, AcquireReinitLock, ReinitializeRunningNodeSet,
               FinalizeRun, ScheduleRetry, CompleteWorkflowRun, storeVars
      <2>3. QED
            BY <2>1, <2>2, DataflowOtherSameTask DEF ClearedLabels
<1>2. CASE ReadChildren(h) \/ PublishChild(h) \/ CountPendingRows(h) \/ ReadNodeRuns(h)
      <2>1. PICK label \in {"countRemaining", "publish", "readNodes", "reinitLock", "complete"} :
                 Goto(h, label)
            BY <1>2 DEF ReadChildren, PublishChild, CountPendingRows, ReadNodeRuns
      <2>2. \E t : task' = [task EXCEPT ![h] = t]
            BY <1>2 DEF ReadChildren, PublishChild, CountPendingRows, ReadNodeRuns
      <2>3. UNCHANGED <<nodeStatus, executed>>
            BY <1>2 DEF ReadChildren, PublishChild, CountPendingRows, ReadNodeRuns, storeVars
      <2>4. QED
            BY <2>1, <2>2, <2>3, DataflowOther DEF ClearedLabels
<1>3. CASE Acknowledge(h) \/ GiveUp(h)
      <2>1. Goto(h, "idle") /\ task' = [task EXCEPT ![h] = NoTask] /\ UNCHANGED <<nodeStatus, executed>>
            BY <1>3 DEF Acknowledge, GiveUp, Release, storeVars
      <2>2. QED
            BY <2>1, DataflowOther DEF ClearedLabels
<1>4. QED
      BY <1>1, <1>2, <1>3

LEMMA DataflowFault ==
    ASSUME TypeInv, Dataflow, NEW h \in Handlers, HandlerFault(h)
    PROVE  Dataflow'
<1>1. CASE DbError(h) \/ RedisError(h) \/ PublishError(h)
      <2>1. PICK label \in {"failed", "pendingRows", "ack"} : Goto(h, label)
            BY <1>1 DEF DbError, RedisError, PublishError
      <2>2. QED
            BY <1>1, <2>1, DataflowOtherSameTask DEF DbError, RedisError, PublishError,
               ClearedLabels, storeVars
<1>2. CASE RetryPublishError(h) \/ Crash(h)
      <2>1. Goto(h, "idle") /\ task' = [task EXCEPT ![h] = NoTask] /\ UNCHANGED <<nodeStatus, executed>>
            BY <1>2 DEF RetryPublishError, Crash, Release, storeVars
      <2>2. QED
            BY <2>1, DataflowOther DEF ClearedLabels
<1>3. CASE ChannelClosed(h)
      <2>1. task[h] \in Tasks
            BY <1>3 DEF ChannelClosed, At, TypeInv, TypeOK
      <2>2. task' = [task EXCEPT ![h].held = FALSE] /\ UNCHANGED <<pc, nodeStatus, executed>>
            BY <1>3 DEF ChannelClosed, storeVars
      <2>3. \A g \in Handlers : task'[g].node = task[g].node /\ task'[g].status = task[g].status
            BY <2>1, <2>2 DEF Tasks, TypeInv, TypeOK
      <2>4. QED
            BY <2>2, <2>3, DataflowFrame
<1>4. QED
      BY <1>1, <1>2, <1>3 DEF HandlerFault

LEMMA DataflowStep == TypeInv /\ Dataflow /\ [Next]_vars => Dataflow'
<1> SUFFICES ASSUME TypeInv, Dataflow, [Next]_vars PROVE Dataflow'
    OBVIOUS
<1>1. CASE UNCHANGED vars
      BY <1>1, DataflowFrame DEF vars, storeVars, handlerVars
<1>2. CASE OrchestratorNext
      <2>1. UNCHANGED <<pc, task, executed>>
            BY <1>2 DEF OrchestratorNext, handlerVars
      <2>2. CASE CreateRun
            BY <2>1, <2>2 DEF CreateRun, CreateWorkflowRun, Dataflow, RowsAreTrue, ClearedToRun,
               OutcomesAreTrue, ParentsFirst, Succeeded, NodeOf
      <2>3. CASE ~CreateRun
            <3>1. UNCHANGED nodeStatus
                  BY <1>2, <2>3 DEF OrchestratorNext, OrchestratorStep, OrchestratorFault,
                     InitRunningSet, StartRoot, PublishFirst, OrchestratorError,
                     InitRunningSetError, storeVars
            <3>2. QED
                  BY <2>1, <3>1, DataflowFrame
      <2>4. QED
            BY <2>2, <2>3
<1>3. CASE Delivery
      <2>1. PICK h \in Handlers, m \in Messages : Deliver(h, m)
            BY <1>3 DEF Delivery
      <2>2. Goto(h, "parents") /\ (\E t : task' = [task EXCEPT ![h] = t])
            /\ UNCHANGED <<nodeStatus, executed>>
            BY <2>1 DEF Deliver, storeVars
      <2>3. QED
            BY <2>2, DataflowOther DEF ClearedLabels
<1>4. CASE \E h \in Handlers : HandlerNext(h)
      <2>1. PICK h \in Handlers : HandlerStep(h)
            BY <1>4 DEF HandlerNext
      <2>2. QED
            BY <2>1, DataflowExecution, DataflowFollowUp DEF HandlerStep
<1>5. CASE \E h \in Handlers : HandlerFaultNext(h)
      BY <1>5, DataflowFault DEF HandlerFaultNext
<1>6. CASE KeyExpiry
      BY <1>6, DataflowFrame DEF KeyExpiry, RunningSetLost, ReinitLockExpires, storeVars, handlerVars
<1>7. QED
      BY <1>1, <1>2, <1>3, <1>4, <1>5, <1>6 DEF Next

\* In every run of every workflow, under every fault of the model, a node's
\* action runs only after the actions of all its parents ran to success:
\* duplicated, premature and repeated tasks never break the order that
\* ExecuteWorkflowNode's parents check is there to keep.
THEOREM DataflowOrder == Spec => []ParentsFirst
<1>1. TypeInv /\ Dataflow => ParentsFirst
      BY DEF Dataflow
<1>2. QED
      BY TypeInit, TypeStep, DataflowInit, DataflowStep, <1>1, PTL DEF Spec

-----------------------------------------------------------------------------
(* No node is forgotten, in any workflow whose triggers are roots, with    *)
(* any number of handlers, redelivered tasks and Redis failures.           *)

\* A trigger has no incoming edge: nothing runs before it.
TriggersAreRoots == Triggers \subseteq GetRootNodes

\* No worker dies and no statement or publish fails; Redis may fail and its
\* keys expire, and channels may close under a working handler.
NothingAborts == FaultKinds \subseteq {"redis", "init", "requeue"}

-----------------------------------------------------------------------------
(* The inductive invariant.                                                *)

\* The roots are all still to be enqueued when the rows appear, and no read
\* of the orchestrator replaces a list it has not worked off.
StartIsOrderly ==
    /\ opc = "create" =>
         /\ oroots = GetRootNodes
         /\ \A n \in Nodes : nodeStatus[n] # "pending"
    /\ opc # "publish" => otodo = {}

\* A pending row has no attempts, so the skip check never mistakes it for an
\* exhausted one.
PendingIsUntried == \A n \in Nodes : nodeStatus[n] = "pending" => nodeRetry[n] = 0

\* A task that will pass its parents' check is on its way to n, or somebody
\* is about to read n's row and publish one.
Coming(n) ==
    \/ HasMessage(n)
    \/ HandlerOn(n, {"parents", "skipCheck", "markRunning"})
    \/ \E p \in Parents(n) : HandlerOn(p, {"children"})
    \/ n \in oroots \cup otodo
    \/ Parents(n) \cap Triggers \cap oroots # {}
    \/ \E h \in Handlers : pc[h] = "publish" /\ n \in task[h].todo

Ready(n) == nodeStatus[n] = "pending" /\ \A p \in Parents(n) : nodeStatus[p] = "success"

ReadyIsComing == \A n \in Nodes \ Triggers : Ready(n) => Coming(n)

Remembered == StartIsOrderly /\ PendingIsUntried /\ ReadyIsComing

LEMMA RememberedInit == Init => Remembered
BY DEF Init, StoreInit, OrchestratorInit, Remembered, StartIsOrderly, PendingIsUntried,
       ReadyIsComing, Ready

\* The labels at which a handler is what makes a node Coming.
CarryingLabels == {"parents", "skipCheck", "markRunning", "children", "publish"}

\* Handler g carries on: what makes a node Coming through it still does.
Carries(g) ==
    pc[g] \in CarryingLabels =>
        pc'[g] = pc[g] /\ task'[g].node = task[g].node /\ task'[g].todo = task[g].todo

\* No message is taken away.
QueueKept == \A m \in Messages : queue[m] > 0 => queue'[m] > 0

\* Steps that change no row, take no message away and leave the handlers that
\* carry a node alone.
LEMMA QuietStep ==
    ASSUME TypeInv, Remembered, UNCHANGED <<nodeStatus, nodeRetry, opc, oroots, otodo>>,
           QueueKept, \A g \in Handlers : Carries(g)
    PROVE  Remembered'
<1>1. StartIsOrderly' /\ PendingIsUntried'
      BY DEF Remembered, StartIsOrderly, PendingIsUntried
<1>2. ASSUME NEW n \in Nodes \ Triggers, Coming(n) PROVE Coming(n)'
      <2>1. HasMessage(n) => HasMessage(n)'
            BY DEF QueueKept, HasMessage, Messages
      <2>2. QED
            BY <1>2, <2>1 DEF Coming, HandlerOn, NodeOf, Carries, CarryingLabels
<1>3. \A n \in Nodes : Ready(n)' => Ready(n)
      BY DEF Ready
<1>4. QED
      BY <1>1, <1>2, <1>3 DEF Remembered, ReadyIsComing

LEMMA QuietHandler ==
    ASSUME TypeInv, Remembered, NEW h \in Handlers, pc[h] \notin CarryingLabels,
           NEW label, Goto(h, label),
           task' = task \/ \E t : task' = [task EXCEPT ![h] = t],
           UNCHANGED <<nodeStatus, nodeRetry, opc, oroots, otodo>>, QueueKept
    PROVE  Remembered'
<1>1. \A g \in Handlers \ {h} : pc'[g] = pc[g] /\ task'[g] = task[g]
      BY DEF Goto, TypeInv, TypeOK
<1>2. \A g \in Handlers : Carries(g)
      BY <1>1 DEF Carries
<1>3. QED
      BY <1>2, QuietStep

\* One more copy of a message takes none away.
LEMMA AddKeepsQueue ==
    ASSUME TypeInv, NEW m \in Messages, queue' = [queue EXCEPT ![m] = @ + 1]
    PROVE  QueueKept /\ queue'[m] > 0
<1>1. queue \in [Messages -> Nat]
      BY DEF TypeInv, TypeOK
<1>2. queue[m] + 1 > 0
      BY <1>1
<1>3. QED
      BY <1>1, <1>2 DEF QueueKept

\* The handler's steps that carry nothing.
LEMMA RememberedQuiet ==
    ASSUME TypeInv, Remembered, NEW h \in Handlers, UNCHANGED orchestratorVars,
           \/ ExecuteAction(h) \/ FailRun(h) \/ CountRemaining(h) \/ CountPendingRows(h)
           \/ AcquireReinitLock(h) \/ ReinitializeRunningNodeSet(h)
           \/ ReadNodeRuns(h) \/ FinalizeRun(h) \/ Acknowledge(h)
           \/ ScheduleRetry(h) \/ GiveUp(h)
    PROVE  Remembered'
<1> USE DEF orchestratorVars
<1>1. CASE \/ FailRun(h) \/ CountRemaining(h) \/ AcquireReinitLock(h)
           \/ ReinitializeRunningNodeSet(h) \/ FinalizeRun(h)
      <2>1. PICK label : Goto(h, label)
            BY <1>1 DEF FailRun, CountRemaining, AcquireReinitLock, ReinitializeRunningNodeSet,
               FinalizeRun
      <2>2. UNCHANGED <<nodeStatus, nodeRetry, task, queue>> /\ pc[h] \notin CarryingLabels
            BY <1>1 DEF FailRun, CountRemaining, AcquireReinitLock, ReinitializeRunningNodeSet,
               FinalizeRun, CompleteWorkflowRun, storeVars, brokerVars, At, CarryingLabels
      <2>3. QED
            BY <2>1, <2>2, QuietHandler DEF QueueKept
<1>2. CASE ExecuteAction(h) \/ CountPendingRows(h) \/ ReadNodeRuns(h) \/ Acknowledge(h) \/ GiveUp(h)
      <2>1. PICK label : Goto(h, label)
            BY <1>2 DEF ExecuteAction, CountPendingRows, ReadNodeRuns, Acknowledge, GiveUp, Release
      <2>2. \E t : task' = [task EXCEPT ![h] = t]
            BY <1>2 DEF ExecuteAction, CountPendingRows, ReadNodeRuns, Acknowledge, GiveUp, Release
      <2>3. UNCHANGED <<nodeStatus, nodeRetry, queue>> /\ pc[h] \notin CarryingLabels
            BY <1>2 DEF ExecuteAction, CountPendingRows, ReadNodeRuns, Acknowledge, GiveUp,
               DeadLetter, storeVars, brokerVars, At, CarryingLabels
      <2>4. QED
            BY <2>1, <2>2, <2>3, QuietHandler DEF QueueKept
<1>3. CASE ScheduleRetry(h)
      <2> DEFINE m == <<NodeOf(h), task[h].header + 1>>
      <2>1. m \in Messages
            <3>1. task[h].node \in Nodes /\ task[h].header \in 0..MaxRetries
                  BY <1>3 DEF ScheduleRetry, At, TypeInv, TypeOK, Tasks
            <3>2. task[h].header < MaxRetries
                  BY <1>3 DEF ScheduleRetry, PublishRetry
            <3>3. task[h].header + 1 \in 0..MaxRetries
                  BY <3>1, <3>2
            <3>4. QED
                  BY <3>1, <3>3 DEF Messages, NodeOf
      <2>2. queue' = [queue EXCEPT ![m] = @ + 1]
            BY <1>3 DEF ScheduleRetry, PublishRetry
      <2>3. QueueKept
            <3> HIDE DEF m
            <3> QED BY <2>1, <2>2, AddKeepsQueue
      <2>4. Goto(h, "ack") /\ pc[h] \notin CarryingLabels
            /\ UNCHANGED <<nodeStatus, nodeRetry, task>>
            BY <1>3 DEF ScheduleRetry, storeVars, At, CarryingLabels
      <2>5. QED
            BY <2>3, <2>4, QuietHandler
<1>4. QED
      BY <1>1, <1>2, <1>3

\* From the delivery to the row that says running.
LEMMA RememberedDelivery == TypeInv /\ Remembered /\ Delivery => Remembered'
<1> SUFFICES ASSUME TypeInv, Remembered, Delivery PROVE Remembered'
    OBVIOUS
<1>1. PICK h \in Handlers, m \in Messages : Deliver(h, m)
      BY DEF Delivery
<1>2. UNCHANGED <<nodeStatus, nodeRetry, opc, oroots, otodo>>
      BY <1>1 DEF Delivery, Deliver, storeVars, orchestratorVars
<1>3. pc'[h] = "parents" /\ task'[h].node = m[1] /\ pc[h] = "idle"
      BY <1>1 DEF Deliver, Goto, At, TypeInv, TypeOK
<1>4. \A g \in Handlers \ {h} : pc'[g] = pc[g] /\ task'[g] = task[g]
      BY <1>1 DEF Deliver, Goto, TypeInv, TypeOK
<1>5. \A l \in Messages \ {m} : queue'[l] = queue[l]
      BY <1>1 DEF Deliver, Dequeue, TypeInv, TypeOK
<1>6. ASSUME NEW n \in Nodes \ Triggers, Coming(n) PROVE Coming(n)'
      <2>1. HasMessage(n) => HasMessage(n)' \/ HandlerOn(n, {"parents"})'
            <3>1. SUFFICES ASSUME NEW k \in 0..MaxRetries, queue[<<n, k>>] > 0
                           PROVE  HasMessage(n)' \/ HandlerOn(n, {"parents"})'
                  BY DEF HasMessage
            <3>2. CASE m = <<n, k>>
                  BY <1>3, <3>2 DEF HandlerOn, NodeOf
            <3>3. CASE m # <<n, k>>
                  BY <1>5, <3>1, <3>3 DEF HasMessage, Messages
            <3>4. QED
                  BY <3>2, <3>3
      <2>2. QED
            BY <1>2, <1>3, <1>4, <1>6, <2>1 DEF Coming, HandlerOn, NodeOf
<1>7. QED
      BY <1>2, <1>6 DEF Remembered, StartIsOrderly, PendingIsUntried, ReadyIsComing, Ready

LEMMA RememberedExecution ==
    ASSUME TypeInv, Remembered, NEW h \in Handlers, UNCHANGED orchestratorVars,
           \/ CheckParents(h) \/ ShouldSkipNodeTaskExecution(h)
           \/ MarkRunning(h) \/ RecordOutcome(h)
    PROVE  Remembered'
<1>0. task[h] \in Tasks /\ NodeOf(h) \in Nodes
      BY DEF TypeInv, TypeOK, Tasks, NodeOf, At, CheckParents, ShouldSkipNodeTaskExecution,
             MarkRunning, RecordOutcome
<1>t. /\ pc \in [Handlers -> Labels] /\ task \in [Handlers -> Tasks \cup {NoTask}]
      /\ nodeStatus \in [Nodes -> NodeStatuses] /\ nodeRetry \in [Nodes -> 0..MaxRetryCount]
      BY DEF TypeInv, TypeOK
<1>o. UNCHANGED <<opc, oroots, otodo, queue>>
      BY DEF orchestratorVars, brokerVars, CheckParents, ShouldSkipNodeTaskExecution,
             MarkRunning, RecordOutcome
<1>g. \A g \in Handlers \ {h} : pc'[g] = pc[g] /\ task'[g] = task[g]
      BY <1>t DEF Goto, CheckParents, ShouldSkipNodeTaskExecution, MarkRunning, RecordOutcome
<1>m. \A n \in Nodes : HasMessage(n) => HasMessage(n)'
      BY <1>o DEF HasMessage
\* The task of a node that is ready passes.
<1>1. CASE CheckParents(h)
      <2>1. UNCHANGED <<nodeStatus, nodeRetry, task>> /\ pc[h] = "parents"
            BY <1>1 DEF CheckParents, storeVars, At
      <2>2. Ready(NodeOf(h)) => pc'[h] = "skipCheck"
            BY <1>0, <1>1, <1>t, ParentRows DEF Ready, CheckParents, Goto
      <2>3. ASSUME NEW n \in Nodes \ Triggers, Ready(n), Coming(n) PROVE Coming(n)'
            BY <1>o, <1>g, <1>m, <2>1, <2>2, <2>3 DEF Coming, HandlerOn, NodeOf
      <2>4. QED
            BY <1>o, <2>1, <2>3
            DEF Remembered, StartIsOrderly, PendingIsUntried, ReadyIsComing, Ready
<1>2. CASE ShouldSkipNodeTaskExecution(h)
      <2>1. UNCHANGED <<nodeStatus, nodeRetry>> /\ pc[h] = "skipCheck"
            BY <1>2 DEF ShouldSkipNodeTaskExecution, storeVars, At
      <2>2. task'[h].node = task[h].node
            BY <1>0, <1>2, <1>t DEF ShouldSkipNodeTaskExecution, Tasks
      <2>3. nodeStatus[NodeOf(h)] = "pending" => pc'[h] = "markRunning"
            BY <1>0, <1>2, <1>t
            DEF ShouldSkipNodeTaskExecution, GetWorkflowNodeRun, Goto, Remembered, PendingIsUntried
      <2>4. ASSUME NEW n \in Nodes \ Triggers, Ready(n), Coming(n) PROVE Coming(n)'
            BY <1>o, <1>g, <1>m, <2>1, <2>2, <2>3, <2>4 DEF Ready, Coming, HandlerOn, NodeOf
      <2>5. QED
            BY <1>o, <2>1, <2>4
            DEF Remembered, StartIsOrderly, PendingIsUntried, ReadyIsComing, Ready
\* The node is pending no more.
<1>3. CASE MarkRunning(h)
      <2>1. /\ nodeStatus' = [nodeStatus EXCEPT ![NodeOf(h)] = "running"]
            /\ \A n \in Nodes \ {NodeOf(h)} : nodeRetry'[n] = nodeRetry[n]
            /\ pc[h] = "markRunning"
            BY <1>3, <1>t DEF MarkRunning, MarkWorkflowNodeAsRunning, At
      <2>2. \A n \in Nodes : nodeStatus'[n] \in {"pending", "success"} =>
                 n # NodeOf(h) /\ nodeStatus'[n] = nodeStatus[n]
            BY <1>0, <1>t, <2>1
      <2>3. ASSUME NEW n \in Nodes \ Triggers, n # NodeOf(h), Coming(n) PROVE Coming(n)'
            BY <1>o, <1>g, <1>m, <2>1, <2>3 DEF Coming, HandlerOn, NodeOf
      <2>4. ASSUME NEW n \in Nodes, Ready(n)' PROVE Ready(n) /\ n # NodeOf(h)
            BY <2>2, <2>4 DEF Ready, Parents
      <2>5. QED
            BY <1>o, <2>1, <2>2, <2>3, <2>4
            DEF Remembered, StartIsOrderly, PendingIsUntried, ReadyIsComing
\* The parent that succeeds last is the one that goes on to its children.
<1>4. CASE RecordOutcome(h)
      <2>1. /\ nodeStatus' = [nodeStatus EXCEPT ![NodeOf(h)] = task[h].status]
            /\ UNCHANGED <<nodeRetry, task>>
            /\ pc[h] = "record" /\ task[h].status \in {"success", "failed"}
            BY <1>4 DEF RecordOutcome, UpdateWorkflowNodeRunStatus, At, TypeInv, LocalsReady
      <2>2. task[h].status = "success" => pc'[h] = "children"
            BY <1>4, <1>t DEF RecordOutcome, Goto
      <2>3. \A n \in Nodes : nodeStatus'[n] = "pending" => nodeStatus[n] = "pending"
            BY <1>0, <1>t, <2>1
      <2>4. ASSUME NEW n \in Nodes \ Triggers, Coming(n) PROVE Coming(n)'
            BY <1>o, <1>g, <1>m, <2>1, <2>4 DEF Coming, HandlerOn, NodeOf
      <2>5. ASSUME NEW n \in Nodes \ Triggers, Ready(n)', ~Ready(n) PROVE Coming(n)'
            <3>1. NodeOf(h) \in Parents(n) /\ task[h].status = "success"
                  BY <1>0, <1>t, <2>1, <2>3, <2>5 DEF Ready, Parents
            <3>2. QED
                  BY <2>1, <2>2, <3>1 DEF Coming, HandlerOn, NodeOf
      <2>6. QED
            BY <1>o, <2>1, <2>3, <2>4, <2>5
            DEF Remembered, StartIsOrderly, PendingIsUntried, ReadyIsComing
<1>5. QED
      BY <1>1, <1>2, <1>3, <1>4

\* A pending child is in the list that is read, and leaves it as a message.
LEMMA RememberedChildren ==
    ASSUME TypeInv, Remembered, NEW h \in Handlers, UNCHANGED orchestratorVars,
           ReadChildren(h) \/ PublishChild(h)
    PROVE  Remembered'
<1>0. task[h] \in Tasks /\ NodeOf(h) \in Nodes
      BY DEF TypeInv, TypeOK, Tasks, NodeOf, At, ReadChildren, PublishChild
<1>t. /\ pc \in [Handlers -> Labels] /\ task \in [Handlers -> Tasks \cup {NoTask}]
      BY DEF TypeInv, TypeOK
<1>o. UNCHANGED <<opc, oroots, otodo, nodeStatus, nodeRetry>>
      BY DEF orchestratorVars, storeVars, ReadChildren, PublishChild
<1>g. \A g \in Handlers \ {h} : pc'[g] = pc[g] /\ task'[g] = task[g]
      BY <1>t DEF Goto, ReadChildren, PublishChild
<1>1. CASE ReadChildren(h)
      <2>1. pc[h] = "children" /\ UNCHANGED queue
            BY <1>1 DEF ReadChildren, At, brokerVars
      <2>2. ASSUME NEW n \in Nodes, NodeOf(h) \in Parents(n), nodeStatus[n] = "pending"
            PROVE  pc'[h] = "publish" /\ n \in task'[h].todo
            <3>1. n \in NodesWith("pending", GetChildWorkflowNodeRuns(NodeOf(h)))
                  BY <2>2 DEF NodesWith, GetChildWorkflowNodeRuns, GetWorkflowNodeRun,
                     Children, Parents
            <3>2. QED
                  BY <1>0, <1>1, <1>t, <3>1 DEF ReadChildren, Goto, Tasks
      <2>3. ASSUME NEW n \in Nodes \ Triggers, Ready(n), Coming(n) PROVE Coming(n)'
            <3>1. CASE \E p \in Parents(n) : HandlerOn(p, {"children"})
                  BY <1>g, <2>2, <2>3, <3>1 DEF Ready, Coming, HandlerOn, NodeOf
            <3>2. CASE ~ \E p \in Parents(n) : HandlerOn(p, {"children"})
                  BY <1>o, <1>g, <2>1, <2>3, <3>2 DEF Coming, HandlerOn, HasMessage, NodeOf
            <3>3. QED
                  BY <3>1, <3>2
      <2>4. QED
            BY <1>o, <2>3
            DEF Remembered, StartIsOrderly, PendingIsUntried, ReadyIsComing, Ready
<1>2. CASE PublishChild(h)
      <2>1. PICK c \in task[h].todo :
                 /\ Publish(c)
                 /\ task' = [task EXCEPT ![h].todo = @ \ {c}]
                 /\ Goto(h, IF task[h].todo = {c} THEN "countRemaining" ELSE "publish")
            BY <1>2 DEF PublishChild
      <2>2. c \in Nodes /\ <<c, 0>> \in Messages
            <3>1. task[h].todo \subseteq Nodes
                  BY <1>0 DEF Tasks
            <3>2. c \in Nodes
                  BY <3>1
            <3>3. QED
                  BY <3>2 DEF Messages
      <2>3. QueueKept /\ queue'[<<c, 0>>] > 0
            BY <2>1, <2>2, AddKeepsQueue DEF Publish
      <2>4. HasMessage(c)' /\ \A n \in Nodes : HasMessage(n) => HasMessage(n)'
            BY <2>3 DEF HasMessage, QueueKept, Messages
      <2>5. /\ task'[h].node = task[h].node /\ task'[h].todo = task[h].todo \ {c}
            /\ pc[h] = "publish" /\ (task[h].todo # {c} => pc'[h] = "publish")
            BY <1>0, <1>2, <1>t, <2>1 DEF PublishChild, At, Goto, Tasks
      <2>6. ASSUME NEW n \in Nodes \ Triggers, Coming(n) PROVE Coming(n)'
            <3>1. CASE n = c
                  BY <2>4, <3>1 DEF Coming
            <3>2. CASE n # c
                  BY <1>o, <1>g, <2>4, <2>5, <2>6, <3>2 DEF Coming, HandlerOn, NodeOf
            <3>3. QED
                  BY <3>1, <3>2
      <2>7. QED
            BY <1>o, <2>6
            DEF Remembered, StartIsOrderly, PendingIsUntried, ReadyIsComing, Ready
<1>3. QED
      BY <1>1, <1>2

-----------------------------------------------------------------------------
(* The orchestrator.                                                       *)

LEMMA RememberedOrchestrator ==
    ASSUME TriggersAreRoots, NothingAborts, TypeInv, Remembered, OrchestratorNext
    PROVE  Remembered'
<1>t. UNCHANGED <<pc, task>>
      BY DEF OrchestratorNext, handlerVars
<1>1. CASE CreateRun
      <2>1. /\ nodeStatus' = [n \in Nodes |-> IF n \in Triggers THEN "success" ELSE "pending"]
            /\ nodeRetry' = [n \in Nodes |-> 0]
            /\ oroots' = GetRootNodes /\ opc' = "initSet" /\ otodo' = {}
            BY <1>1 DEF CreateRun, CreateWorkflowRun, Remembered, StartIsOrderly
      <2>2. ASSUME NEW n \in Nodes \ Triggers, Ready(n)' PROVE Coming(n)'
            <3>1. CASE Parents(n) = {}
                  BY <2>1, <3>1 DEF Coming, GetRootNodes
            <3>2. CASE Parents(n) # {}
                  <4>1. PICK q \in Parents(n) : nodeStatus'[q] = "success"
                        BY <2>2, <3>2 DEF Ready
                  <4>2. q \in Triggers
                        BY <2>1, <4>1 DEF Parents
                  <4>3. QED
                        BY <2>1, <4>2 DEF Coming, TriggersAreRoots
            <3>3. QED
                  BY <3>1, <3>2
      <2>3. QED
            BY <2>1, <2>2 DEF Remembered, StartIsOrderly, PendingIsUntried, ReadyIsComing
<1>2. CASE InitRunningSet \/ InitRunningSetError
      <2>1. UNCHANGED <<nodeStatus, nodeRetry, oroots, otodo, queue>> /\ opc = "initSet" /\ opc' = "roots"
            BY <1>2 DEF InitRunningSet, InitRunningSetError, storeVars, brokerVars
      <2>2. \A n \in Nodes : Coming(n) => Coming(n)'
            BY <1>t, <2>1 DEF Coming, HasMessage, HandlerOn, NodeOf
      <2>3. QED
            BY <2>1, <2>2
            DEF Remembered, StartIsOrderly, PendingIsUntried, ReadyIsComing, Ready
<1>3. CASE StartRoot
      <2>1. PICK root \in oroots : oroots' = oroots \ {root} /\ otodo' = NodesToEnqueue(root)
            BY <1>3 DEF StartRoot
      <2>2. /\ UNCHANGED <<nodeStatus, nodeRetry, queue>> /\ otodo = {}
            /\ opc' # "create" /\ (opc' # "publish" => otodo' = {})
            BY <1>3 DEF StartRoot, storeVars, brokerVars, Remembered, StartIsOrderly
      <2>3. ASSUME NEW n \in Nodes \ Triggers, Ready(n), Coming(n) PROVE Coming(n)'
            <3>1. CASE n = root \/ (root \in Parents(n) \cap Triggers)
                  <4>1. n \in NodesToEnqueue(root)
                        BY <2>3, <3>1 DEF NodesToEnqueue, NodesWith, GetChildWorkflowNodeRuns,
                           GetWorkflowNodeRun, Children, Parents, Ready
                  <4>2. QED
                        BY <2>1, <4>1 DEF Coming
            <3>2. CASE ~(n = root \/ (root \in Parents(n) \cap Triggers))
                  BY <1>t, <2>1, <2>2, <2>3, <3>2 DEF Coming, HasMessage, HandlerOn, NodeOf
            <3>3. QED
                  BY <3>1, <3>2
      <2>4. QED
            BY <2>2, <2>3
            DEF Remembered, StartIsOrderly, PendingIsUntried, ReadyIsComing, Ready
<1>4. CASE PublishFirst
      <2>1. PICK c \in otodo : Publish(c) /\ otodo' = otodo \ {c}
            BY <1>4 DEF PublishFirst
      <2>2. /\ UNCHANGED <<nodeStatus, nodeRetry, oroots>>
            /\ opc' # "create" /\ (opc' # "publish" => otodo' = {})
            BY <1>4 DEF PublishFirst, storeVars
      <2>3. c \in Nodes /\ <<c, 0>> \in Messages
            BY <2>1 DEF TypeInv, TypeOK, Messages
      <2>4. QueueKept /\ queue'[<<c, 0>>] > 0
            BY <2>1, <2>3, AddKeepsQueue DEF Publish
      <2>5. HasMessage(c)' /\ \A n \in Nodes : HasMessage(n) => HasMessage(n)'
            BY <2>4 DEF HasMessage, QueueKept, Messages
      <2>6. \A n \in Nodes : Coming(n) => Coming(n)'
            BY <1>t, <2>1, <2>2, <2>5 DEF Coming, HandlerOn, NodeOf
      <2>7. QED
            BY <2>2, <2>6
            DEF Remembered, StartIsOrderly, PendingIsUntried, ReadyIsComing, Ready
<1>5. ~OrchestratorError
      BY DEF OrchestratorError, Fault, NothingAborts
<1>6. QED
      BY <1>1, <1>2, <1>3, <1>4, <1>5 DEF OrchestratorNext, OrchestratorStep, OrchestratorFault

LEMMA RememberedFault ==
    ASSUME NothingAborts, TypeInv, Remembered, NEW h \in Handlers, HandlerFaultNext(h)
    PROVE  Remembered'
<1>1. RedisError(h) \/ ChannelClosed(h)
      BY DEF HandlerFaultNext, HandlerFault, NothingAborts, DbError, PublishError,
             RetryPublishError, Crash, Fault
<1>2. UNCHANGED <<opc, oroots, otodo>>
      BY DEF HandlerFaultNext, orchestratorVars
<1>3. CASE RedisError(h)
      <2>1. PICK label : Goto(h, label)
            BY <1>3 DEF RedisError
      <2>2. UNCHANGED <<nodeStatus, nodeRetry, task, queue>> /\ pc[h] \notin CarryingLabels
            BY <1>3 DEF RedisError, storeVars, brokerVars, At, CarryingLabels
      <2>3. QED
            BY <1>2, <2>1, <2>2, QuietHandler DEF QueueKept
<1>4. CASE ChannelClosed(h)
      <2>1. task[h] \in Tasks
            BY <1>4 DEF ChannelClosed, At, TypeInv, TypeOK
      <2>2. <<NodeOf(h), task[h].header>> \in Messages
            BY <2>1 DEF Messages, Tasks, NodeOf
      <2>3. QueueKept
            BY <1>4, <2>2, AddKeepsQueue DEF ChannelClosed, Requeue
      <2>4. task' = [task EXCEPT ![h].held = FALSE] /\ UNCHANGED <<pc, nodeStatus, nodeRetry>>
            BY <1>4 DEF ChannelClosed, storeVars
      <2>5. \A g \in Handlers : task'[g].node = task[g].node /\ task'[g].todo = task[g].todo
            BY <2>1, <2>4 DEF Tasks, TypeInv, TypeOK
      <2>6. QED
            BY <1>2, <2>3, <2>4, <2>5, QuietStep DEF Carries
<1>5. QED
      BY <1>1, <1>3, <1>4

LEMMA RememberedStep ==
    ASSUME TriggersAreRoots, NothingAborts, TypeInv, Remembered, [Next]_vars
    PROVE  Remembered'
<1>1. CASE UNCHANGED vars
      BY <1>1, QuietStep DEF vars, storeVars, brokerVars, orchestratorVars, handlerVars,
         QueueKept, Carries
<1>2. CASE OrchestratorNext
      BY <1>2, RememberedOrchestrator
<1>3. CASE Delivery
      BY <1>3, RememberedDelivery
<1>4. CASE \E h \in Handlers : HandlerNext(h)
      <2>1. PICK h \in Handlers : HandlerStep(h) /\ UNCHANGED orchestratorVars
            BY <1>4 DEF HandlerNext
      <2>2. QED
            BY <2>1, RememberedQuiet, RememberedExecution, RememberedChildren DEF HandlerStep
<1>5. CASE \E h \in Handlers : HandlerFaultNext(h)
      BY <1>5, RememberedFault
<1>6. CASE KeyExpiry
      BY <1>6, QuietStep DEF KeyExpiry, RunningSetLost, ReinitLockExpires, storeVars, brokerVars,
         orchestratorVars, handlerVars, QueueKept, Carries
<1>7. QED
      BY <1>1, <1>2, <1>3, <1>4, <1>5, <1>6 DEF Next

\* In every workflow whose triggers are roots, with any number of handlers
\* racing on joins, any retry limits, any number of redelivered tasks and
\* of Redis failures: a pending node whose parents have all succeeded has a
\* task on its way or somebody about to enqueue one.  Throwing the task of a
\* blocked node away (ExecuteWorkflowNode) loses nothing as long as no
\* handler is cut short between its write and its read of the children.
THEOREM NoNodeLost ==
    ASSUME TriggersAreRoots, NothingAborts
    PROVE  Spec => []NoLostNode
<1>1. TypeInv /\ Remembered => NoLostNode
      <2> SUFFICES ASSUME TypeInv, Remembered, NEW n \in Nodes \ Triggers,
                          nodeStatus[n] = "pending", Parents(n) \subseteq SucceededNodes
                   PROVE  Underway(n) \/ WillBeEnqueued(n) \/ GivenUp(n)
          BY DEF NoLostNode
      <2>1. Coming(n)
            BY DEF Remembered, ReadyIsComing, Ready, SucceededNodes
      <2>2. QED
            BY <2>1 DEF Coming, Underway, WillBeEnqueued, WillEnqueueChildren, HandlerOn
<1>2. TypeInv /\ Remembered /\ [Next]_vars => Remembered'
      BY RememberedStep
<1>3. QED
      BY TypeInit, TypeStep, RememberedInit, <1>1, <1>2, PTL DEF Spec
=============================================================================
