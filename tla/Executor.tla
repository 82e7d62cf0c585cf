------------------------------ MODULE Executor ------------------------------
(***************************************************************************)
(* The worker process: clients/rabbitmq Subscribe starts one goroutine per *)
(* delivery, which runs ExecuteWorkflowNode (services/executor.go) on the  *)
(* task and then acknowledges or retries it.  A handler is one such        *)
(* goroutine of any worker process.  Each of its steps is one statement    *)
(* to PostgreSQL, one command to Redis or one publish to RabbitMQ; between *)
(* two steps every other handler may run.                                  *)
(***************************************************************************)
EXTENDS WorkflowRunStore, RunningNodeSet, TaskQueue, Environment

CONSTANTS
    Handlers,        \* the handler goroutines of all workers
    MaxRetryCount,   \* a node's retry_count at which it is not run again, 3
    NoTask           \* what an idle handler works on

ASSUME MaxRetryCountAssumption == MaxRetryCount \in Nat \ {0}

VARIABLES
    pc,         \* the step each handler is about to take
    task,       \* the delivery each handler works on, with the locals
    executed    \* history: the nodes whose action has run to success

handlerVars == <<pc, task, executed>>

\* node, retryCount and status are fields of WorkflowNodeTask (status also
\* holds the outcome about to be stored); header is the delivery's
\* x-retry-count; todo holds the ids a read returned for the steps that
\* follow; held says that the delivery is still this handler's to acknowledge.
Tasks ==
    [node : Nodes, header : 0..MaxRetries, retryCount : 0..MaxRetryCount,
     status : {"", "success", "failed"}, todo : SUBSET Nodes, held : BOOLEAN]

Labels ==
    {"idle", "parents", "skipCheck", "markRunning", "execute", "record",
     "failRun", "children", "publish", "countRemaining", "pendingRows",
     "reinitLock", "reinitSet", "readNodes", "complete", "ack", "failed"}

HandlersInit ==
    /\ pc = [h \in Handlers |-> "idle"]
    /\ task = [h \in Handlers |-> NoTask]
    /\ executed = {}

At(h, label) == pc[h] = label
Goto(h, label) == pc' = [pc EXCEPT ![h] = label]
NodeOf(h) == task[h].node

-----------------------------------------------------------------------------
(* Subscribe: a delivery reaches a free handler.                           *)
Deliver(h, m) ==
    /\ At(h, "idle")
    /\ Dequeue(m)
    /\ task' = [task EXCEPT ![h] = [node |-> m[1], header |-> m[2], retryCount |-> 0,
                                    status |-> "", todo |-> {}, held |-> TRUE]]
    /\ Goto(h, "parents")
    /\ UNCHANGED <<storeVars, redisVars, executed, faults>>

-----------------------------------------------------------------------------
(* ExecuteWorkflowNode.                                                    *)

\* Mutant: only a failed parent blocks the node.
CheckFailedParents(h) ==
    /\ At(h, "parents")
    /\ Goto(h, IF NodesWith("failed", GetParentWorkflowNodeRuns(NodeOf(h))) = {}
               THEN "skipCheck" ELSE "ack")
    /\ UNCHANGED <<storeVars, redisVars, brokerVars, task, executed, faults>>

\* A node with an unsuccessful parent is not run: the handler returns
\* without an error, so the task is acknowledged and gone.
CheckParents(h) ==
    /\ At(h, "parents")
    /\ LET rows == GetParentWorkflowNodeRuns(NodeOf(h))
       IN  Goto(h, IF NodesWith("success", rows) = DOMAIN rows THEN "skipCheck" ELSE "ack")
    /\ UNCHANGED <<storeVars, redisVars, brokerVars, task, executed, faults>>

\* Mutant: the limit is one attempt too high.
SkipOneTooLate(h) ==
    /\ At(h, "skipCheck")
    /\ LET row == GetWorkflowNodeRun(NodeOf(h))
       IN  /\ task' = [task EXCEPT ![h].retryCount = row.retryCount]
           /\ Goto(h, IF row.status = "success" \/ row.retryCount > MaxRetryCount
                      THEN "children" ELSE "markRunning")
    /\ UNCHANGED <<storeVars, redisVars, brokerVars, executed, faults>>

\* Mutant: a skipped task is done, its children are not enqueued again.
SkipReturnsEarly(h) ==
    /\ At(h, "skipCheck")
    /\ LET row == GetWorkflowNodeRun(NodeOf(h))
       IN  /\ task' = [task EXCEPT ![h].retryCount = row.retryCount]
           /\ Goto(h, IF row.status = "success" \/ row.retryCount = MaxRetryCount
                      THEN "ack" ELSE "markRunning")
    /\ UNCHANGED <<storeVars, redisVars, brokerVars, executed, faults>>

\* The row's retry count becomes the task's.  A successful or exhausted node
\* skips its action and goes on with its children.
ShouldSkipNodeTaskExecution(h) ==
    /\ At(h, "skipCheck")
    /\ LET row == GetWorkflowNodeRun(NodeOf(h))
           skip == row.status = "success" \/ row.retryCount = MaxRetryCount
       IN  /\ task' = [task EXCEPT ![h].retryCount = row.retryCount]
           /\ Goto(h, IF skip THEN "children" ELSE "markRunning")
    /\ UNCHANGED <<storeVars, redisVars, brokerVars, executed, faults>>

\* runWorkflowNodeTask: the attempt is counted in the task as read earlier
\* and written back to the row, ...
MarkRunning(h) ==
    /\ At(h, "markRunning")
    /\ LET attempt == task[h].retryCount + 1
       IN  /\ task' = [task EXCEPT ![h].retryCount = attempt]
           /\ MarkWorkflowNodeAsRunning(NodeOf(h), attempt)
    /\ Goto(h, "execute")
    /\ UNCHANGED <<redisVars, brokerVars, executed, faults>>

\* ... the action succeeds or fails, ...
ExecuteAction(h) ==
    /\ At(h, "execute")
    /\ \E outcome \in {"success", "failed"} :
         /\ task' = [task EXCEPT ![h].status = outcome]
         /\ executed' = IF outcome = "success" THEN executed \cup {NodeOf(h)} ELSE executed
    /\ Goto(h, "record")
    /\ UNCHANGED <<storeVars, redisVars, brokerVars, faults>>

\* Mutant: the task's error is not returned.
RecordSwallowsError(h) ==
    /\ At(h, "record")
    /\ UpdateWorkflowNodeRunStatus(NodeOf(h), task[h].status)
    /\ Goto(h, IF task[h].status = "failed" /\ task[h].retryCount = MaxRetryCount
               THEN "failRun" ELSE "children")
    /\ UNCHANGED <<redisVars, brokerVars, task, executed, faults>>

\* Mutant: the last failure does not fail the run.
RecordNeverFailsRun(h) ==
    /\ At(h, "record")
    /\ UpdateWorkflowNodeRunStatus(NodeOf(h), task[h].status)
    /\ Goto(h, IF task[h].status = "success" THEN "children" ELSE "failed")
    /\ UNCHANGED <<redisVars, brokerVars, task, executed, faults>>

\* ... its outcome is stored, and a failure is returned as an error, ...
RecordOutcome(h) ==
    /\ At(h, "record")
    /\ UpdateWorkflowNodeRunStatus(NodeOf(h), task[h].status)
    /\ Goto(h, IF task[h].status = "success" THEN "children"
               ELSE IF task[h].retryCount = MaxRetryCount THEN "failRun"
               ELSE "failed")
    /\ UNCHANGED <<redisVars, brokerVars, task, executed, faults>>

\* ... the last one after it has failed the run.
FailRun(h) ==
    /\ At(h, "failRun")
    /\ CompleteWorkflowRun("failed")
    /\ Goto(h, "failed")
    /\ UNCHANGED <<redisVars, brokerVars, task, executed, faults>>

\* Mutant: a leaf returns before it is counted.
LeafReturnsEarly(h) ==
    /\ At(h, "children")
    /\ LET pending == NodesWith("pending", GetChildWorkflowNodeRuns(NodeOf(h)))
       IN  /\ task' = [task EXCEPT ![h].todo = pending]
           /\ Goto(h, IF pending = {} THEN "ack" ELSE "publish")
    /\ UNCHANGED <<storeVars, redisVars, brokerVars, executed, faults>>

\* EnqueueChildNodes: the children that are pending now ...
ReadChildren(h) ==
    /\ At(h, "children")
    /\ LET pending == NodesWith("pending", GetChildWorkflowNodeRuns(NodeOf(h)))
       IN  /\ task' = [task EXCEPT ![h].todo = pending]
           /\ Goto(h, IF pending = {} THEN "countRemaining" ELSE "publish")
    /\ UNCHANGED <<storeVars, redisVars, brokerVars, executed, faults>>

\* ... are published one by one.
PublishChild(h) ==
    /\ At(h, "publish")
    /\ \E c \in task[h].todo :
         /\ Publish(c)
         /\ task' = [task EXCEPT ![h].todo = @ \ {c}]
         /\ Goto(h, IF task[h].todo = {c} THEN "countRemaining" ELSE "publish")
    /\ UNCHANGED <<storeVars, redisVars, executed, faults>>

\* shouldFinalizeWorkflowRun: the Redis script removes the node and counts.
CountRemaining(h) ==
    /\ At(h, "countRemaining")
    /\ RemoveNode(NodeOf(h))
    /\ Goto(h, IF ~RunningSetExists THEN "pendingRows"
               ELSE IF NoneRemaining(NodeOf(h)) THEN "readNodes" ELSE "ack")
    /\ UNCHANGED <<storeVars, brokerVars, task, executed, faults>>

\* Without the set the pending rows are counted instead.
CountPendingRows(h) ==
    /\ At(h, "pendingRows")
    /\ LET pending == NodesWith("pending", GetWorkflowNodeRuns)
       IN  /\ task' = [task EXCEPT ![h].todo = pending]
           /\ Goto(h, IF pending = {} THEN "readNodes" ELSE "reinitLock")
    /\ UNCHANGED <<storeVars, redisVars, brokerVars, executed, faults>>

\* reinitializeRunningNodeSet: only the holder of the lock rebuilds the set.
AcquireReinitLock(h) ==
    /\ At(h, "reinitLock")
    /\ \/ TryAcquireWorkflowRunFinalizationLock /\ Goto(h, "reinitSet")
       \/ finalizeLock /\ Goto(h, "ack") /\ UNCHANGED redisVars
    /\ UNCHANGED <<storeVars, brokerVars, task, executed, faults>>

ReinitializeRunningNodeSet(h) ==
    /\ At(h, "reinitSet")
    /\ InitializeRunningNodeSet(task[h].todo)
    /\ Goto(h, "ack")
    /\ UNCHANGED <<storeVars, brokerVars, task, executed, faults>>

\* Mutant: the rows are not looked at.
AlwaysSuccess(h) ==
    /\ At(h, "readNodes")
    /\ task' = [task EXCEPT ![h].status = "success"]
    /\ Goto(h, "complete")
    /\ UNCHANGED <<storeVars, redisVars, brokerVars, executed, faults>>

\* The run is finalized: failed when a row says failed at this moment.
ReadNodeRuns(h) ==
    /\ At(h, "readNodes")
    /\ task' = [task EXCEPT ![h].status =
                    IF NodesWith("failed", GetWorkflowNodeRuns) # {} THEN "failed" ELSE "success"]
    /\ Goto(h, "complete")
    /\ UNCHANGED <<storeVars, redisVars, brokerVars, executed, faults>>

FinalizeRun(h) ==
    /\ At(h, "complete")
    /\ CompleteWorkflowRun(task[h].status)
    /\ Goto(h, "ack")
    /\ UNCHANGED <<redisVars, brokerVars, task, executed, faults>>

-----------------------------------------------------------------------------
(* What Subscribe does with the handler's result.                          *)

Release(h) ==
    /\ Goto(h, "idle")
    /\ task' = [task EXCEPT ![h] = NoTask]

\* Ack.  On a closed channel it fails and is only logged.
Acknowledge(h) ==
    /\ At(h, "ack")
    /\ Release(h)
    /\ UNCHANGED <<storeVars, redisVars, brokerVars, executed, faults>>

\* handleFailedMessage: a retry copy first, then the Ack of the original.
ScheduleRetry(h) ==
    /\ At(h, "failed")
    /\ PublishRetry(NodeOf(h), task[h].header)
    /\ Goto(h, "ack")
    /\ UNCHANGED <<storeVars, redisVars, task, executed, faults>>

\* Mutant: one retry too few.
GiveUpEarly(h) ==
    /\ At(h, "failed")
    /\ task[h].header >= MaxRetries - 1
    /\ DeadLetter(NodeOf(h), task[h].held)
    /\ Release(h)
    /\ UNCHANGED <<storeVars, redisVars, executed, faults>>

\* handleFailedMessage: the last retry failed, Nack without requeue.
GiveUp(h) ==
    /\ At(h, "failed")
    /\ task[h].header >= MaxRetries
    /\ DeadLetter(NodeOf(h), task[h].held)
    /\ Release(h)
    /\ UNCHANGED <<storeVars, redisVars, executed, faults>>

-----------------------------------------------------------------------------
(* Faults.                                                                 *)

DbLabels ==
    {"parents", "skipCheck", "markRunning", "record", "failRun", "children",
     "pendingRows", "readNodes", "complete"}

\* A statement fails: the handler returns the error.
DbError(h) ==
    /\ pc[h] \in DbLabels
    /\ Fault("db")
    /\ Goto(h, "failed")
    /\ UNCHANGED <<storeVars, redisVars, brokerVars, task, executed>>

\* A Redis command fails: counting falls back to the database, and a failed
\* rebuild of the set is only logged.
RedisError(h) ==
    /\ \/ At(h, "countRemaining") /\ Goto(h, "pendingRows")
       \/ pc[h] \in {"reinitLock", "reinitSet"} /\ Goto(h, "ack")
    /\ Fault("redis")
    /\ UNCHANGED <<storeVars, redisVars, brokerVars, task, executed>>

\* Publishing a child fails: the handler returns the error, the children
\* already published stay published.
PublishError(h) ==
    /\ At(h, "publish")
    /\ Fault("broker")
    /\ Goto(h, "failed")
    /\ UNCHANGED <<storeVars, redisVars, brokerVars, task, executed>>

\* Publishing the retry copy fails: the original is dead-lettered.
RetryPublishError(h) ==
    /\ At(h, "failed")
    /\ task[h].header < MaxRetries
    /\ Fault("broker")
    /\ DeadLetter(NodeOf(h), task[h].held)
    /\ Release(h)
    /\ UNCHANGED <<storeVars, redisVars, executed>>

\* The worker dies: what its handler had in memory is gone, and a delivery
\* it still held is redelivered with its headers.
Crash(h) ==
    /\ ~At(h, "idle")
    /\ Fault("crash")
    /\ IF task[h].held THEN Requeue(<<NodeOf(h), task[h].header>>) ELSE UNCHANGED brokerVars
    /\ Release(h)
    /\ UNCHANGED <<storeVars, redisVars, executed>>

\* The channel closes under a working handler: the broker redelivers the
\* task, the handler carries on.
ChannelClosed(h) ==
    /\ ~At(h, "idle")
    /\ task[h].held
    /\ Fault("requeue")
    /\ Requeue(<<NodeOf(h), task[h].header>>)
    /\ task' = [task EXCEPT ![h].held = FALSE]
    /\ UNCHANGED <<storeVars, redisVars, pc, executed>>

RunningSetLost ==
    /\ Fault("redis")
    /\ RunningSetExpires
    /\ UNCHANGED <<storeVars, brokerVars, handlerVars>>

\* Five seconds pass: no fault, the lock is meant to go.
ReinitLockExpires ==
    /\ LockExpires
    /\ UNCHANGED <<storeVars, brokerVars, handlerVars, faults>>

-----------------------------------------------------------------------------
\* The steps a handler takes by itself once it has a task.
HandlerStep(h) ==
    \/ CheckParents(h) \/ ShouldSkipNodeTaskExecution(h)
    \/ MarkRunning(h) \/ ExecuteAction(h) \/ RecordOutcome(h) \/ FailRun(h)
    \/ ReadChildren(h) \/ PublishChild(h)
    \/ CountRemaining(h) \/ CountPendingRows(h)
    \/ AcquireReinitLock(h) \/ ReinitializeRunningNodeSet(h)
    \/ ReadNodeRuns(h) \/ FinalizeRun(h)
    \/ Acknowledge(h) \/ ScheduleRetry(h) \/ GiveUp(h)

HandlerFault(h) ==
    \/ DbError(h) \/ RedisError(h) \/ PublishError(h) \/ RetryPublishError(h)
    \/ Crash(h) \/ ChannelClosed(h)
=============================================================================
