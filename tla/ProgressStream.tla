--------------------------- MODULE ProgressStream ----------------------------
(***************************************************************************)
(* How the progress of a run reaches a browser: a handler of a task writes *)
(* the status of its node and then publishes it (services/executor.go),    *)
(* Redis carries it to a listener that puts it into the channel of every   *)
(* stream of that run (services/workflow_run.go), and a handler per stream *)
(* sends the stored statuses once and then what its channel holds          *)
(* (controllers/workflow_run.go).  Heartbeats carry nothing and are left   *)
(* out, and so are the streams of other pages: a stream changes nothing    *)
(* that another one reads.  Which tasks are delivered when is the subject  *)
(* of WorkflowExecution; here any node may be delivered at any time, to    *)
(* several handlers at once, as the join of two parents is.                *)
(***************************************************************************)
EXTENDS Naturals, Sequences, FiniteSets

CONSTANTS
  Runs, RunNodes,
  Ended,                  \* runs that have failed before
  Handlers,               \* the goroutines that execute tasks
  ChanSize,               \* the buffer of a stream's channel (10)
  MaxAttempts,            \* attempts at a node (3)
  MaxQueued,              \* bound of the model: messages on one leg of their way
  NoStream

VARIABLES
  runStatus, nodeRun, attempts,   \* the stored run
  task,                           \* what each handler does, and its copies of the row
  untold,                         \* history: nodes whose last message did not get
                                  \* out or told what another handler had overwritten
  pubsub,                         \* what Redis has not delivered yet
  conn                            \* the stream of the page
runVars == <<runStatus, nodeRun, attempts>>
streamVars == <<runStatus, nodeRun, attempts, task, untold, pubsub, conn>>

NodeStatuses == {"pending", "running", "success", "failed"}
Update == [node : RunNodes, status : NodeStatuses]
Idle == [phase |-> "idle"]
Task == [phase : {"accepted", "written", "executing"}, run : Runs, node : RunNodes,
         retries : 0 .. MaxAttempts, status : NodeStatuses]
Completed == [completed |-> TRUE]   \* the workflow_run_completed event

StreamTypeOK ==
  /\ runStatus \in [Runs -> {"running", "ended"}]
  /\ nodeRun \in [Runs -> [RunNodes -> NodeStatuses]]
  /\ attempts \in [Runs -> [RunNodes -> 0 .. MaxAttempts]]
  /\ task \in [Handlers -> {Idle} \cup Task] /\ untold \subseteq Runs \X RunNodes
  /\ conn # NoStream =>
       /\ conn.run \in Runs /\ conn.lost \subseteq RunNodes
       /\ conn.phase \in {"requested", "registered", "read", "streaming", "ended"}
       /\ Len(conn.chan) <= ChanSize

-----------------------------------------------------------------------------
(* A handler of a task: the row first, then the message.                   *)

\* shouldSkipNodeTaskExecution: a copy of the retry count is taken along.
AcceptTask(h, r, n) ==
  /\ task[h] = Idle
  /\ nodeRun[r][n] # "success" /\ attempts[r][n] # MaxAttempts
  /\ task' = [task EXCEPT ![h] = [phase |-> "accepted", run |-> r, node |-> n,
                                  retries |-> attempts[r][n], status |-> "pending"]]
  /\ UNCHANGED <<runVars, untold, pubsub, conn>>

Write(h, status) ==
  /\ nodeRun' = [nodeRun EXCEPT ![task[h].run][task[h].node] = status]
  /\ task' = [task EXCEPT ![h].phase = "written", ![h].status = status]
  /\ UNCHANGED <<runStatus, untold, pubsub, conn>>

\* MarkWorkflowNodeAsRunning.
StartNode(h) ==
  /\ task[h].phase = "accepted"
  /\ attempts' = [attempts EXCEPT ![task[h].run][task[h].node] = task[h].retries + 1]
  /\ Write(h, "running")

\* UpdateWorkflowNodeRunStatus, when the action has been tried.
FinishNode(h, status) ==
  /\ task[h].phase = "executing" /\ status \in {"success", "failed"}
  /\ Write(h, status)
  /\ UNCHANGED attempts

\* After the first message the action, after the second the next task.
Told(h) == [task EXCEPT ![h] = IF task[h].status = "running"
                               THEN [task[h] EXCEPT !.phase = "executing"]
                               ELSE Idle]

\* A message tells what this handler has written, not what the row says by now.
Publish(h) ==
  LET t == task[h]
  IN /\ t.phase = "written" /\ Len(pubsub) < MaxQueued
     /\ task' = Told(h)
     /\ pubsub' = Append(pubsub, [run |-> t.run, node |-> t.node, status |-> t.status])
     /\ untold' = IF nodeRun[t.run][t.node] = t.status THEN untold \ {<<t.run, t.node>>}
                  ELSE untold \cup {<<t.run, t.node>>}
     /\ UNCHANGED <<runVars, conn>>

\* A publish that fails is logged.
PublishFails(h) ==
  LET t == task[h]
  IN /\ t.phase = "written"
     /\ task' = Told(h)
     /\ untold' = untold \cup {<<t.run, t.node>>}
     /\ UNCHANGED <<runVars, pubsub, conn>>

\* The handler crashes, or its next write to the database fails.
HandlerStops(h) ==
  LET t == task[h]
  IN /\ t # Idle
     /\ task' = [task EXCEPT ![h] = Idle]
     /\ untold' = IF t.phase = "written" THEN untold \cup {<<t.run, t.node>>} ELSE untold
     /\ UNCHANGED <<runVars, pubsub, conn>>

\* Which handler ends the run, and with which verdict, is the subject of
\* WorkflowExecution; here it may happen as soon as every node has been started,
\* and none has failed, or one of them is at its last attempt.
CompleteWorkflowRun(r) ==
  /\ runStatus[r] = "running"
  /\ \/ \A n \in RunNodes : nodeRun[r][n] \notin {"pending", "failed"}
     \/ \E n \in RunNodes : attempts[r][n] = MaxAttempts
  /\ runStatus' = [runStatus EXCEPT ![r] = "ended"]
  /\ UNCHANGED <<nodeRun, attempts, task, untold, pubsub, conn>>

-----------------------------------------------------------------------------
(* The listener.                                                           *)

\* Mutant: a stream is registered once it has sent the stored statuses.
RegisteredLate == conn # NoStream /\ conn.phase = "streaming"

\* A stream is registered before it reads the stored statuses.
Registered == conn # NoStream /\ conn.phase \in {"registered", "read", "streaming"}

\* Mutant: a full channel takes one more.
DispatchAlways ==
  /\ pubsub # <<>>
  /\ LET msg == Head(pubsub)
     IN conn' =
          IF ~Registered \/ conn.run # msg.run THEN conn
          ELSE [conn EXCEPT !.chan = Append(@, [node |-> msg.node, status |-> msg.status])]
  /\ pubsub' = Tail(pubsub)
  /\ UNCHANGED <<runVars, task, untold>>

\* A message for a channel that is full is dropped.
dispatchUpdate ==
  /\ pubsub # <<>>
  /\ LET msg == Head(pubsub)
     IN conn' =
          IF ~Registered \/ conn.run # msg.run THEN conn
          ELSE IF Len(conn.chan) = ChanSize
               THEN [conn EXCEPT !.lost = @ \cup {msg.node}]
               ELSE [conn EXCEPT !.chan = Append(@, [node |-> msg.node, status |-> msg.status]),
                                     !.lost = @ \ {msg.node}]
  /\ pubsub' = Tail(pubsub)
  /\ UNCHANGED <<runVars, task, untold>>

-----------------------------------------------------------------------------
(* The handler of a stream.                                                *)

NothingRead == [n \in RunNodes |-> "pending"]

NewConn(r) == [run |-> r, phase |-> "requested", chan |-> <<>>, snapshot |-> NothingRead,
               events |-> <<>>, lost |-> {}]

RegisterClient ==
  /\ conn # NoStream /\ conn.phase = "requested"
  /\ conn' = [conn EXCEPT !.phase = "registered"]
  /\ UNCHANGED <<runVars, task, untold, pubsub>>

\* A run that is not running is complete, whatever its status.
GetWorkflowRunStatus ==
  LET r == conn.run
  IN /\ conn # NoStream /\ conn.phase = "registered"
     /\ conn' = IF runStatus[r] # "running"
                 THEN [conn EXCEPT !.phase = "ended", !.events = Append(@, Completed)]
                 ELSE [conn EXCEPT !.phase = "read", !.snapshot = nodeRun[r]]
     /\ UNCHANGED <<runVars, task, untold, pubsub>>

\* The orders in which Go may visit a map whose keys are the nodes.
MapOrders == {f \in [1 .. Cardinality(RunNodes) -> RunNodes] :
                \A n \in RunNodes : \E i \in 1 .. Cardinality(RunNodes) : f[i] = n}

\* One event per node, in the order of a Go map.
SendNodeUpdates ==
  /\ conn # NoStream /\ conn.phase = "read"
  /\ \E nodes \in MapOrders :
       conn' = [conn EXCEPT !.phase = "streaming", !.snapshot = NothingRead,
                            !.events = @ \o [i \in 1 .. Cardinality(RunNodes) |->
                                          [node |-> nodes[i], status |-> conn.snapshot[nodes[i]]]]]
  /\ UNCHANGED <<runVars, task, untold, pubsub>>

\* Mutant: the callback ends the stream after a message.
StreamOnce ==
  /\ conn # NoStream /\ conn.phase = "streaming" /\ conn.chan # <<>>
  /\ Len(conn.events) < MaxQueued
  /\ conn' = [conn EXCEPT !.chan = Tail(@), !.events = Append(@, Head(conn.chan)), !.phase = "ended"]
  /\ UNCHANGED <<runVars, task, untold, pubsub>>

Stream ==
  /\ conn # NoStream /\ conn.phase = "streaming" /\ conn.chan # <<>>
  /\ Len(conn.events) < MaxQueued
  /\ conn' = [conn EXCEPT !.chan = Tail(@), !.events = Append(@, Head(conn.chan))]
  /\ UNCHANGED <<runVars, task, untold, pubsub>>

\* The page closed the stream: the handler returns, at once or when it next
\* writes, which nobody can tell apart.
UnregisterClient ==
  /\ conn' = NoStream
  /\ UNCHANGED <<runVars, task, untold, pubsub>>

-----------------------------------------------------------------------------
StreamInit ==
  /\ runStatus = [r \in Runs |-> IF r \in Ended THEN "ended" ELSE "running"]
  /\ nodeRun = [r \in Runs |-> [n \in RunNodes |-> IF r \in Ended THEN "failed" ELSE "pending"]]
  /\ attempts = [r \in Runs |-> [n \in RunNodes |-> IF r \in Ended THEN MaxAttempts ELSE 0]]
  /\ task = [h \in Handlers |-> Idle] /\ untold = {}
  /\ pubsub = <<>>
  /\ conn = NoStream

Executor ==
  \/ \E h \in Handlers :
       \/ \E r \in Runs, n \in RunNodes : AcceptTask(h, r, n)
       \/ StartNode(h) \/ \E status \in NodeStatuses : FinishNode(h, status)
       \/ Publish(h) \/ PublishFails(h) \/ HandlerStops(h)
  \/ \E r \in Runs : CompleteWorkflowRun(r)

Handler == RegisterClient \/ GetWorkflowRunStatus \/ SendNodeUpdates \/ Stream

=============================================================================
