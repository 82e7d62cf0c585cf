------------------------------- MODULE RunPage -------------------------------
(***************************************************************************)
(* The page of a run (workflow.$workflowID.run.$runID/route.tsx) on top of *)
(* the canvas store and the progress stream.  The effect that loads the    *)
(* nodes and opens the stream runs once per mount; the one that selects    *)
(* the flow runs for every run id.  The keys of the store are the runs.    *)
(***************************************************************************)
EXTENDS FlowStore, ProgressStream

CONSTANTS MaxVisits   \* bound of the model: how often the user opens a run

VARIABLES
  mounted,
  visits,
  mixed            \* history: the mounted page has shown another run
pageVars == <<mounted, visits, mixed>>
vars == <<flowVars, streamVars, pageVars>>

TypeOK ==
  /\ FlowTypeOK /\ StreamTypeOK
  /\ mounted \in BOOLEAN /\ mixed \in BOOLEAN /\ visits \in 0 .. MaxVisits

OpenRun == visits < MaxVisits /\ visits' = visits + 1

Event == Head(conn.events)
Consumed == [conn EXCEPT !.events = Tail(@)]

-----------------------------------------------------------------------------
\* Both effects of a mount: the flow with the nodes of the workflow, and a
\* request for the stream.  Statuses of an earlier visit stay.
Mount(r) ==
  /\ ~mounted /\ OpenRun
  /\ mounted' = TRUE /\ mixed' = FALSE
  /\ initializeFlow(r, setNodes(Initialized(r), RunNodes, [n \in RunNodes |-> EmptyConfig]))
  /\ conn' = NewConn(r)
  /\ UNCHANGED <<runVars, task, untold, pubsub>>

\* Another run on the same route: the component stays mounted.
SwitchRun(r) ==
  /\ mounted /\ r # currentKey /\ OpenRun
  /\ initializeFlow(r, Initialized(r))
  /\ mixed' = TRUE
  /\ UNCHANGED <<mounted, streamVars>>

Unmount ==
  /\ mounted
  /\ mounted' = FALSE
  /\ UnregisterClient
  /\ UNCHANGED <<flowVars, visits, mixed>>

\* An update goes to the flow on display.
OnNodeUpdate ==
  /\ conn # NoStream /\ conn.events # <<>>
  /\ Event # Completed
  /\ LET e == Event IN SetFlow(setNodeStatus(Current, e.node, e.status))
  /\ conn' = Consumed
  /\ UNCHANGED <<runVars, task, untold, pubsub, pageVars>>

\* The stream is closed and every node shows success.
OnCompleted ==
  /\ conn # NoStream /\ conn.events # <<>>
  /\ Event = Completed
  /\ SetFlow([Current EXCEPT !.nodeStatus = [n \in NodeIds |-> IF n \in RunNodes THEN "success" ELSE @[n]]])
  /\ UnregisterClient
  /\ UNCHANGED pageVars

\* Any error closes the stream for good.
OnError ==
  /\ conn # NoStream
  /\ UnregisterClient
  /\ UNCHANGED <<flowVars, pageVars>>

-----------------------------------------------------------------------------
Init ==
  /\ FlowInit /\ StreamInit
  /\ mounted = FALSE /\ visits = 0 /\ mixed = FALSE

Dispatch == dispatchUpdate /\ UNCHANGED <<flowVars, pageVars>>
Handle == Handler /\ UNCHANGED <<flowVars, pageVars>>
PublishEnds(h) ==
  /\ task[h].phase = "written"
  /\ Publish(h) \/ PublishFails(h) \/ HandlerStops(h)
  /\ UNCHANGED <<flowVars, pageVars>>
Receive == OnNodeUpdate \/ OnCompleted

Next ==
  \/ Executor /\ UNCHANGED <<flowVars, pageVars>>
  \/ Dispatch \/ Handle
  \/ \E r \in Runs : Mount(r) \/ SwitchRun(r)
  \/ Unmount \/ Receive \/ OnError

\* A handler that has written publishes, fails to or stops, and Redis, the listener, the
\* handlers of the streams and the browser deliver what is there.
Fairness ==
  /\ WF_vars(Dispatch) /\ WF_vars(Handle) /\ WF_vars(Receive)
  /\ \A h \in Handlers : WF_vars(PublishEnds(h))

Spec == Init /\ [][Next]_vars /\ Fairness

-----------------------------------------------------------------------------
(* Properties.                                                             *)

Listening == conn # NoStream /\ ~mixed
Lost == conn.lost \cup {n \in RunNodes : <<currentKey, n>> \in untold}
Silent ==
  /\ conn.phase = "streaming" /\ conn.chan = <<>> /\ conn.events = <<>>
  /\ pubsub = <<>> /\ \A h \in Handlers : task[h].phase # "written"

\* Register, read, replay: however the stored statuses and the messages
\* overlap, once everything sent has arrived the page shows the stored status
\* of every node, but of those whose last message was dropped, or told what was
\* not stored any more: two handlers of a join may write in one order and
\* publish in the other, and then the page stays wrong.
SilentMeansTrue ==
  Listening /\ Silent =>
    \A n \in RunNodes \ Lost : getNodeStatus(n) = nodeRun[currentKey][n]

\* The status of a node that succeeded is shown in the end, unless its
\* message was dropped, another handler of the node overwrites it, or the page
\* stops listening.
SuccessArrives ==
  \A n \in RunNodes :
    (Listening /\ nodeRun[currentKey][n] = "success")
      ~> (~Listening \/ getNodeStatus(n) = "success" \/ n \in Lost
          \/ nodeRun[currentKey][n] # "success")

=============================================================================
