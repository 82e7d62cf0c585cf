------------------------------ MODULE Services ------------------------------
(***************************************************************************)
(* The services beside the execution of runs and the scheduler: the        *)
(* connection to RabbitMQ, the poller of calendar triggers, the connection *)
(* to Google, the validation of graphs, and the saving and archiving of    *)
(* workflows.  They share no state.  A behaviour is one of one of them,    *)
(* the one that part names; the others stay as they began.                 *)
(***************************************************************************)
EXTENDS BrokerConnection

CONSTANT None     \* stands for every value that is not there

\* The poller, of calendar triggers.
CONSTANTS Pollers, Events, TimeOf, Conditions, Minutes, CancelledTTL, MaxResults, MaxNow,
  MaxTroubles

\* The connection to Google.
CONSTANTS Callers, MaxGrants, MaxTokens

\* The validation of graphs.
CONSTANTS Nodes, Unknown, MaxEdges

\* Saving.
CONSTANTS NewIds, TriggerIds, Configs, EmptyConfig, MaxWorkflows, MaxNodeId, MaxSaves, MaxEdits

ASSUME PollerAssumption ==
  /\ IsFiniteSet(Events) /\ TimeOf \in [Conditions -> [Events -> Nat]]
  /\ Conditions \subseteq {"cancelled", "starting", "ending"}
  /\ Minutes \subseteq Nat /\ CancelledTTL \in Nat
  /\ {MaxResults, MaxNow, MaxTroubles} \subseteq Nat
  /\ None \notin Nat /\ None \notin Events

ASSUME GoogleAssumption ==
  /\ {MaxGrants, MaxTokens} \subseteq Nat
  /\ None \notin [refresh : (1 .. MaxGrants) \cup {None}, access : 1 .. MaxTokens]

ASSUME GraphAssumption == IsFiniteSet(Nodes) /\ Unknown \notin Nodes /\ MaxEdges \in Nat

VARIABLE part     \* the service at work

-----------------------------------------------------------------------------
(* The parts.                                                              *)

VARIABLES now, log, oldest, calendar, claims, late, runs, poller, calendarEdits, failures
pollerVars == <<now, log, oldest, calendar, claims, late, runs, poller, calendarEdits, failures>>

Poller == INSTANCE CalendarPoller WITH
  NoToken <- None, NoEvent <- None,
  row <- calendar, edits <- calendarEdits

VARIABLES isLoading, requests, popup, code, grants, live, tokens, fresh, integration, caller
googleVars == <<isLoading, requests, popup, code, grants, live, tokens, fresh, integration, caller>>

Google == INSTANCE GoogleIntegration WITH
  Failures <- TRUE, NoValue <- None, row <- integration

VARIABLES edges, order, at, level, verdict
graphVars == <<edges, order, at, level, verdict>>

Graph == INSTANCE GraphValidation

VARIABLES page, canvas, workflows, lastNodeId, saves, canvasEdits
saveVars == <<page, canvas, workflows, lastNodeId, saves, canvasEdits>>

Save == INSTANCE WorkflowSave WITH
  MaxRequests <- MaxSaves, NoRow <- None, CanFail <- TRUE, requests <- saves, edits <- canvasEdits

ASSUME SaveAssumption ==
  /\ {MaxWorkflows, MaxNodeId, MaxSaves, MaxEdits} \subseteq Nat
  /\ IsFiniteSet(NewIds) /\ TriggerIds \subseteq NewIds /\ EmptyConfig \in Configs
  /\ NewIds \cap (1 .. MaxNodeId) = {} /\ None \notin Save!Workflow

Parts == {"broker", "poller", "google", "graph", "save"}

-----------------------------------------------------------------------------
\* A part that is not at work begins in one state.
ServicesInit ==
  /\ part \in Parts
  /\ part # "graph" => edges = {}
  /\ Init /\ Poller!Init /\ Google!Init /\ Graph!Init /\ Save!Init
  /\ part # "poller" => calendar.condition = "starting"

Rest(p) ==
  CASE p = "broker" -> UNCHANGED vars
    [] p = "poller" -> UNCHANGED pollerVars
    [] p = "google" -> UNCHANGED googleVars
    [] p = "graph" -> UNCHANGED graphVars
    [] p = "save" -> UNCHANGED saveVars

Others(p) == UNCHANGED part /\ \A q \in Parts \ {p} : Rest(q)

ServicesNext ==
  \/ part = "broker" /\ Next /\ Others("broker")
  \/ part = "poller" /\ Poller!Next /\ Others("poller")
  \/ part = "google" /\ Google!Next /\ Others("google")
  \/ part = "graph" /\ Graph!Next /\ Others("graph")
  \/ part = "save" /\ Save!Next /\ Others("save")

servicesVars == <<part, vars, pollerVars, googleVars, graphVars, saveVars>>

\* The fairness of each part, while it is at work.
ServicesFairness ==
  /\ \A g \in Monitors : WF_vars(part = "broker" /\ Goroutine(g))
  /\ \A p \in Pollers : WF_pollerVars(part = "poller" /\ Poller!PollStep(p))

ServicesSpec == ServicesInit /\ [][ServicesNext]_servicesVars /\ ServicesFairness

-----------------------------------------------------------------------------
(* What each part promises; BrokerConnection's are stated there.           *)

\* The types of all parts.
ServicesTypeOK ==
  CASE part = "broker" -> TypeOK
    [] part = "poller" -> Poller!TypeOK
    [] part = "google" -> Google!TypeOK
    [] part = "graph" -> Graph!TypeOK
    [] part = "save" -> Save!TypeOK

\* No event starts a workflow twice, whatever the pollers of calendar triggers
\* do, unless a claim reaches Redis after the window of its event
\* (checkEventChanges, TryEventClaim).
OncePerEvent == part = "poller" => Poller!OncePerEvent

\* A calendar trigger that is being checked is queued again in the end, unless
\* something failed (checkEventChanges).
PolledAgain == Poller!PolledAgain

\* An event that is claimed has started the workflow or is about to, unless
\* something failed (checkEventChanges).
ClaimedRuns == part = "poller" => Poller!ClaimedRuns

\* Concurrent refreshes of a Google token never lose the refresh token, and put
\* an older one back only from a copy of the row that is stale (GetToken).
RefreshTokenKept == Google!RefreshTokenKept

\* ValidateWorkflowGraph accepts no graph with a cycle or with an edge to a node
\* that is not there, and refuses no layered one, in whatever order the nodes
\* are visited.
ValidationIsExact == part = "graph" => Graph!AcceptedIsRunnable /\ Graph!LayeredIsAccepted

\* An update that nobody interfered with stores what it was sent
\* (UpdateWorkflow).
DeltaIsExact == Save!DeltaIsExact

\* No save brings an archived workflow back (ArchiveWorkflow).
ArchiveIsFinal == Save!ArchiveIsFinal
=============================================================================
