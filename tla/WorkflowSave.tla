---------------------------- MODULE WorkflowSave -----------------------------
(***************************************************************************)
(* Saving a workflow: the Save button of the builder (CanvasHeader.tsx),   *)
(* the API client that carries it (api/base.ts, workflow/client.ts), and   *)
(* the service and repository that create, update and archive workflows    *)
(* (services/workflow.go, repositories/workflow.go).                       *)
(*                                                                         *)
(* A node is its id, its category and its configuration; positions, names  *)
(* and edges are left out: the service computes their part of the delta in *)
(* the same way and decides nothing by them.  A row's id comes from the    *)
(* database, a canvas node has a row's id or, until the page is loaded     *)
(* again, the uuid it was dropped with.                                    *)
(***************************************************************************)
EXTENDS Naturals, FiniteSets

CONSTANTS
  NewIds,          \* uuids of dropped nodes
  TriggerIds,      \* those whose block is a schedule trigger
  Configs, EmptyConfig, NoRow,
  MaxWorkflows, MaxNodeId, MaxRequests, MaxEdits,   \* bounds
  CanFail          \* validation, database and network may fail

VARIABLES
  page,            \* the builder page on display: 0 is the new workflow
  canvas,          \* page -> its nodes
  workflows,       \* the rows of the database
  lastNodeId,      \* the serial of the node table
  requests,        \* everything sent, in order
  edits            \* the number of changes made on canvases
vars == <<page, canvas, workflows, lastNodeId, requests, edits>>

Wids == 1 .. MaxWorkflows
Pages == {0} \cup Wids
RowIds == 1 .. MaxNodeId
Node == [id : NewIds \cup RowIds, category : {"trigger", "action"}, config : Configs]
Workflow == [nodes : SUBSET Node, schedule : Configs \cup {NoRow}, status : {"draft", "archived"}]
Request == [kind : {"create", "update"}, wid : Pages, nodes : SUBSET Node,
            phase : {"sent", "read", "triggered", "stored", "ok", "failed"},
            existing : SUBSET Node]

TypeOK ==
  /\ page \in Pages
  /\ canvas \in [Pages -> SUBSET Node]
  /\ workflows \in [Wids -> Workflow \cup {NoRow}]
  /\ \A w \in Wids : workflows[w] # NoRow => \A n \in workflows[w].nodes : n.id \in RowIds
  /\ lastNodeId \in 0 .. MaxNodeId
  /\ DOMAIN requests \subseteq 1 .. MaxRequests
  /\ \A i \in DOMAIN requests : requests[i] \in Request
  /\ edits \in 0 .. MaxEdits

Stored == {w \in Wids : workflows[w] # NoRow}
Ids(nodes) == {n.id : n \in nodes}

\* How often each kind of node occurs: what a set of nodes is, its ids aside.
Contents(nodes) ==
  [k \in {"trigger", "action"} \X Configs |->
     Cardinality({n \in nodes : n.category = k[1] /\ n.config = k[2]})]

-----------------------------------------------------------------------------
(* The canvas.                                                             *)

SetCanvas(nodes) ==
  /\ edits < MaxEdits /\ edits' = edits + 1
  /\ canvas' = [canvas EXCEPT ![page] = nodes]
  /\ UNCHANGED <<page, workflows, lastNodeId, requests>>

DropNode(u) ==
  /\ u \notin Ids(canvas[page])
  /\ SetCanvas(canvas[page] \cup
       {[id |-> u, category |-> IF u \in TriggerIds THEN "trigger" ELSE "action",
         config |-> EmptyConfig]})

ConfigureNode(n, c) ==
  /\ n \in canvas[page] /\ n.config # c
  /\ SetCanvas((canvas[page] \ {n}) \cup {[n EXCEPT !.config = c]})

RemoveNode(n) == n \in canvas[page] /\ SetCanvas(canvas[page] \ {n})

\* Nobody opens or archives a workflow whose creation is not answered yet.
Settled == {w \in Stored : \A i \in DOMAIN requests :
              requests[i].kind = "create" /\ requests[i].wid = w => requests[i].phase \in {"ok", "failed"}}

\* The page of a workflow renders its rows each time it is opened, and is not
\* opened when there are none; the page of a new workflow shows what was left
\* on it.
OpenPage(p) ==
  /\ p # page /\ p \in {0} \cup Settled
  /\ p # 0 => workflows[p].nodes # {}
  /\ page' = p
  /\ canvas' = IF p = 0 THEN canvas ELSE [canvas EXCEPT ![p] = workflows[p].nodes]
  /\ UNCHANGED <<workflows, lastNodeId, requests, edits>>

-----------------------------------------------------------------------------
(* The Save button.                                                        *)

Send(kind, wid) ==
  /\ Cardinality(DOMAIN requests) < MaxRequests
  /\ requests' = [i \in DOMAIN requests \cup {Cardinality(DOMAIN requests) + 1} |->
                    IF i \in DOMAIN requests THEN requests[i]
                    ELSE [kind |-> kind, wid |-> wid, nodes |-> canvas[page], phase |-> "sent",
                          existing |-> {}]]

\* The update is not awaited: the success message comes before any answer.
SaveExisting ==
  /\ page # 0
  /\ Send("update", page)
  /\ UNCHANGED <<page, canvas, workflows, lastNodeId, edits>>

\* The creation is, but the button stays enabled meanwhile.
SaveNew ==
  /\ page = 0
  /\ Send("create", 0)
  /\ UNCHANGED <<page, canvas, workflows, lastNodeId, edits>>

\* The answer to a creation: go to the page of the workflow, or report.
CreateReturns(i) ==
  /\ requests[i].kind = "create" /\ requests[i].phase = "stored"
  /\ LET w == requests[i].wid
     IN /\ page' = w
        /\ canvas' = [canvas EXCEPT ![w] = workflows[w].nodes]
        /\ requests' = [requests EXCEPT ![i].phase = "ok"]
  /\ UNCHANGED <<workflows, lastNodeId, edits>>

-----------------------------------------------------------------------------
(* The service.                                                            *)

Answer(i, phase) == requests' = [requests EXCEPT ![i].phase = phase]

\* Rows with the next free ids for the given nodes.
NewRows(nodes) ==
  LET ids == (lastNodeId + 1) .. (lastNodeId + Cardinality(nodes))
      row == CHOOSE f \in [ids -> nodes] : \A x, y \in ids : f[x] = f[y] => x = y
  IN {[row[x] EXCEPT !.id = x] : x \in ids}

\* The network, the validation of the graph and its nodes, or the database
\* refuse a request before it changed anything.
Refuse(i) ==
  /\ CanFail
  /\ requests[i].phase = "sent"
  /\ Answer(i, "failed")
  /\ UNCHANGED <<page, canvas, workflows, lastNodeId, edits>>

\* The transaction of CreateWorkflow; a workflow without nodes is refused.
CreateWorkflow(i) ==
  /\ requests[i].kind = "create" /\ requests[i].phase = "sent" /\ requests[i].nodes # {}
  /\ Stored # Wids
  /\ lastNodeId + Cardinality(requests[i].nodes) <= MaxNodeId
  /\ LET w == Cardinality(Stored) + 1
         rows == NewRows(requests[i].nodes)
     IN /\ workflows' = [workflows EXCEPT ![w] = [nodes |-> rows, schedule |-> NoRow, status |-> "draft"]]
        /\ requests' = [requests EXCEPT ![i].phase = "read", ![i].wid = w]
        /\ lastNodeId' = lastNodeId + Cardinality(rows)
  /\ UNCHANGED <<page, canvas, edits>>

\* A workflow whose nodes were all deleted can not be saved again: "no rows
\* found for rendered workflow graph".
RefuseEmpty(i) ==
  /\ requests[i].phase = "sent"
  /\ LET nodes == IF requests[i].kind = "create" THEN requests[i].nodes
                  ELSE workflows[requests[i].wid].nodes
     IN nodes = {}
  /\ Answer(i, "failed")
  /\ UNCHANGED <<page, canvas, workflows, lastNodeId, edits>>

\* Executing the trigger of the stored workflow; without one, nothing.
ExecuteTrigger(i) ==
  LET w == requests[i].wid
      triggers == {n \in requests[i].nodes : n.category = "trigger"}
  IN /\ requests[i].kind = "create" /\ requests[i].phase = "read"
     /\ \/ /\ Answer(i, "stored")
           /\ \E t \in triggers : workflows' = [workflows EXCEPT ![w].schedule = t.config]
        \/ triggers = {} /\ Answer(i, "stored") /\ UNCHANGED workflows
        \/ CanFail /\ triggers # {} /\ Answer(i, "failed") /\ UNCHANGED workflows
     /\ UNCHANGED <<page, canvas, lastNodeId, edits>>

\* UpdateWorkflow reads the rows outside of any transaction.
ReadExisting(i) ==
  /\ requests[i].kind = "update" /\ requests[i].phase = "sent"
  /\ LET nodes == workflows[requests[i].wid].nodes
     IN /\ nodes # {}
        /\ requests' = [requests EXCEPT ![i].phase = "read", ![i].existing = nodes]
  /\ UNCHANGED <<page, canvas, workflows, lastNodeId, edits>>

\* The rows whose configuration a request changes.
NodesToUpdate(r) == {n \in r.nodes : n.id \in Ids(r.existing) /\ n \notin r.existing}

\* The loop over the nodes updates a changed trigger at once: the schedule,
\* if there is one, follows; a node the rows do not have ends it with an
\* error, before or after that.
UpdateTriggers(i) ==
  LET r == requests[i]
      missing == {n \in r.nodes : n.id \in RowIds \ Ids(r.existing)}
      changed == {n \in NodesToUpdate(r) : n.category = "trigger"}
      row == workflows[r.wid]
      Follows(t) == workflows' = [workflows EXCEPT ![r.wid].schedule =
                                    IF row.schedule = NoRow THEN NoRow ELSE t.config]
  IN /\ r.kind = "update" /\ r.phase = "read"
     /\ \/ \E t \in changed : Follows(t) /\ Answer(i, IF missing = {} THEN "triggered" ELSE "failed")
        \/ missing # {} /\ UNCHANGED workflows /\ Answer(i, "failed")
        \/ missing = {} /\ changed = {} /\ UNCHANGED workflows /\ Answer(i, "triggered")
     /\ UNCHANGED <<page, canvas, lastNodeId, edits>>

NodesToCreate(r) == {n \in r.nodes : n.id \in NewIds}

\* Mutant: rows are only deleted when the canvas knew them.
DeletesKnownRows(r) == {x \in Ids(r.existing) : x \notin Ids(r.nodes) /\ NodesToCreate(r) = {}}

NodeIDsToDelete(r) == Ids(r.existing) \ Ids(r.nodes)

\* The rows after the transaction of the repository: delete, update (what is
\* gone stays gone) and create.
UpdatedRows(r, rows, new) ==
  LET kept == {n \in rows : n.id \notin NodeIDsToDelete(r)}
      upd == NodesToUpdate(r)
  IN {n \in kept : n.id \notin Ids(upd)} \cup {n \in upd : n.id \in Ids(kept)} \cup new

\* Mutant: saving makes a draft of the workflow.
SavesAsDraft(i) ==
  LET r == requests[i]
      new == NewRows(NodesToCreate(r))
  IN /\ r.kind = "update" /\ r.phase = "triggered"
     /\ lastNodeId + Cardinality(NodesToCreate(r)) <= MaxNodeId
     /\ workflows' = [workflows EXCEPT ![r.wid].nodes = UpdatedRows(r, @, new),
                                       ![r.wid].status = "draft"]
     /\ lastNodeId' = lastNodeId + Cardinality(new)
     /\ Answer(i, "ok")
     /\ UNCHANGED <<page, canvas, edits>>

CommitUpdate(i) ==
  LET r == requests[i]
      new == NewRows(NodesToCreate(r))
  IN /\ r.kind = "update" /\ r.phase = "triggered"
     /\ lastNodeId + Cardinality(NodesToCreate(r)) <= MaxNodeId
     /\ workflows' = [workflows EXCEPT ![r.wid].nodes = UpdatedRows(r, @, new)]
     /\ lastNodeId' = lastNodeId + Cardinality(new)
     /\ Answer(i, "ok")
     /\ UNCHANGED <<page, canvas, edits>>

\* The transaction fails and is rolled back; the schedule is not part of it.
RollBackUpdate(i) ==
  /\ CanFail
  /\ requests[i].kind = "update" /\ requests[i].phase = "triggered"
  /\ Answer(i, "failed")
  /\ UNCHANGED <<page, canvas, workflows, lastNodeId, edits>>

\* ArchiveWorkflow: the schedule is deleted for a root node whose category is
\* "schedule".
TriggerTypeScheduled == "schedule"
ArchiveWorkflow(w) ==
  /\ w \in Settled /\ workflows[w].status # "archived"
  /\ workflows' = [workflows EXCEPT
       ![w].status = "archived",
       ![w].schedule = IF \E n \in workflows[w].nodes : n.category = TriggerTypeScheduled
                       THEN NoRow ELSE @]
  /\ UNCHANGED <<page, canvas, lastNodeId, requests, edits>>

-----------------------------------------------------------------------------
Init ==
  /\ page = 0
  /\ canvas = [p \in Pages |-> {}]
  /\ workflows = [w \in Wids |-> NoRow]
  /\ lastNodeId = 0
  /\ requests = [i \in {} |-> NoRow]
  /\ edits = 0

User ==
  \/ \E u \in NewIds : DropNode(u)
  \/ \E n \in canvas[page], c \in Configs : ConfigureNode(n, c)
  \/ \E n \in canvas[page] : RemoveNode(n)
  \/ \E p \in Pages : OpenPage(p)
  \/ SaveExisting \/ SaveNew
  \/ \E w \in Wids : ArchiveWorkflow(w)

Server(i) ==
  \/ Refuse(i) \/ RefuseEmpty(i)
  \/ CreateWorkflow(i) \/ ExecuteTrigger(i) \/ CreateReturns(i)
  \/ ReadExisting(i) \/ UpdateTriggers(i) \/ CommitUpdate(i) \/ RollBackUpdate(i)

Next == User \/ \E i \in DOMAIN requests : Server(i)

Spec == Init /\ [][Next]_vars

-----------------------------------------------------------------------------
(* Properties.                                                             *)

\* The delta is exact: an update whose rows nobody changed since it read them
\* leaves rows that are, ids aside, the nodes it was sent, however often the
\* same dropped nodes were saved before.
DeltaIsExact ==
  [][\A i \in DOMAIN requests :
       LET r == requests[i]
       IN (/\ r.kind = "update" /\ r.phase = "triggered" /\ requests'[i].phase = "ok"
           /\ workflows[r.wid].nodes = r.existing)
          => Contents(workflows'[r.wid].nodes) = Contents(r.nodes)]_vars

\* "This action cannot be undone.": no save, in flight or later, makes an
\* archived workflow a draft again.
ArchiveIsFinal ==
  [][\A w \in Stored : workflows[w].status = "archived" => workflows'[w].status = "archived"]_vars

\* "no trigger type found, treating as manual" is for workflows without one: an
\* archived workflow has no schedule left that would start it
\* (ArchiveWorkflow).
ArchivedIsUnscheduled ==
  \A w \in Stored : workflows[w].status = "archived" => workflows[w].schedule = NoRow

=============================================================================
