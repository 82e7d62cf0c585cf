# TinyAutomator: a TLA+ verification project

TinyAutomator runs user-defined workflows: graphs of triggers and actions that are
drawn in a browser, stored by a service, started by schedules, calendars or hand,
and executed by workers. This project models the backend that decides *when* a node
runs and *what* is reported about it, and the frontend in which workflows are built,
saved, listed and watched; it checks the models with TLC and proves their safety
with TLAPS.

## 1. The system

The backend (`src/backend`, Go):

| component | state | operations | talks to |
|---|---|---|---|
| Workflow run store (`repositories/workflow_run.go`) | `workflow_run`, `workflow_node_run` rows in PostgreSQL | create a run, mark a node running, store an outcome, complete a run, reads | orchestrator, executor |
| Running node set (`clients/redis`) | a Redis set and a lock per run, both with a TTL | fill, remove a node and count, take the lock | orchestrator, executor |
| Task queue (`clients/rabbitmq`) | work queue, delayed retry exchange, dead letter queue | publish, consume, acknowledge, retry with backoff, dead-letter | orchestrator, executor |
| RabbitMQ connection (same file) | connection, channel, `reconnecting`, goroutines | connect, monitor, reconnect, close | everyone who publishes or consumes |
| Orchestrator (`services/orchestrator.go`) | locals of one call | start a run: rows, running set, first tasks | called by the HTTP server, the scheduler, the calendar poller |
| Executor (`services/executor.go`, worker) | locals of up to 100 goroutines per worker | run one node, enqueue its children, decide whether the run is over | store, running set, queue |
| Scheduler (`services/scheduler.go`, `cmd/scheduler`) | `workflow_schedule` rows, goroutines per process | create, edit, claim, start, reschedule, stop | orchestrator |
| Workflow service (`services/workflow.go`) | workflows, nodes, edges, rows of triggers | validate a graph, create, update, archive | scheduler, calendar |
| Calendar poller (`services/calendar.go`) | `workflow_calendar` rows, sync tokens, claims of events in Redis | claim, fetch changes, start, write back | orchestrator, Google |
| Progress stream (`services/workflow_run.go`, controller) | registered clients with bounded channels | register, forward, unregister | Redis pub/sub, run page |
| Google connection (`services/oauth_integration.go`, `controllers/oauth.go`) | a row of tokens per user | consent, callback, refresh | Google, every caller of `GetToken` |

The frontend (`src/frontend`, TypeScript and React):

| component | state | operations |
|---|---|---|
| Canvas store and builder (`Canvas/flowStore.ts`, `CanvasBody.tsx`) | per page: nodes, edges, selected node, handle animations | drop, connect, delete, select, configure, switch pages |
| Inspector panel (`InspectorPanel/index.tsx`) | width, open, effects that set each other's inputs | drag, toggle, select |
| Block panel (`BlockPanel.tsx`, `SearchBar.tsx`) | search, favourites, recently used | search, star, drag, clear, shortcuts |
| Workspace shell (`sidebar.tsx`, `_workspace_layout`) | sidebar, cookie, theme, page, panels | toggle, resize the window, change the page, reload |
| Saving (`CanvasHeader.tsx`, `api/`) | requests in flight | save, run, answers |
| Workflow library | address parameters, loader, list, dialog | filter, search, page, archive |
| Run page | event source, statuses | open a run, messages, errors, switch |
| Settings forms: calendar trigger, schedule, email, calendar event | form, pickers, selector, node configuration | edit, save, reset, reopen, preview |

What is hard: nothing in the database guards a status change, so every decision is
a read followed by a write with other workers in between; the same node can be
enqueued by several parents; a task is redelivered after a crash from any
statement on; two retry counters must fit together; the end of a run is found
through a Redis set that may be missing; schedulers and pollers claim rows that only
they release, with a copy of the row in hand; a trigger's row and the workflow's rows
are changed outside one transaction. In the browser, answers, timers, files and
navigations end in any order, copies of state (a form, a select, a selected node, a
stream) outlive what they were copied from, and what a form reads back is not
always what it saved.

What makes it correct: a node runs after its parents (`ParentsFirst`), no ready
node is forgotten (`NoLostNode`, `NoLostRetry`), the verdict is true, given once
and always given (`OutcomeIsTrue`, `ImplementsContract`, `RunCompletes`), a node
does not run twice at once (`OneHandlerPerNode`), an occurrence of a schedule or of an
event is served once (`ServedOnce`, `OncePerEvent`) and no row is stuck
(`RunningIsOwned`, `DueIsServed`, `PolledAgain`); one goroutine replaces a connection
(`OneMonitor`); a save stores the canvas (`DeltaIsExact`); a page that
listens shows what is stored (`SilentMeansTrue`); the canvas stays a graph
(`CanvasIsConsistent`); and settings survive being saved and opened
(`ReopenKeepsSettings`). `PROJECT.json` lists the hazards behind each.

## 2. The modules

```
WorkflowGraph ── WorkflowRunStore ─┐
             ├── RunningNodeSet ───┼── Orchestrator ─┐
             ├── TaskQueue ────────┤                 ├── WorkflowExecution ── MCWorkflowExecution
Environment ───────────────────────┴── Executor ─────┘        │    └── WorkflowExecutionProofs
                                                          RunContract     └── ForestProofs
                                                          (refined by it)
Scheduler ── SchedulerProofs, MCScheduler
BrokerConnection ─┐
CalendarPoller ───┤
GoogleIntegration ┼─ Services ── MCServices
GraphValidation ──┤      └── ServiceProofs ── WorkflowServiceProofs
WorkflowSave ─────┘  (page, API client, service and rows in one)

Arrays ─┬─ FlowStore ─┬─ Canvas ── BlockPanel ─┐
        │             └─ RunPage ──────────────┤
        │   ProgressStream ─┘ (executor, stream│
        │                       and page in one)├─ Pages ── MCPages
        │   InspectorResize ───────────────────┤     └── PageProofs
        │   WorkspaceShell ────────────────────┤
        └── WorkflowLibrary ───────────────────┘

Arrays ── EmailForm ─────────────┐
CalendarTrigger, ScheduleForm ───┼─ Settings ── MCSettings
EventForm ───────────────────────┘      └── SettingsProofs

ArrayProofs ── lemmas about Arrays, for PageProofs and SettingsProofs
```

Backend:

* **WorkflowGraph**: nodes, edges, triggers as constants. The graph is any finite
  graph; the model follows one run of a workflow that nobody edits meanwhile.
* **WorkflowRunStore**: one operator per statement of the repository. Rows are
  functions from nodes to a status and a retry count. As in the code no statement
  tests the status it replaces.
* **RunningNodeSet**: the two Redis keys. An empty set and a missing key are the
  same thing to Redis, hence one variable.
* **TaskQueue**: a bag of `<<node, x-retry-count>>`, which covers the delays and
  the 100 concurrent consumers: any waiting message may be next.
* **Environment**: the kinds of faults an instance admits and how many.
* **Orchestrator**: `OrchestrateWorkflow`, one action per statement or publish, with its error
  returns and a crash of its process at any of them.
* **Executor**: a handler's program counter walks through `ExecuteWorkflowNode`;
  each action is one statement, one Redis command or one publish, so all the
  interleavings the services can observe are there. `executed` is history: the
  nodes whose action has really succeeded.
* **WorkflowExecution**: the composition, fairness and properties of a run.
* **RunContract**: what a run promises to the user watching it, in terms of the
  finished nodes and the verdict only.
* **Scheduler**: rows, scheduler processes, claimed jobs and users. A job carries
  the copy of the row it was claimed with; starting the workflow is one step
  because its result is only logged. The dates are numbers, a period is constant.
* **BrokerConnection**: the goroutines that run `monitorConnection`, numbered in the
  order they are started, each with a program counter: the flag under the lock,
  `NotifyClose`, the watch, the attempts, the setup, the deferred clearing of the flag.
* **CalendarPoller**: one row of `workflow_calendar`, processes that claim it, fetch
  changes page by page with a sync token, look at an event's time by the clock, claim it in
  Redis at a later moment, start the workflow and write the row back from their copy; users
  who edit the condition and the minutes; calls that fail. `late` is history: events that were claimed
  after their window.
* **WorkflowSave**: the canvas, the requests in flight and their answers, and the
  service statement by statement: validation, the delta of `UpdateWorkflow`, the
  update of the trigger before the transaction, creation, archiving.
* **GraphValidation**: `ValidateWorkflowGraph` step by step. Init enumerates every
  graph; which topological order the library returns is left open.
* **GoogleIntegration**: the button, the popup, the callback, the row, and callers of
  `GetToken` between reading the row and writing it back. Google's answer to a refresh carries
  a new refresh token or none, and the code stores one that it carries. Refresh tokens are
  numbered in the order in which Google gives them out (`grants`).
* **ProgressStream**: handlers of tasks, several of one node if need be, each of which writes
  a status and then publishes what it wrote; the Redis channel; the handler of a client
  with its bounded channel. A full channel drops the message. `untold` is history: nodes whose last
  message did not get out, or told what another handler had overwritten by then.

Frontend:

* **Arrays** is `Array.prototype.filter`, as a recursive function over the array, and
  `Array.from(new Set(...))`.
* **FlowStore** is the store's methods as operators on one page's record; **Canvas**
  makes actions of them, with React Flow's own deletions, the loaders of
  pages and the settings form that stays mounted. A node object has an identity, so
  that a form can edit an object nobody reads any more.
* **BlockPanel**, **InspectorResize**, **WorkspaceShell**: local state and effects of the
  panels. An effect is a step of its own after the commit of a render, so that
  further events may come in between. `WorkspaceShell` knows which page is up: the canvas layout with
  its shortcuts is around the builder and around the page of a run, and only the builder has the
  search field.
* **WorkflowLibrary**: address, loader, list and dialog; a navigation overtakes the
  one before it.
* **RunPage** composes the page with `ProgressStream`: rows are loaded, then the event
  source opens, then messages come.
* **CalendarTrigger**, **ScheduleForm**, **EmailForm**, **EventForm**: each form's fields as a
  record, validation and transformation as operators, and the node's configuration.
  `CalendarTrigger` also has the selector that loads the calendars. Two of them are
  put beside backend code: what `triggers/calendar.go` decodes and `services/calendar.go` accepts,
  and what `CalculateNextRun` makes of a schedule. A number typed into the calendar trigger may
  be a fraction (`Scale`), and the browser's constraint on the field goes with the field. The
  form and the preview of a schedule are in the browser's time, `Zone` minutes ahead of UTC; what is
  saved, and what the scheduler computes, is in UTC.

Suites: **Services**, **Pages** and **Settings** put components that share no state side by
side. `part`, `screen` and `nodeType` say which of them is at work; it never changes, the
others stay at their initial state, and the initial predicate picks any. Their state space is
the sum of those of the components and not the product, a property of one component is
stated under the condition that it is at work, and action and temporal properties are
stated of the component as it is (one at rest never takes a step). The constants of the
suites are parameters, so that the proofs are about all of their values; `MCServices` with
`services.cfg`, `MCPages` with `pages.cfg` and `MCSettings` with `settings.cfg` give the ones of the runs.
`nodeType` of `Settings` is a thing of the code: `SettingsTab` mounts one of the four forms.

Names follow the source. Operators whose comment begins with "Mutant" are
plausible bugs that the properties are tried against; no specification uses them.

What is abstracted: payloads, configuration, error texts, timestamps, logging, the
backoff delays, and messages of the progress stream (publishing them never changes
control: a failure is logged). An action of a workflow is one step that succeeds or
fails. `ValidateSchedule` in `RunScheduledWorkflow` always passes, because a
claimed row says running, and is therefore not a branch of the model.

In the frontend, drawing, wording, positions and styles are left out, a text is a
member of a small set, and React's batching is one step per event handler.

## 3. What is checked

Runs that pass:

| run | instance | properties |
|---|---|---|
| `forest` | t→x→y and g→p, retry limits 3/3, no faults, fair | `TypeOK` `NoLostRetry` `NoDeadLetter` `OneHandlerPerNode` `OutcomeIsTrue` `ImplementsContract` `RunCompletes` |
| `join` | t→{x,y}→g, 3/3, no faults, fair | `RunCompletes` |
| `join_faults` | t→{x,y}→g, 2/2, one fault of any kind | `ParentsFirst` `NoLostNode` |
| `schedule_once` | 2 workflows, 2 processes, polls of 1 row, a stop and 2 failures | `ScheduleTypeOK` `ServedOnce` |
| `schedule_edits` | 1 workflow, 2 processes, 2 edits, fair | `RunningIsOwned` `DueIsServed` |
| `services` | the five services, fair goroutines | see below |
| `pages` | the six parts of the workspace, fair effects, timers and messages | see below |
| `settings` | the four forms | see below |

The parts of the suites:

| part | instance | properties |
|---|---|---|
| broker (`BrokerConnection`) | 3 goroutines, 3 attempts | `OneMonitor` `ReconnectEnds` |
| poller (`CalendarPoller`) | 2 processes, 2 events, one edit, crash or failure | `OncePerEvent` `ClaimedRuns` `PolledAgain` |
| google (`GoogleIntegration`) | 2 callers, 2 refresh tokens, 3 access tokens, failures | `RefreshTokenKept` |
| graph (`GraphValidation`) | all graphs of 4 nodes with up to 5 edges, with or without a dangling one | `ValidationIsExact` |
| save (`WorkflowSave`) | a trigger and an action, 3 requests, failures | `DeltaIsExact` `ArchiveIsFinal` |
| canvas (`Canvas`) | 2 pages, 3 nodes, 2 kinds of blocks | `CanvasIsConsistent` `ConfigsSurviveEditing` |
| panel (`BlockPanel`) | 3 blocks, 2 of them remembered | `PanelListsAreTrue` |
| inspector (`InspectorResize`) | widths 3 to 6, drags to -1 to 7 | `InspectorIsLegal` `PagesSettle` |
| shell (`WorkspaceShell`) | its whole state | `SearchIsReachable` `PagesSettle` |
| library (`WorkflowLibrary`) | 2 workflows, 1 tag, 2 searches, pages of one | `LibraryIsTrue` `PagesSettle` |
| run (`RunPage`) | 2 runs, 1 node, 2 handlers, channels of one message, 2 visits | `SilentMeansTrue` `SuccessArrives` |
| calendar_event (`CalendarTrigger`) | every option, custom amounts of -1, 1.5 and 25, 2 keywords | `SavedIsValid` |
| schedule (`ScheduleForm`) | 3 instants around a month's end, 3 days, 9 hours ahead of UTC | `ReopenKeepsSettings` `ConversionsRoundTrip` `PreviewsAreTrue` |
| send_email (`EmailForm`) | 2 recipients, 1 file, texts that are and are not addresses | `SavedIsValid` |
| google_calendar_create_event (`EventForm`) | delays below, at and above the limits | `SavedIsValid` `ReopenKeepsSettings` `PreviewsAreTrue` |

Each suite also has a type invariant, made of the types of its parts. A property that
several parts have (`SavedIsValid`, `ReopenKeepsSettings`, `PreviewsAreTrue`, `PagesSettle`) says
in its definition which property of the part's module it stands for.

Runs in which the code breaks what the repository says of it (`findings` quotes the
line that says so):

| run | property | what happens |
|---|---|---|
| `join_runs_twice` | `SuccessIsFinal` | both parents enqueue the join; it is run again after it succeeded |
| `crash_on_last_attempt` | `ExhaustedNodeFailsRun` | a crash in the third attempt turns a failure into a success |
| `graceful_stop` | `GracefulStop` | SIGTERM kills the goroutines main is waiting for |
| `archive_schedule` | `ArchivedIsUnscheduled` | an archived workflow keeps the schedule that starts it |

**Known limits of the code.** The models follow the code here too, and the properties
are worded so that they claim nothing in these cases; no run isolates them.

* Runs: without the running set, success may be reported while the last node runs; with
  a crash, a retry that meets a parent being run again is dropped. A node can be lost in the
  same way: in t→{x,y}→q→p→n both parents enqueue q, p's handler dies between its success and
  its children while q runs the second time, p's redelivered task finds its parent running
  and is thrown away, and n stays pending for ever. The running set holds no roots, so a
  root without children is not waited for.
* Connection: the monitor that a reconnect starts may find the flag of its predecessor
  still set and return, and the next loss goes unnoticed; nothing subscribes again after a
  reconnect.
* Calendar: any failed call, and a sync token that Google no longer takes, leave the row
  running and unpolled; of two events cancelled between two polls only the first starts the
  workflow; a poll under way writes the old configuration over an edit. A poll that finds an event in its
  window, and whose claim reaches Redis after the window and after an earlier claim has expired, starts
  the workflow a second time.
* Google: a second consent is not stored, because the insert meets the row that is there. Of two
  refreshes at the same time, one of which brings a new refresh token, the other may write the
  old one back over it.
* Saving: success is shown before the answer; two saves in flight store the dropped nodes
  twice; an update whose transaction fails has already moved the schedule; a creation
  whose trigger fails leaves the workflow.
* Canvas: a settings form keeps the values of the node it was opened for when another node
  of the type is selected; after a workflow is opened again the inspector may edit node
  objects of the earlier visit. The sidebar writes a cookie that nothing reads.
* Inspector: `Math.max` in `handleMouseMove` has one argument, so that a closed panel dragged
  to the right keeps a width below zero until the next drag or toggle. That is no CSS length: the
  browser drops it, and the panel is as wide as its content.
* Search: on the page of a run "/" sets a flag that nobody reads. It stays set, and the
  builder that comes up next takes the focus for it.
* Blocks: the stars in the section of the favourites toggle nothing (and are left out of `BlockPanel`).
* Library: the archive tab may be loaded before an archive request is done; a list longer
  than a page shows no page numbers; with a tag filter the empty state says that there are
  no workflows at all.
* Run page: it keeps the stream of the run it was mounted for when the run id changes, and
  shows every node of a completed run as successful even if the run failed. Two handlers of a join
  may store their outcomes in one order and publish them in the other; the page then shows the one
  that was overwritten, and nothing corrects it.
* Calendar trigger: saved keywords are a list where the opened form wants text; "Immediately"
  and too many keywords are refused by the backend; the option "1 week" stands for
  two days; clearing the custom amount keeps its time. A fraction can be saved: type 1.5, then pick
  the time "1.5 minutes" that the list now offers; the field is gone and its constraint with it, the
  schema takes any number, and the backend can not decode 1.5 into its integer.
* Schedule: in the last half hour of a day the form starts with a time its validation
  refuses; a morning time in the evening can only be changed in two steps, the first of
  which is disabled; after a reset the select shows the old type; monthly on the 31st is
  previewed at each month's end and run on the 3rd; the scheduler counts months in UTC, so that
  monthly from 1 February 08:00 in Tokyo, which is 31 January there, next runs on 4 March where the preview
  says 1 March; a schedule that is over opens as it was saved but can not be saved again.
* Email: a file or an edited chip can add a recipient twice; a recipient added while a file
  is read is lost; the loading message ends with the first of several files.
* Event: "tomorrow" is previewed for today; a reset stores no time zone; time, days and
  duration can be missing in what is saved.

The scope of the passing properties is part of the result. `OutcomeIsTrue`,
`OneHandlerPerNode`, `NoDeadLetter`, `NoLostRetry` and `ImplementsContract` hold
where every node has at most one parent and nothing but actions fails: with a join
the double execution above breaks all of them. `NoLostNode` holds in every graph as long as
no handler is cut short by a crash or an error; with one such fault it holds where, as in
`join_faults`, the children of joins are leaves. `RunCompletes` does not survive a
crash. `ParentsFirst` holds always. Section 4 has the theorems.

**Bounds.** Two handlers suffice for every race on one node, and a third adds only
more of the same pairs. Graphs of four and five nodes have a join, a branch
beside it, a chain of actions and an action as a root. The retry limits are the
code's 3 and 3 where no faults are admitted and 2 and 2 (still equal, which is
what matters between them) in the fault runs. `MaxFaults` is one: each
fault leads back to a state the handlers reach otherwise. The clock of the
scheduler runs to 4 with a period of 2, so that a date can be missed by a whole
period. Symmetry of handlers and of processes is used in safety runs only.

In the suites: two processes, callers, handlers or overlapping requests, because every race here
is between a read of one and a write of another; two events, refresh tokens or edits, so that
the second meets what the first left. `MaxTroubles` is one edit, crash, failed call or expired token of
the poller, whose minutes are three: the clock runs to 3, far enough for a claim of the first moment to
expire before the last. Other minutes, and edits from one number to another, are in the
theorems. `MaxQueued` bounds the messages on one leg of their way to a page (a publish waits for room,
which changes no order), `MaxVisits` how often a run is opened: the second visit finds what the
first has left in the store. Channels, pages and lists are bounded by one
or two, so that they are full. The dates of `ScheduleForm` are the last day of
January, the hours around midnight and the first minutes of February, where rounding, the
clock of twelve hours and the addition of months have their edges, and the browser is in a zone (540
minutes ahead of UTC) in which a day and its month begin on the day before. `EventForm` types delays
of -1, 30 and 31 where 1 to 30 are allowed. Four nodes are the fewest with two paths of
different length into a node that has a child.

**Scope of the suites' properties.** `OncePerEvent` is about events whose claims reached Redis in
their window (with `late` counted in, TLC finds an event that starts the workflow twice on the same
instance, with one process); `RefreshTokenKept` allows an older refresh token back from a caller whose copy
of the row is stale, and from nobody else. `DeltaIsExact` is about an update whose rows
nobody changed since it read them. `SilentMeansTrue` and `SuccessArrives` are about nodes whose last message
was neither dropped by a full channel nor lost or out of date when it was published.
`InspectorIsLegal` leaves out the width of a closed panel that was dragged to the right,
`SearchIsReachable` the page of a run, which has no search field.
`PreviewsAreTrue` is about days that every month has, in local time and in UTC, and events whose
fields are set; `SavedIsValid` leaves out "Immediately", fractions of a minute and the number of keywords of a
calendar trigger; the empty message in `LibraryIsTrue` leaves out tag filters; `PolledAgain` and
`ClaimedRuns` hold as long as no call has failed. The hazards that lie outside these scopes name
no property in `PROJECT.json`, or say in a note which part of them is covered.

**Deadlock** is checked for the forms, which always offer something to do. Elsewhere the system
may stop: a run that has its verdict, bounded clocks and requests, a closed connection, a
validation that has returned, runs that have ended.

**Fairness.** `WorkflowExecution!Fairness`: the orchestrator, every handler that
has a task and the broker's delivery to free handlers. Goroutines run until they
return, every call they make has returned or failed, and RabbitMQ delivers to
consumers with free prefetch. Faults and expiring keys are never obliged to
happen. `Scheduler!Fairness`: a process polls on a ticker, and claimed jobs
go on; jobs are finite in number because the clock is, so one condition for all of
them starves none. The clock need not advance. `CalendarPoller`: each
process goes on with its poll, in which every call returns or fails. `BrokerConnection`:
each goroutine runs; the broker need not come back, and `ReconnectEnds` then ends with the
attempts. `RunPage`: messages in channels are forwarded and received, and the executor
publishes what it wrote, fails to or stops (`PublishEnds`); runs need not go on. `InspectorResize`, `WorkspaceShell`,
`WorkflowLibrary`: React commits a render that is due, timers fire, loaders answer or fail.
Nothing obliges a user to do anything.

## 4. What is proved

Every theorem is about all values of the constants: any graph, any numbers of workers,
processes, events, nodes and requests, any retry limits, any number of faults of the kinds it
admits. A theorem with a hypothesis says so in its statement.

### Runs

* `TypeCorrect`: `Spec => []TypeOK`. It is strengthened by `LocalsReady`: a handler
  about to count an attempt has one left, and one about to store an outcome has
  one. Without the first `nodeRetry` could leave its range.
* `DataflowOrder`: `Spec => []ParentsFirst`. The strengthening `Dataflow` says that a row
  showing success is true of the action (`RowsAreTrue`), that a handler past the
  parents' check has parents that have really succeeded (`ClearedToRun`), and that
  an outcome about to be stored is true (`OutcomesAreTrue`). Rows do go back from
  success to running, so the argument is about the history `executed`, which only
  grows; this is why neither double execution nor any fault can break it.
* `NoNodeLost`: `[]NoLostNode` when triggers are roots (`TriggersAreRoots`) and faults are
  Redis failures and redelivered tasks only (`NothingAborts`). The invariant `Remembered` says
  who is going to bring a ready node: the orchestrator, a task that waits, a handler that has
  not marked it running yet, or a handler of a parent that has stored its success and not yet
  enqueued its children. The last two are the heart of it: of two parents that race, the one
  that writes last has a handler before its read of the children, so a task that
  was thrown away at the parents' check is replaced. It needs that a pending row has
  no attempts (`PendingIsUntried`), or the skip check could take it for exhausted.
* In a forest (`Forest`: no node has two parents) with Redis failures at most (`SafeForest`):
  `OneHandlerInForests` (`OneHandlerPerNode`), `NoRetryLostInForests` (`NoLostRetry`),
  `SuccessFinalInForests` (`SuccessIsFinal`, which the run `join_runs_twice` refutes with a join)
  and, with limits that fit (`RetriesFit`, the code's 3 and 3), `NoDeadLetterInForests`. They rest
  on one invariant, `Single`: a node has one task or one handler or one promise of a task, never
  two (`OneTask`, `Promises`); the header of a task and the row of its node count the same
  attempts (`RowsMatchTasks`); and a failed row with attempts left has its retry
  (`RetryOnItsWay`). In a graph with joins it is false at the first clause.
* In a forest whose roots have children and without faults (`CalmForest`): `RunsKeepContract`,
  the refinement of `RunContract`, and, for limits that fit and graphs without cycles,
  `OutcomeTrueInForests` (`OutcomeIsTrue`). The invariant `Verdict` says that the Redis set misses
  no action that still has to finish (`SetIsTrue`), that a verdict is true when it is written and stays true
  (`VerdictsAreTrue`), and that an empty set means somebody is about to write it
  (`VerdictComes`). That nothing is left to do when all tasks are gone takes `Acyclic`: of
  the unfinished nodes one has only finished parents, and it has a task.

### Schedules

* `ScheduleTypeCorrect`: `Spec => []ScheduleTypeOK`, with the lemma that
  `CalculateNextRun` returns NULL or a date in the future.
* `ServedOnceWithoutEdits`: `[]ServedOnce` when `MaxEdits = 0`, through `Claims`: a job
  holds its row (running, and no second job), so nobody claims between the moment
  the next date is calculated and the moment it is stored.
* `RunningOwnedByTheLiving`: `[]RunningIsOwned` when no process stops or fails.

### Services

All of them are about `ServicesSpec`. A step of one service leaves the others' variables alone
(`BrokerSteps`, `PollerSteps`, `GoogleSteps`, `GraphSteps`, `SaveSteps`), so what the steps of
one keep, every step keeps.

* `OneMonitorAlways` (`OneMonitor`), for any number of goroutines and
  attempts. With the type invariant it is inductive: a goroutine gets past an unset flag, and
  nobody is past it then; it clears the flag on its way out, and it is alone. The step
  that starts the next goroutine keeps everybody on the same side of the flag.
* `ClaimsLeadToRuns` (`ClaimedRuns`): a claim is taken in the step in which a process takes the
  event, and only a failure separates the two again.
* `NoEventTwice` (`OncePerEvent`). The invariant `Once`: an event that was started or is taken by a
  process has one taker (`OneTaker`), and, unless a claim on it was late, its claim outlasts
  every moment at which it can match (`ClaimOutlasts`), the ones at which another process has
  matched it and not yet claimed it included; that is what the time to live of the key is for, and here the windows of
  "starting" and "ending" triggers come in, and the edits of the trigger, which
  only "starting" survives. For "cancelled", where the claim ends after a day, the sync token takes
  its place: one process at a time is busy (`Alone`), the log has every event once
  (`LogDistinct`), what was taken is behind the stored token, and an answer holds only what is
  not (`LogIsRead`, `NewsOnly`).
* `RefreshTokenSurvives` (`RefreshTokenKept`), for any number of callers. `GoogleInv`: every
  caller between its read and its write holds a refresh token that Google has given out, no older
  than the one it has read (`CallerOK`), and so does the row, because only such a caller replaces a
  row that is there: the INSERT of a second consent fails. A caller whose copy of the row is still
  what the row holds can therefore not put an older one back.
* `ValidationDecides` (`ValidationIsExact`), for any nodes and edges and whichever order
  `graph.TopSort` returns. That an order exists only without cycles, and exists for every layered
  graph, are lemmas (`SortedIsAcyclic`, `LayeredIsSortable`). `GraphInv`: visited nodes
  and their children have levels (`Visited`), a level is smaller than the node's
  place in the order (`LevelsFit`), and in a layered graph a level is the distance from the
  roots, so no two parents disagree (`LevelsAreRanks`). It is also why the hypothesis `Acyclic`
  above is a fair one: `CreateWorkflow`, `UpdateWorkflow` and `OrchestrateWorkflow` validate first.
* `DeltaIsAlwaysExact` (`DeltaIsExact`) and `ArchivingIsFinal` (`ArchiveIsFinal`), for any nodes and
  any saves in flight. `SaveInv`: nodes on a canvas, in a row, in a request and in what it has
  read have ids of their own; row ids are numbers the serial has given out, so that new rows are
  disjoint from old ones; workflows are numbered without gaps, so that a creation finds
  a free row; and an update that has passed its triggers knows all of its rows. With these,
  `UpdatedExact` is set algebra, and that the contents are the same follows by counting
  (`SameContents`): new ids rename nodes one to one (`NewRowsFit`).
* `ServicesAreTyped` (`ServicesTypeOK`), from the same invariants.

### Pages

All of them are about `Spec` of `Pages`, for any pages, nodes, blocks, widths, workflows, links,
runs and sizes. A step on one screen leaves the others alone (`CanvasSteps` ... `RunSteps`).

* `CanvasAlwaysConsistent` (`CanvasIsConsistent`) and `ConfigsAlwaysSurvive`
  (`ConfigsSurviveEditing`). `CanvasInv` says of every stored flow, on display or not, that it is `Consistent`: its edges join its nodes and its handles are animated
  where they end, because a flow that is opened again comes as it was left; that a page on
  display has a flow; and that the mounted form fits the selected node, which React only sees to
  when the type changes. The operators of `FlowStore` keep a flow consistent one by one;
  the deletion of nodes with their edges, which React Flow reports in two calls, is the
  hard one.
* `PanelListsAlwaysTrue` (`PanelListsAreTrue`), for every table of blocks. `PanelInv` has `Recent`
  for every flow: distinct blocks, no more than the list holds. That a star of a category toggles its own
  block rests on what filtering and appending do to membership (`ToggledFavorites`,
  `StarredUnderCategory`).
* `InspectorAlwaysLegal` (`InspectorIsLegal`). A width below the minimum does occur; `InspectorInv`
  says whose it is: of a drag in progress, which will round it when it ends, or, when it is
  negative, of a drag to the right of a closed panel (`overshot`). It also relates
  the three copies of "open" (the flag of the layout, `showPanel`, the width) in each of
  the states between two effects.
* `SearchAlwaysReachable` (`SearchIsReachable`), with `ShellInv`: the flag and the timer
  follow the panel and its page. The flag that the page of a run leaves set is harmless
  because a search field that comes up with it takes the focus (`SwitchPage`).
* `LibraryAlwaysTrue` (`LibraryIsTrue`). `LibraryInv` carries the relation of old rows and stored
  rows (`OldRows`: they differ by archiving only) from the moment a loader reads to the moment its
  navigation is completed, since archiving goes on meanwhile. That a page is never blank is
  arithmetic on the clamped page number and the length of a filtered list.
* `SilentAlwaysTrue` (`SilentMeansTrue`), the race of `Register`, the read of the statuses and the
  replay, for any number of handlers of a node. `RunInv` follows the last message about a node that
  no handler has still to tell about and that is not `untold`: if Redis holds one, it
  carries the stored status (`PubsubIsFresh`); if not, the last one in the channel does
  (`ConnIsFresh`); then the snapshot not yet replayed, then the last event (`StreamIsFresh`,
  `EventsAreFresh`), and in the end the status on the page. Each link needs the order of the queue
  behind it, and a channel that overflows breaks the chain for its node and no other.
* `PagesTypeCorrect` (`TypeOK` of `Pages`), from the same invariants.

What `filter` and the set of an array return is proved for every array (`ArrayProofs`: `FilterKeeps`,
`UniquesKeeps`). The induction theorems of the library take an
operator as a parameter, which the provers cannot instantiate; a least counterexample among the
lengths (`LeastElement`, from the well-foundedness of the naturals) does the same work, also for
the existence of the recursive function itself (`FilteredExists`).

The assumptions of `Pages` say that stored graphs have edges between their nodes (the service
validates them), that blocks come from the table, that limits are positive and in order, that
the empty query matches everything, and that the values for "nothing" are none of the others.

### Settings

All of them are about `Spec` of `Settings`. One form is mounted and the others stay as they are
(`EmailSteps`, `ScheduleSteps`, `EventSteps`, `TriggerSteps`), so each form has an inductive
invariant of its own, and `SettingsInv` is all four.

* `SavedAlwaysValid` (`SavedIsValid`), for any texts, files, amounts and delays.
  - Email: `Transformed` says that the schema keeps texts which `parseEmail` leaves as they are. That
    takes the assumption that an address in lower case is an address, and stays as it is; which
    recipients the handlers, a paste or a file that was read against an old list have
    left in the field does not matter. `EmailInv` also has that only a focused input
    holds text.
  - Calendar trigger: `TriggerInv` says that a saved configuration is `Acceptable` (no time for
    "cancelled", a time of at most four weeks for the others, a calendar), and that a
    positive custom amount on display is the time in the field. The effects that run after
    every render are one lemma (`EffectsStep`), and each handler goes through it.
  - Event: a saved delay has passed the schema.
* `ReopenAlwaysKeeps` (`ReopenKeepsSettings`). `EventInv`: what is saved is a fixed point of
  the schema's transformations, which change nothing the second time (`TransformedStart`,
  `TransformedDuration`). Schedule: a day and a time of day make an instant that gives both back
  (`DateAndTime`), and the way to UTC and back is the same instant.
* `PreviewsAlwaysTrue` (`PreviewsAreTrue`). `MonthsAgree`: for a day up to 28, adding months as
  date-fns does (cut off at the end of a month) and as carbon does (running over into the next) gives
  the same dates. The first counts in local time and the second in UTC; on days that every month has
  and that are in the same month in both, each adds the length of the same month. It rests
  on the table of the months, on the way from one time to the other (`Zones`) and on `ScheduleInv`: the dates in the form
  and in what was saved are before November, so that the two runs that follow are in the year.
* `ConversionsAlwaysRoundTrip` (`ConversionsRoundTrip`): the clock of twelve hours for every minute
  of a day (`TwelveHours`).
* `SettingsTypeCorrect` (`TypeOK` of `Settings`), from the same invariants.

The assumptions of `Settings`: typed numbers are multiples of 1/`Scale` for any `Scale`, there is a
calendar "primary" (every account has one), the zone is less than a day from UTC, the picker's hours are
1 to 12 and its minutes below 60, lower case is idempotent on addresses, and dates are after the first
of January and before the last of October. The last is the bound of the model, in which there is one year.

Each inductive invariant was also checked with TLC on the instance of its run.

The assumptions on constants are in the modules that declare them. Those of `Services` say that
the parameters are finite sets and numbers where the model counts them, that the values for
"nothing" are none of the others, and that ids of dropped nodes (uuids) are no row ids.

### Only model-checked

* Everything temporal beyond invariants and steps: `RunCompletes`, `DueIsServed`, `PolledAgain`,
  `ReconnectEnds`, `SuccessArrives`, `PagesSettle`. Liveness under fairness and ENABLED are out of the
  prover's reach.
* Runs with joins beyond `ParentsFirst`, `NoLostNode` and the types; `NoLostNode` after a crash or an error.

## 5. What is not modelled

* Lost replies: a database statement that fails is one that did nothing. A publish
  that returns is one the broker has (the client asks for no confirmation). A torn
  read of `c.channel` while it is replaced is outside a model of this kind.
* Workflow edits during a run. Workflows whose triggers are not roots are in the model, in no
  run, and excluded from the theorems about lost nodes and forests (`TriggersAreRoots`).
* One clock for database and processes. Months of different length are in `ScheduleForm`,
  not in `Scheduler`.
* `WorkflowSave` leaves out edges, names and positions, and editing the name in the
  header. A trigger's row is one configuration.
* `CalendarPoller` follows one row, and every event matches the trigger's keywords. An edit that
  chooses another calendar is left out: the events of the other one would be other events.
* `WorkflowLibrary`: which workflow has which tag is a constant (the backend sends no
  tags), and the order of the list is the database's.
* `ScheduleForm`: local time is a fixed distance ahead of UTC (no daylight saving time, at whose
  changes the preview and the scheduler differ by an hour), there is one year of 365 days and dates are
  before the end of its October, and the clock jumps between the instants at which something is done.
* `CalendarTrigger`: `convertFromMinutes` is imported nowhere.
* `EmailForm`: the timer that hides an error message, and React keys of equal chips. The hook
  in `useEmailRecipents.ts` is used nowhere.
* `EventForm`: the texts, the calendar and the reminders are one field with a valid and a too
  long value. No code of the backend runs this action, so the preview is compared with
  what the form itself says.
* `GoogleIntegration`: encryption, and the message of a failed request, which the page keeps
  and shows nowhere.
* The pointer effects of the handles in `NodeUI.tsx`; dashboard, landing page and
  navigation (fixed data and links); the wrappers of the component library under
  `components/ui` except the sidebar; email triggers (a repository nobody polls); the
  registries, the HTTP server, configuration and generated data access, which have no
  state of their own.

## 6. Plan

Done: the run (store, running set, queue, orchestrator, executor, contract), the
scheduler, the broker's connection, the calendar poller, the workflow service with the
page that calls it, graph validation, the connection to Google, the progress stream with the run page, and the
frontend's stores, panels, library and forms.

Proved: every invariant and every action property that a passing run checks, as far as
section 4 says.

Left: `NoLostNode` after a crash, in graphs where the children of joins are leaves
(`join_faults` checks it); liveness stays with TLC.
