----------------------------- MODULE Scheduler -----------------------------
(***************************************************************************)
(* Scheduled workflows: the workflow_schedule rows, the scheduler          *)
(* processes that poll them (cmd/scheduler, services/scheduler.go), and    *)
(* the users who create and edit schedules through the server.  Every row  *)
(* a poll claims becomes a goroutine that starts the workflow and then     *)
(* writes the next date back from the copy of the row it was given.        *)
(* One clock serves the database and all processes; its unit is the        *)
(* smallest difference between dates that matters.                         *)
(***************************************************************************)
EXTENDS Integers, FiniteSets

CONSTANTS
    Workflows,    \* the workflows with a schedule trigger
    Processes,    \* the scheduler processes
    Period,       \* how far AddDay, AddWeek, AddMonth move: type -> time
    ClaimLimit,   \* limit, the most rows one poll claims, 1000
    NoTime,       \* a NULL date
    NoRequest,    \* no user request is being served
    MaxTime,      \* bound: the clock stops here
    MaxEdits,     \* bound: how often users edit an existing schedule
    MaxStops,     \* bound: how often a process is told to stop
    MaxFailures   \* bound: crashes and failed statements

ASSUME SchedulerAssumption ==
    /\ IsFiniteSet(Workflows)
    /\ DOMAIN Period \subseteq {"daily", "weekly", "monthly"}
    /\ Period \in [DOMAIN Period -> Nat \ {0}]
    /\ ClaimLimit \in Nat \ {0}
    /\ NoTime \notin Int
    /\ {MaxTime, MaxEdits, MaxStops, MaxFailures} \subseteq Nat

VARIABLES
    now,        \* the clock
    row,        \* workflow_schedule, one row per workflow
    request,    \* the validated request the server is about to store
    proc,       \* the life of each scheduler process
    jobs,       \* the claimed schedules the processes work on
    lastClaim,  \* history: when a workflow's schedule was last claimed
    edits, stops, failures   \* how much of each bound is used

countVars == <<edits, stops, failures>>
vars == <<now, row, request, proc, jobs, lastClaim, edits, stops, failures>>

ScheduleTypes == {"once"} \cup DOMAIN Period
Dates == Nat \cup {NoTime}

Rows == [state : {"none", "queued", "running", "completed"},
         type : ScheduleTypes, nextRunAt : Dates]

\* at and type are the claimed row's; step is what happens to the job next;
\* nextRun is the date CalculateNextRun returned.
Jobs == [process : Processes, workflow : Workflows, type : ScheduleTypes, at : Nat,
         step : {"fetched", "orchestrate", "calculate", "store"}, nextRun : Dates]

Requests == [workflow : Workflows, type : ScheduleTypes, at : Nat]

Init ==
    /\ now = 0
    /\ row = [w \in Workflows |-> [state |-> "none", type |-> "once", nextRunAt |-> NoTime]]
    /\ request = NoRequest
    /\ proc = [p \in Processes |-> "up"]
    /\ jobs = {}
    /\ lastClaim = [w \in Workflows |-> NoTime]
    /\ edits = 0 /\ stops = 0 /\ failures = 0

Tick ==
    /\ now < MaxTime
    /\ now' = now + 1
    /\ UNCHANGED <<row, request, proc, jobs, lastClaim, countVars>>

JobsOf(p) == {j \in jobs : j.process = p}
FetchedBy(p) == {j \in JobsOf(p) : j.step = "fetched"}

\* The job moves on; nothing else of it changes.
Advance(j, step) == jobs' = (jobs \ {j}) \cup {[j EXCEPT !.step = step]}

-----------------------------------------------------------------------------
(* The users.                                                              *)

\* ValidateSchedule: a new date lies in the future when it is validated.
\* Editing an existing schedule consumes the bound, creating one does not.
SubmitSchedule ==
    /\ request = NoRequest
    /\ \E w \in Workflows, t \in ScheduleTypes, at \in now + 1 .. MaxTime :
         /\ request' = [workflow |-> w, type |-> t, at |-> at]
         /\ row[w].state = "none" \/ edits < MaxEdits
         /\ edits' = IF row[w].state = "none" THEN edits ELSE edits + 1
    /\ UNCHANGED <<now, row, proc, jobs, lastClaim, stops, failures>>

\* Mutant: the UPDATE leaves execution_state alone.
UpdateKeepsState(w, type, nextRunAt) ==
    row' = [row EXCEPT ![w].state = IF @ = "none" THEN "queued" ELSE @,
                       ![w].type = type, ![w].nextRunAt = nextRunAt]

\* The UPDATE of the repository: whatever the row was, it is queued, or
\* completed when there is no next date.
UpdateWorkflowSchedule(w, type, nextRunAt) ==
    row' = [row EXCEPT ![w] =
        [state |-> IF nextRunAt = NoTime THEN "completed" ELSE "queued",
         type |-> type, nextRunAt |-> nextRunAt]]

\* ScheduleWorkflow inserts the row as queued, UpdateWorkflowSchedule rewrites
\* it: the same row either way.
StoreSchedule ==
    /\ request # NoRequest
    /\ UpdateWorkflowSchedule(request.workflow, request.type, request.at)
    /\ request' = NoRequest
    /\ UNCHANGED <<now, proc, jobs, lastClaim, countVars>>

-----------------------------------------------------------------------------
(* A scheduler process.                                                    *)

Due ==
    {w \in Workflows : /\ row[w].state = "queued"
                       /\ row[w].nextRunAt # NoTime
                       /\ row[w].nextRunAt <= now}

\* GetDueSchedulesLocked: one statement marks up to ClaimLimit due rows as
\* running and returns them; SKIP LOCKED keeps two polls off the same row.
GetDueWorkflows(p) ==
    /\ proc[p] = "up"
    /\ FetchedBy(p) = {}
    /\ \E batch \in SUBSET Due :
         /\ batch # {}
         /\ Cardinality(batch) = ClaimLimit \/ (batch = Due /\ Cardinality(Due) <= ClaimLimit)
         /\ row' = [w \in Workflows |->
                      IF w \in batch THEN [row[w] EXCEPT !.state = "running"] ELSE row[w]]
         /\ jobs' = jobs \cup
              {[process |-> p, workflow |-> w, type |-> row[w].type, at |-> row[w].nextRunAt,
                step |-> "fetched", nextRun |-> NoTime] : w \in batch}
         /\ lastClaim' = [w \in Workflows |-> IF w \in batch THEN now ELSE lastClaim[w]]
    /\ UNCHANGED <<now, request, proc, countVars>>

\* Mutant: the row was returned as it was before the claim, so its past date
\* does not pass ValidateSchedule.
ValidationRejects(j) ==
    /\ j.step = "fetched"
    /\ jobs' = jobs \ {j}
    /\ UNCHANGED <<now, row, request, proc, lastClaim, countVars>>

\* The loop over the fetched rows: RunScheduledWorkflow starts a goroutine,
\* or returns at once when the process has been told to stop.
RunScheduledWorkflow(j) ==
    /\ j.step = "fetched"
    /\ \/ proc[j.process] = "up" /\ Advance(j, "orchestrate")
       \/ proc[j.process] = "stopping" /\ jobs' = jobs \ {j}
    /\ UNCHANGED <<now, row, request, proc, lastClaim, countVars>>

\* OrchestrateWorkflow returns; a failed start is only logged.
Orchestrate(j) ==
    /\ j.step = "orchestrate"
    /\ Advance(j, "calculate")
    /\ UNCHANGED <<now, row, request, proc, lastClaim, countVars>>

\* Mutant: a schedule without a next run returns the zero time.
ZeroTimeForOnce(type, at) ==
    IF type = "once" THEN -1
    ELSE IF at > now THEN at
    ELSE at + ((now - at) \div Period[type] + 1) * Period[type]

\* Mutant: one period is added, not as many as are needed.
AddOnePeriod(type, at) == IF type = "once" THEN NoTime ELSE at + Period[type]

\* The first date after the clock among at, at + period, at + 2 periods ...
CalculateNextRun(type, at) ==
    IF type = "once" THEN NoTime
    ELSE IF at > now THEN at
    ELSE at + ((now - at) \div Period[type] + 1) * Period[type]

CalculateNext(j) ==
    /\ j.step = "calculate"
    /\ jobs' = (jobs \ {j}) \cup
         {[j EXCEPT !.step = "store", !.nextRun = CalculateNextRun(j.type, j.at)]}
    /\ UNCHANGED <<now, row, request, proc, lastClaim, countVars>>

\* The statement outlives a cancelled context.
StoreNextRun(j) ==
    /\ j.step = "store"
    /\ UpdateWorkflowSchedule(j.workflow, j.type, j.nextRun)
    /\ jobs' = jobs \ {j}
    /\ UNCHANGED <<now, request, proc, lastClaim, countVars>>

-----------------------------------------------------------------------------
(* Stopping and failing.                                                   *)

Die(p) ==
    /\ proc' = [proc EXCEPT ![p] = "down"]
    /\ jobs' = jobs \ JobsOf(p)

\* SIGINT or SIGTERM cancels the context of everything the process does.
Stop(p) ==
    /\ proc[p] = "up"
    /\ stops < MaxStops
    /\ stops' = stops + 1
    /\ proc' = [proc EXCEPT ![p] = "stopping"]
    /\ UNCHANGED <<now, row, request, jobs, lastClaim, edits, failures>>

\* main waits for the goroutines and returns.
EnsureInFlightEnqueued(p) ==
    /\ proc[p] = "stopping"
    /\ JobsOf(p) = FetchedBy(p)
    /\ Die(p)
    /\ UNCHANGED <<now, row, request, lastClaim, countVars>>

\* Meanwhile the poll loop, once through with its rows, returns
\* context.Canceled, and the goroutine running it panics.
PollLoopPanics(p) ==
    /\ proc[p] = "stopping"
    /\ FetchedBy(p) = {}
    /\ Die(p)
    /\ UNCHANGED <<now, row, request, lastClaim, countVars>>

Fail ==
    /\ failures < MaxFailures
    /\ failures' = failures + 1

\* The process is killed, or its poll's statement fails, which panics too.
Crash(p) ==
    /\ proc[p] # "down"
    /\ Fail
    /\ Die(p)
    /\ UNCHANGED <<now, row, request, lastClaim, edits, stops>>

\* Writing the next date back fails, which is only logged.
StoreError(j) ==
    /\ j.step = "store"
    /\ Fail
    /\ jobs' = jobs \ {j}
    /\ UNCHANGED <<now, row, request, proc, lastClaim, edits, stops>>

Restart(p) ==
    /\ proc[p] = "down"
    /\ proc' = [proc EXCEPT ![p] = "up"]
    /\ UNCHANGED <<now, row, request, jobs, lastClaim, countVars>>

-----------------------------------------------------------------------------
JobStep(j) ==
    \/ RunScheduledWorkflow(j) \/ Orchestrate(j) \/ CalculateNext(j) \/ StoreNextRun(j)

Next ==
    \/ Tick
    \/ SubmitSchedule \/ StoreSchedule
    \/ \E p \in Processes :
         \/ GetDueWorkflows(p)
         \/ Stop(p) \/ EnsureInFlightEnqueued(p) \/ PollLoopPanics(p)
         \/ Crash(p) \/ Restart(p)
    \/ \E j \in jobs : JobStep(j) \/ StoreError(j)

Spec == Init /\ [][Next]_vars

\* A process polls on a ticker and its goroutines run to their end.
Fairness ==
    /\ \A p \in Processes : WF_vars(GetDueWorkflows(p))
    /\ WF_vars(\E j \in jobs : JobStep(j))

FairSpec == Spec /\ Fairness

-----------------------------------------------------------------------------
ScheduleTypeOK ==
    /\ now \in 0..MaxTime
    /\ row \in [Workflows -> Rows]
    /\ request \in Requests \cup {NoRequest}
    /\ proc \in [Processes -> {"up", "stopping", "down"}]
    /\ jobs \subseteq Jobs
    /\ lastClaim \in [Workflows -> Dates]
    /\ edits \in 0..MaxEdits
    /\ stops \in 0..MaxStops
    /\ failures \in 0..MaxFailures

\* An occurrence is served once, and the occurrences missed while nobody
\* polled are skipped, not made up for: a queued row, as long as no user has
\* edited it, lies after the moment the schedule was last claimed.  The row
\* is claimed by whichever process polls first (GetDueSchedulesLocked), any
\* of them may die at any point, and the date is calculated from an old copy
\* of the row (CalculateNextRun).
ServedOnce ==
    \A w \in Workflows :
        row[w].state = "queued" /\ lastClaim[w] # NoTime => row[w].nextRunAt > lastClaim[w]

\* Goroutines in flight when a process is told to stop finish before it ends:
\* main waits for them (EnsureInFlightEnqueued).
GracefulStop ==
    [][\A p \in Processes :
        proc[p] = "stopping" /\ proc'[p] = "down" => JobsOf(p) = FetchedBy(p)]_vars

\* A row that says running has a goroutine or a poll loop that will set it
\* free again: nothing else ever does, so the schedule would be dead.
RunningIsOwned ==
    \A w \in Workflows : row[w].state = "running" => \E j \in jobs : j.workflow = w

\* A schedule is never stuck: the date that has come is served and replaced,
\* in spite of edits that are written over by older goroutines and of other
\* schedules filling the polls.
DueIsServed ==
    \A w \in Workflows, t \in 1..MaxTime :
        (row[w].state = "queued" /\ row[w].nextRunAt = t /\ t <= now)
            ~> (row[w].nextRunAt # t)
=============================================================================
