-------------------------- MODULE SchedulerProofs --------------------------
(***************************************************************************)
(* Proofs about Scheduler, for any number of workflows and processes, any  *)
(* periods, and any stops, crashes and failed writes.                      *)
(***************************************************************************)
EXTENDS Scheduler, TLAPS

USE SchedulerAssumption

-----------------------------------------------------------------------------
(* CalculateNextRun.                                                       *)

\* Adding periods until the clock is passed gets past the clock: the number
\* of additions the loop makes, in closed form, is enough.
LEMMA PeriodsPassClock ==
    ASSUME NEW a \in Nat, NEW p \in Nat \ {0}
    PROVE  /\ (a \div p + 1) * p \in Nat
           /\ (a \div p + 1) * p > a
<1>1. a \div p \in Nat
      OBVIOUS
<1>2. (a \div p + 1) * p > a
      OBVIOUS
<1> QED BY <1>1, <1>2

\* The date a schedule gets is NULL for "once", and otherwise in the future.
LEMMA NextRunIsFuture ==
    ASSUME now \in Nat, NEW type \in ScheduleTypes, NEW at \in Nat
    PROVE  LET t == CalculateNextRun(type, at)
           IN  /\ t \in Dates
               /\ t # NoTime => t \in Nat /\ t > now
<1>1. CASE type = "once"
      BY <1>1 DEF CalculateNextRun, Dates
<1>2. CASE type # "once" /\ at > now
      BY <1>2 DEF CalculateNextRun, Dates
<1>3. CASE type # "once" /\ ~(at > now)
  <2>1. Period[type] \in Nat \ {0} /\ now - at \in Nat
        BY <1>3 DEF ScheduleTypes
  <2> DEFINE d == ((now - at) \div Period[type] + 1) * Period[type]
  <2>2. d \in Nat /\ d > now - at
        BY <2>1, PeriodsPassClock
  <2>3. CalculateNextRun(type, at) = at + d
        BY <1>3 DEF CalculateNextRun
  <2> HIDE DEF d
  <2>4. at + d \in Nat /\ at + d > now
        BY <2>2, <2>1
  <2> QED BY <2>3, <2>4 DEF Dates
<1> QED BY <1>1, <1>2, <1>3

-----------------------------------------------------------------------------
(* Type correctness.                                                       *)

\* The repository's UPDATE leaves a well-typed row.
LEMMA UpdateType ==
    ASSUME row \in [Workflows -> Rows], NEW w \in Workflows, NEW type \in ScheduleTypes,
           NEW at \in Dates, UpdateWorkflowSchedule(w, type, at)
    PROVE  /\ row' \in [Workflows -> Rows]
           /\ \A v \in Workflows \ {w} : row'[v] = row[v]
           /\ row'[w].nextRunAt = at
           /\ row'[w].state = IF at = NoTime THEN "completed" ELSE "queued"
BY DEF UpdateWorkflowSchedule, Rows

\* A job that advances stays a job.
LEMMA AdvanceType ==
    ASSUME jobs \subseteq Jobs, NEW j \in jobs,
           NEW s \in {"fetched", "orchestrate", "calculate", "store"}, Advance(j, s)
    PROVE  jobs' \subseteq Jobs
BY DEF Advance, Jobs

\* The initial state is well typed.
LEMMA TypeInit == Init => ScheduleTypeOK
BY DEF Init, ScheduleTypeOK, Rows, ScheduleTypes, Dates

\* What a poll leaves behind is well typed.
LEMMA TypeClaim ==
    ASSUME ScheduleTypeOK, NEW p \in Processes, GetDueWorkflows(p)
    PROVE  ScheduleTypeOK'
<1>1. PICK batch \in SUBSET Due :
         /\ row' = [w \in Workflows |->
                      IF w \in batch THEN [row[w] EXCEPT !.state = "running"] ELSE row[w]]
         /\ jobs' = jobs \cup
              {[process |-> p, workflow |-> w, type |-> row[w].type, at |-> row[w].nextRunAt,
                step |-> "fetched", nextRun |-> NoTime] : w \in batch}
         /\ lastClaim' = [w \in Workflows |-> IF w \in batch THEN now ELSE lastClaim[w]]
      BY DEF GetDueWorkflows
<1>2. \A w \in batch : /\ w \in Workflows
                       /\ row[w] \in Rows
                       /\ row[w].nextRunAt \in Nat
      BY DEF Due, ScheduleTypeOK, Rows, Dates
<1>3. row' \in [Workflows -> Rows]
      BY <1>1 DEF ScheduleTypeOK, Rows
<1>4. jobs' \subseteq Jobs
      BY <1>1, <1>2 DEF ScheduleTypeOK, Jobs, Rows, Dates
<1>5. lastClaim' \in [Workflows -> Dates]
      BY <1>1 DEF ScheduleTypeOK, Dates
<1>6. UNCHANGED <<now, request, proc, edits, stops, failures>>
      BY DEF GetDueWorkflows, countVars
<1> QED BY <1>3, <1>4, <1>5, <1>6 DEF ScheduleTypeOK

\* So is what a goroutine leaves behind.
LEMMA TypeJob ==
    ASSUME ScheduleTypeOK, NEW j \in jobs, JobStep(j) \/ StoreError(j)
    PROVE  ScheduleTypeOK'
<1>1. j \in Jobs /\ jobs \subseteq Jobs /\ now \in Nat
      BY DEF ScheduleTypeOK
<1>2. CASE RunScheduledWorkflow(j)
      BY <1>1, <1>2, AdvanceType DEF RunScheduledWorkflow, ScheduleTypeOK, countVars
<1>3. CASE Orchestrate(j)
      BY <1>1, <1>3, AdvanceType DEF Orchestrate, ScheduleTypeOK, countVars
<1>4. CASE CalculateNext(j)
  <2>1. CalculateNextRun(j.type, j.at) \in Dates
        BY <1>1, NextRunIsFuture DEF Jobs
  <2> DEFINE k == [j EXCEPT !.step = "store", !.nextRun = CalculateNextRun(j.type, j.at)]
  <2>2. k \in Jobs
        BY <1>1, <2>1 DEF Jobs
  <2>3. jobs' = (jobs \ {j}) \cup {k}
        BY <1>4 DEF CalculateNext
  <2> HIDE DEF k
  <2> QED BY <1>1, <1>4, <2>2, <2>3 DEF CalculateNext, ScheduleTypeOK, countVars
<1>5. CASE StoreNextRun(j)
  <2>1. row' \in [Workflows -> Rows]
        BY <1>1, <1>5, UpdateType DEF StoreNextRun, Jobs, ScheduleTypeOK
  <2> QED BY <1>5, <2>1 DEF StoreNextRun, ScheduleTypeOK, countVars
<1>6. CASE StoreError(j)
      BY <1>6 DEF StoreError, Fail, ScheduleTypeOK
<1> QED BY <1>2, <1>3, <1>4, <1>5, <1>6 DEF JobStep

\* Every step keeps the types.
LEMMA TypeStep == ScheduleTypeOK /\ [Next]_vars => ScheduleTypeOK'
<1> SUFFICES ASSUME ScheduleTypeOK, [Next]_vars PROVE ScheduleTypeOK'
    OBVIOUS
<1>1. CASE Tick
      BY <1>1 DEF Tick, ScheduleTypeOK, countVars
<1>2. CASE SubmitSchedule
  <2>1. PICK w \in Workflows, t \in ScheduleTypes, at \in now + 1 .. MaxTime :
           /\ request' = [workflow |-> w, type |-> t, at |-> at]
           /\ row[w].state = "none" \/ edits < MaxEdits
           /\ edits' = IF row[w].state = "none" THEN edits ELSE edits + 1
        BY <1>2 DEF SubmitSchedule
  <2>2. request' \in Requests
        BY <2>1 DEF Requests, ScheduleTypeOK
  <2>3. edits' \in 0..MaxEdits
        BY <2>1 DEF ScheduleTypeOK
  <2> QED BY <1>2, <2>2, <2>3 DEF SubmitSchedule, ScheduleTypeOK
<1>3. CASE StoreSchedule
  <2>1. request \in Requests
        BY <1>3 DEF StoreSchedule, ScheduleTypeOK
  <2>2. row' \in [Workflows -> Rows]
        BY <1>3, <2>1, UpdateType DEF StoreSchedule, Requests, Dates, ScheduleTypeOK
  <2> QED BY <1>3, <2>2 DEF StoreSchedule, ScheduleTypeOK, countVars
<1>4. ASSUME NEW p \in Processes, GetDueWorkflows(p)
      PROVE  ScheduleTypeOK'
      BY <1>4, TypeClaim
<1>5. ASSUME NEW p \in Processes,
             Stop(p) \/ EnsureInFlightEnqueued(p) \/ PollLoopPanics(p) \/ Crash(p) \/ Restart(p)
      PROVE  ScheduleTypeOK'
      BY <1>5 DEF Stop, EnsureInFlightEnqueued, PollLoopPanics, Crash, Restart, Die, Fail,
                  JobsOf, ScheduleTypeOK, countVars
<1>6. ASSUME NEW j \in jobs, JobStep(j) \/ StoreError(j)
      PROVE  ScheduleTypeOK'
      BY <1>6, TypeJob
<1>7. CASE UNCHANGED vars
      BY <1>7 DEF vars, ScheduleTypeOK
<1> QED BY <1>1, <1>2, <1>3, <1>4, <1>5, <1>6, <1>7 DEF Next

\* Rows, jobs and requests stay well formed whatever users, schedulers and
\* failures do; in particular CalculateNextRun always returns a date.
THEOREM ScheduleTypeCorrect == Spec => []ScheduleTypeOK
<1>1. Init => ScheduleTypeOK
      BY TypeInit
<1>2. ScheduleTypeOK /\ [Next]_vars => ScheduleTypeOK'
      BY TypeStep
<1> QED BY <1>1, <1>2, PTL DEF Spec

-----------------------------------------------------------------------------
(* An occurrence is served once.  ServedOnce alone is not inductive: the   *)
(* date a goroutine writes back lies after the last claim only because     *)
(* nobody can claim the row meanwhile, that is because the row stays       *)
(* running and has one goroutine.                                          *)

\* The last claim is over, and a schedule that was never stored has none.
ClaimsAreOver ==
    \A w \in Workflows :
        /\ lastClaim[w] # NoTime => lastClaim[w] <= now
        /\ row[w].state = "none" => lastClaim[w] = NoTime

\* Without edits a request is for a new schedule.
RequestIsNew == request # NoRequest => row[request.workflow].state = "none"

\* A goroutine holds its row: the row is running, and no other one has it.
JobsHoldRows ==
    /\ \A j \in jobs : row[j.workflow].state = "running" /\ lastClaim[j.workflow] # NoTime
    /\ \A i, j \in jobs : i.workflow = j.workflow => i = j

\* The date a goroutine is about to write lies after the last claim.
NextIsLater ==
    \A j \in jobs : j.step = "store" /\ j.nextRun # NoTime => j.nextRun > lastClaim[j.workflow]

Claims == ClaimsAreOver /\ RequestIsNew /\ JobsHoldRows /\ NextIsLater /\ ServedOnce

\* The invariant holds before anything is stored.
LEMMA ClaimsInit == Init => Claims
BY DEF Init, Claims, ClaimsAreOver, RequestIsNew, JobsHoldRows, NextIsLater, ServedOnce

\* Goroutines that vanish with their process leave the others as they are.
LEMMA ClaimsFewerJobs ==
    ASSUME Claims, jobs' \subseteq jobs, UNCHANGED <<row, request, lastClaim, now>>
    PROVE  Claims'
BY DEF Claims, ClaimsAreOver, RequestIsNew, JobsHoldRows, NextIsLater, ServedOnce

\* A goroutine that moves on keeps its row.
LEMMA ClaimsOneJob ==
    ASSUME ScheduleTypeOK, Claims, NEW j \in jobs, NEW k \in Jobs,
           k.workflow = j.workflow,
           k.step = "store" /\ k.nextRun # NoTime => k.nextRun > lastClaim[k.workflow],
           jobs' = (jobs \ {j}) \cup {k}, UNCHANGED <<row, request, lastClaim, now>>
    PROVE  Claims'
<1>1. JobsHoldRows'
      BY DEF Claims, JobsHoldRows
<1>2. NextIsLater'
      BY DEF Claims, NextIsLater
<1> QED BY <1>1, <1>2 DEF Claims, ClaimsAreOver, RequestIsNew, ServedOnce

\* A poll takes queued rows, which have no goroutine.
LEMMA ClaimsPoll ==
    ASSUME ScheduleTypeOK, Claims, NEW p \in Processes, GetDueWorkflows(p)
    PROVE  Claims'
<1> DEFINE Claimed(w) ==
        [process |-> p, workflow |-> w, type |-> row[w].type, at |-> row[w].nextRunAt,
         step |-> "fetched", nextRun |-> NoTime]
<1>1. PICK batch \in SUBSET Due :
         /\ row' = [w \in Workflows |->
                      IF w \in batch THEN [row[w] EXCEPT !.state = "running"] ELSE row[w]]
         /\ jobs' = jobs \cup {Claimed(w) : w \in batch}
         /\ lastClaim' = [w \in Workflows |-> IF w \in batch THEN now ELSE lastClaim[w]]
      BY DEF GetDueWorkflows
<1>2. UNCHANGED <<now, request>> /\ now \in Nat /\ NoTime # now
      BY DEF GetDueWorkflows, ScheduleTypeOK
<1>3. \A w \in Workflows :
         /\ w \in batch => /\ row[w].state = "queued"
                           /\ row'[w].state = "running"
                           /\ lastClaim'[w] = now
         /\ w \notin batch => row'[w] = row[w] /\ lastClaim'[w] = lastClaim[w]
      BY <1>1 DEF Due, ScheduleTypeOK, Rows
<1>4. \A j \in jobs : j.workflow \in Workflows /\ j.workflow \notin batch
      BY <1>3 DEF Claims, JobsHoldRows, ScheduleTypeOK, Jobs
<1>5. \A w \in batch : Claimed(w).workflow = w /\ Claimed(w).step = "fetched" /\ w \in Workflows
      BY DEF Due
<1> HIDE DEF Claimed
<1>6. ClaimsAreOver'
      BY <1>2, <1>3 DEF Claims, ClaimsAreOver, ScheduleTypeOK, Dates
<1>7. RequestIsNew'
      BY <1>2, <1>3 DEF Claims, RequestIsNew, ScheduleTypeOK, Requests
<1>8. JobsHoldRows'
      BY <1>1, <1>2, <1>3, <1>4, <1>5 DEF Claims, JobsHoldRows
<1>9. NextIsLater'
      BY <1>1, <1>3, <1>4, <1>5 DEF Claims, NextIsLater
<1>10. ServedOnce'
      BY <1>3 DEF Claims, ServedOnce
<1> QED BY <1>6, <1>7, <1>8, <1>9, <1>10 DEF Claims

\* The write back of the only goroutine of a row lies after its claim.
LEMMA ClaimsStore ==
    ASSUME ScheduleTypeOK, Claims, NEW j \in jobs, StoreNextRun(j)
    PROVE  Claims'
<1> DEFINE w == j.workflow
<1>1. j \in Jobs /\ w \in Workflows
      BY DEF ScheduleTypeOK, Jobs
<1>2. /\ \A v \in Workflows \ {w} : row'[v] = row[v]
      /\ row'[w].nextRunAt = j.nextRun
      /\ row'[w].state = IF j.nextRun = NoTime THEN "completed" ELSE "queued"
      BY <1>1, UpdateType DEF StoreNextRun, Jobs, ScheduleTypeOK
<1>3. jobs' = jobs \ {j} /\ UNCHANGED <<now, request, lastClaim>>
      BY DEF StoreNextRun
<1>4. \A i \in jobs' : i \in jobs /\ i.workflow \in Workflows \ {w}
      BY <1>3 DEF Claims, JobsHoldRows, ScheduleTypeOK, Jobs
<1>5. row[w].state = "running"
      BY DEF Claims, JobsHoldRows
<1>6. ClaimsAreOver'
      BY <1>2, <1>3 DEF Claims, ClaimsAreOver
<1>7. RequestIsNew'
      BY <1>2, <1>3, <1>5 DEF Claims, RequestIsNew, ScheduleTypeOK, Requests
<1>8. JobsHoldRows' /\ NextIsLater'
      BY <1>2, <1>3, <1>4 DEF Claims, JobsHoldRows, NextIsLater
<1>9. j.step = "store"
      BY DEF StoreNextRun
<1>10. ServedOnce'
      BY <1>2, <1>3, <1>9 DEF Claims, ServedOnce, NextIsLater
<1> QED BY <1>6, <1>7, <1>8, <1>10 DEF Claims

\* Every step of goroutines, polls, users without edits, and failures.
LEMMA ClaimsStep ==
    ASSUME MaxEdits = 0
    PROVE  ScheduleTypeOK /\ Claims /\ [Next]_vars => Claims'
<1> SUFFICES ASSUME ScheduleTypeOK, Claims, [Next]_vars PROVE Claims'
    OBVIOUS
<1>1. CASE Tick
      BY <1>1 DEF Tick, Claims, ClaimsAreOver, RequestIsNew, JobsHoldRows, NextIsLater,
                  ServedOnce, ScheduleTypeOK, Dates
<1>2. CASE SubmitSchedule
  <2>1. PICK w \in Workflows :
           /\ request'.workflow = w
           /\ row[w].state = "none" \/ edits < MaxEdits
        BY <1>2 DEF SubmitSchedule
  <2>2. row[w].state = "none"
        BY <2>1 DEF ScheduleTypeOK
  <2> QED BY <1>2, <2>1, <2>2 DEF SubmitSchedule, Claims, ClaimsAreOver, RequestIsNew,
                                  JobsHoldRows, NextIsLater, ServedOnce
<1>3. CASE StoreSchedule
  <2> DEFINE w == request.workflow
  <2>1. request \in Requests /\ w \in Workflows
        BY <1>3 DEF StoreSchedule, ScheduleTypeOK, Requests
  <2>2. row[w].state = "none" /\ lastClaim[w] = NoTime
        BY <1>3, <2>1 DEF StoreSchedule, Claims, RequestIsNew, ClaimsAreOver
  <2>3. \A v \in Workflows \ {w} : row'[v] = row[v]
        BY <1>3, <2>1, UpdateType DEF StoreSchedule, Requests, Dates, ScheduleTypeOK
  <2>4. \A j \in jobs : j.workflow \in Workflows \ {w}
        BY <2>2 DEF Claims, JobsHoldRows, ScheduleTypeOK, Jobs
  <2>5. request' = NoRequest /\ UNCHANGED <<now, jobs, lastClaim>>
        BY <1>3 DEF StoreSchedule
  <2> QED BY <2>2, <2>3, <2>4, <2>5 DEF Claims, ClaimsAreOver, RequestIsNew, JobsHoldRows,
                                        NextIsLater, ServedOnce
<1>4. ASSUME NEW p \in Processes, GetDueWorkflows(p)
      PROVE  Claims'
      BY <1>4, ClaimsPoll
<1>5. ASSUME NEW p \in Processes,
             Stop(p) \/ EnsureInFlightEnqueued(p) \/ PollLoopPanics(p) \/ Crash(p) \/ Restart(p)
      PROVE  Claims'
  <2>1. jobs' \subseteq jobs /\ UNCHANGED <<row, request, lastClaim, now>>
        BY <1>5 DEF Stop, EnsureInFlightEnqueued, PollLoopPanics, Crash, Restart, Die
  <2> QED BY <2>1, ClaimsFewerJobs
<1>6. ASSUME NEW j \in jobs, JobStep(j) \/ StoreError(j)
      PROVE  Claims'
  <2>1. j \in Jobs /\ now \in Nat /\ lastClaim[j.workflow] \in Nat /\ lastClaim[j.workflow] <= now
        BY DEF ScheduleTypeOK, Jobs, Dates, Claims, JobsHoldRows, ClaimsAreOver
  <2>2. CASE StoreError(j)
        BY <2>2, ClaimsFewerJobs DEF StoreError
  <2>3. ASSUME NEW s \in {"orchestrate", "calculate"}, Advance(j, s),
               UNCHANGED <<row, request, lastClaim, now>>
        PROVE  Claims'
    <3>1. [j EXCEPT !.step = s] \in Jobs /\ [j EXCEPT !.step = s].step = s
          /\ [j EXCEPT !.step = s].workflow = j.workflow
          BY <2>1 DEF Jobs
    <3> QED BY <2>3, <3>1, ClaimsOneJob DEF Advance
  <2>4. CASE CalculateNext(j)
    <3> DEFINE k == [j EXCEPT !.step = "store", !.nextRun = CalculateNextRun(j.type, j.at)]
    <3>1. /\ CalculateNextRun(j.type, j.at) \in Dates
          /\ CalculateNextRun(j.type, j.at) # NoTime =>
               CalculateNextRun(j.type, j.at) \in Nat /\ CalculateNextRun(j.type, j.at) > now
          BY <2>1, NextRunIsFuture DEF Jobs
    <3>2. k \in Jobs /\ k.workflow = j.workflow /\ k.nextRun = CalculateNextRun(j.type, j.at)
          BY <2>1, <3>1 DEF Jobs
    <3>3. jobs' = (jobs \ {j}) \cup {k} /\ UNCHANGED <<row, request, lastClaim, now>>
          BY <2>4 DEF CalculateNext
    <3> HIDE DEF k
    <3>4. k.nextRun # NoTime => k.nextRun > lastClaim[k.workflow]
          BY <2>1, <3>1, <3>2
    <3> QED BY <3>2, <3>3, <3>4, ClaimsOneJob
  <2>5. CASE StoreNextRun(j)
        BY <2>5, ClaimsStore
  <2>6. CASE RunScheduledWorkflow(j)
    <3>1. CASE Advance(j, "orchestrate")
          BY <2>3, <2>6, <3>1 DEF RunScheduledWorkflow
    <3>2. CASE jobs' = jobs \ {j}
          BY <2>6, <3>2, ClaimsFewerJobs DEF RunScheduledWorkflow
    <3> QED BY <2>6, <3>1, <3>2 DEF RunScheduledWorkflow
  <2>7. CASE Orchestrate(j)
        BY <2>3, <2>7 DEF Orchestrate
  <2> QED BY <1>6, <2>2, <2>4, <2>5, <2>6, <2>7 DEF JobStep
<1>7. CASE UNCHANGED vars
      BY <1>7, ClaimsFewerJobs DEF vars
<1> QED BY <1>1, <1>2, <1>3, <1>4, <1>5, <1>6, <1>7 DEF Next

\* As long as users do not edit it, a schedule serves every occurrence at
\* most once and never makes up for missed ones (GetDueSchedulesLocked,
\* CalculateNextRun), for any number of schedulers that stop, crash, restart
\* or fail to write at any point.
THEOREM ServedOnceWithoutEdits == ASSUME MaxEdits = 0 PROVE Spec => []ServedOnce
<1>1. Init => ScheduleTypeOK /\ Claims
      BY TypeInit, ClaimsInit
<1>2. (ScheduleTypeOK /\ Claims) /\ [Next]_vars => (ScheduleTypeOK /\ Claims)'
      BY TypeStep, ClaimsStep
<1>3. Claims => ServedOnce
      BY DEF Claims
<1> QED BY <1>1, <1>2, <1>3, PTL DEF Spec

-----------------------------------------------------------------------------
(* Running rows are owned, whatever users do, as long as processes live.   *)

AllUp == \A p \in Processes : proc[p] = "up"

\* A goroutine that moves on still owns its row.
LEMMA OwnedByAnother ==
    ASSUME RunningIsOwned, NEW j \in jobs, NEW k, k.workflow = j.workflow,
           jobs' = (jobs \ {j}) \cup {k}, UNCHANGED row
    PROVE  RunningIsOwned'
<1> SUFFICES ASSUME NEW w \in Workflows, row[w].state = "running"
             PROVE  \E i \in jobs' : i.workflow = w
    BY DEF RunningIsOwned
<1>1. PICK i \in jobs : i.workflow = w
      BY DEF RunningIsOwned
<1>2. CASE i = j
      BY <1>1, <1>2
<1>3. CASE i # j
      BY <1>1, <1>3
<1> QED BY <1>2, <1>3

\* Every step of live processes keeps running rows owned.
LEMMA OwnedStep ==
    ASSUME MaxStops = 0, MaxFailures = 0
    PROVE  ScheduleTypeOK /\ AllUp /\ RunningIsOwned /\ [Next]_vars => (AllUp /\ RunningIsOwned)'
<1> SUFFICES ASSUME ScheduleTypeOK, AllUp, RunningIsOwned, [Next]_vars
             PROVE  (AllUp /\ RunningIsOwned)'
    OBVIOUS
<1>1. CASE Tick \/ SubmitSchedule \/ UNCHANGED vars
      BY <1>1 DEF Tick, SubmitSchedule, vars, AllUp, RunningIsOwned
<1>2. CASE StoreSchedule
  <2>1. request \in Requests
        BY <1>2 DEF StoreSchedule, ScheduleTypeOK
  <2>2. /\ \A v \in Workflows \ {request.workflow} : row'[v] = row[v]
        /\ row'[request.workflow].state # "running"
        BY <1>2, <2>1, UpdateType DEF StoreSchedule, Requests, Dates, ScheduleTypeOK
  <2> QED BY <1>2, <2>2 DEF StoreSchedule, AllUp, RunningIsOwned
<1>3. ASSUME NEW p \in Processes, GetDueWorkflows(p)
      PROVE  (AllUp /\ RunningIsOwned)'
  <2> DEFINE Claimed(w) ==
          [process |-> p, workflow |-> w, type |-> row[w].type, at |-> row[w].nextRunAt,
           step |-> "fetched", nextRun |-> NoTime]
  <2>1. PICK batch \in SUBSET Due :
           /\ row' = [w \in Workflows |->
                        IF w \in batch THEN [row[w] EXCEPT !.state = "running"] ELSE row[w]]
           /\ jobs' = jobs \cup {Claimed(w) : w \in batch}
        BY <1>3 DEF GetDueWorkflows
  <2>2. \A w \in batch : Claimed(w) \in jobs' /\ Claimed(w).workflow = w
        BY <2>1
  <2> HIDE DEF Claimed
  <2>3. RunningIsOwned'
        BY <2>1, <2>2 DEF RunningIsOwned
  <2> QED BY <1>3, <2>3 DEF GetDueWorkflows, AllUp
<1>4. ASSUME NEW p \in Processes,
             Stop(p) \/ EnsureInFlightEnqueued(p) \/ PollLoopPanics(p) \/ Crash(p) \/ Restart(p)
      PROVE  FALSE
      BY <1>4 DEF Stop, EnsureInFlightEnqueued, PollLoopPanics, Crash, Restart, Fail, AllUp,
                  ScheduleTypeOK
<1>5. ASSUME NEW j \in jobs, JobStep(j) \/ StoreError(j)
      PROVE  (AllUp /\ RunningIsOwned)'
  <2>1. j \in Jobs /\ j.workflow \in Workflows /\ proc[j.process] = "up"
        BY DEF ScheduleTypeOK, Jobs, AllUp
  <2>2. ASSUME NEW s, Advance(j, s), UNCHANGED <<row, proc>>
        PROVE  (AllUp /\ RunningIsOwned)'
    <3>1. [j EXCEPT !.step = s].workflow = j.workflow
          BY <2>1 DEF Jobs
    <3> QED BY <2>2, <3>1, OwnedByAnother DEF Advance, AllUp
  <2>3. CASE RunScheduledWorkflow(j)
        BY <2>1, <2>2, <2>3 DEF RunScheduledWorkflow
  <2>4. CASE Orchestrate(j)
        BY <2>2, <2>4 DEF Orchestrate
  <2>5. CASE CalculateNext(j)
    <3> DEFINE k == [j EXCEPT !.step = "store", !.nextRun = CalculateNextRun(j.type, j.at)]
    <3>1. k.workflow = j.workflow
          BY <2>1 DEF Jobs
    <3>2. jobs' = (jobs \ {j}) \cup {k} /\ UNCHANGED <<row, proc>>
          BY <2>5 DEF CalculateNext
    <3> HIDE DEF k
    <3> QED BY <3>1, <3>2, OwnedByAnother DEF AllUp
  <2>6. CASE StoreNextRun(j)
    <3>1. /\ \A v \in Workflows \ {j.workflow} : row'[v] = row[v]
          /\ row'[j.workflow].state # "running"
          BY <2>1, <2>6, UpdateType DEF StoreNextRun, Jobs, ScheduleTypeOK
    <3> QED BY <2>6, <3>1 DEF StoreNextRun, AllUp, RunningIsOwned
  <2>7. ~StoreError(j)
        BY DEF StoreError, Fail, ScheduleTypeOK
  <2> QED BY <1>5, <2>3, <2>4, <2>5, <2>6, <2>7 DEF JobStep
<1> QED BY <1>1, <1>2, <1>3, <1>4, <1>5 DEF Next

\* A row that says running has somebody to free it (StoreNextRun), however
\* often users edit schedules and however many processes poll, as long as
\* none of them stops, crashes or fails to write.
THEOREM RunningOwnedByTheLiving ==
    ASSUME MaxStops = 0, MaxFailures = 0
    PROVE  Spec => []RunningIsOwned
<1>1. Init => ScheduleTypeOK /\ AllUp /\ RunningIsOwned
      BY TypeInit DEF Init, AllUp, RunningIsOwned
<1>2. /\ ScheduleTypeOK /\ AllUp /\ RunningIsOwned
      /\ [Next]_vars
      => (ScheduleTypeOK /\ AllUp /\ RunningIsOwned)'
      BY TypeStep, OwnedStep
<1> QED BY <1>1, <1>2, PTL DEF Spec
=============================================================================
