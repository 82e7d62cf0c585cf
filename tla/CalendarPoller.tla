--------------------------- MODULE CalendarPoller ---------------------------
(***************************************************************************)
(* The poller of calendar triggers: scheduler processes that claim the row *)
(* of a workflow's calendar, ask Google for events, claim one event in     *)
(* Redis, start the workflow and store the row again, beside the user who  *)
(* edits the trigger and the calendar that changes.                        *)
(*                                                                         *)
(* One row is modelled; rows are independent.  Every event matches the     *)
(* keywords.  Google's calendar is external: the log of cancelled events,  *)
(* with positions in it as sync tokens, and the times each event starts    *)
(* and ends.                                                               *)
(***************************************************************************)
EXTENDS Naturals, Sequences, FiniteSets

CONSTANTS
  Pollers, Events,
  TimeOf,                 \* condition -> event -> when it starts or ends
  Conditions,             \* the status conditions of the trigger
  Minutes,                \* bound: the time conditions
  CancelledTTL,           \* the 24 hours of a claim on a cancelled event
  MaxResults,             \* events in an answer; 50 in the code
  MaxNow,                 \* bound: the clock
  MaxTroubles,            \* bound: edits, crashes, failed calls and expired tokens
  NoToken, NoEvent

VARIABLES
  now,
  log, oldest,            \* cancelled events, and the oldest token Google takes
  row,                    \* the stored calendar: state, sync token and the trigger
  claims,                 \* event -> when its claim in Redis expires
  late,                   \* history: the events claimed after their window
  runs,                   \* event -> condition -> how often it started the workflow
  poller,                 \* what each scheduler process is doing
  edits, failures         \* how often the user and the world interfered
world == <<now, log, oldest>>
vars == <<now, log, oldest, row, claims, late, runs, poller, edits, failures>>

Token == Nat \cup {NoToken}
Idle == [step |-> "idle"]

TypeOK ==
  /\ now \in 0 .. MaxNow /\ log \in Seq(Events) /\ oldest \in Nat
  /\ row \in [state : {"queued", "running"}, token : Token, condition : Conditions, minutes : Minutes]
  /\ claims \in [Events -> Nat] /\ late \subseteq Events
  /\ runs \in [Events -> [Conditions -> Nat]]
  /\ \A p \in Pollers :
       /\ poller[p].step \in {"idle", "fetch", "match", "claim", "run"}
       /\ poller[p].step # "idle" =>
            /\ poller[p].condition \in Conditions /\ poller[p].minutes \in Minutes
            /\ poller[p].token \in Token
       /\ poller[p].step = "run" => poller[p].event \in Events
  /\ edits \in Nat /\ failures \in Nat /\ edits + failures <= MaxTroubles

timeBasedTrigger(c) == c.condition \in {"starting", "ending"}

-----------------------------------------------------------------------------
(* A poll.                                                                 *)

\* GetActiveWorkflowCalendarsLocked: a queued row is claimed by one process.
GetActiveCalendars(p) ==
  /\ poller[p] = Idle
  /\ row.state = "queued"
  /\ row' = [row EXCEPT !.state = "running"]
  /\ poller' = [poller EXCEPT ![p] = [step |-> "fetch", token |-> row.token, condition |-> row.condition,
                                      minutes |-> row.minutes, events |-> <<>>, next |-> NoToken,
                                      event |-> NoEvent]]
  /\ UNCHANGED <<world, claims, late, runs, edits, failures>>

\* An error is logged; the row stays as it is.
Fails(p) == poller' = [poller EXCEPT ![p] = Idle] /\ UNCHANGED <<row, claims, late, runs, edits>>

Failure == edits + failures < MaxTroubles /\ failures' = failures + 1

InWindow(e, c) ==
  LET time == TimeOf[c.condition][e]
  IN IF c.condition = "starting" THEN now + c.minutes > time /\ now < time
     ELSE now > time /\ now < time + c.minutes

\* The events GetEventsByTimeRange is asked for, but for those that have
\* started and can not match any more.  It tells of no cancelled event.
InRange(c) ==
  LET time == TimeOf[c.condition]
  IN {e \in Events :
        /\ \A i \in DOMAIN log : log[i] # e
        /\ IF c.condition = "starting" THEN now + c.minutes > time[e] /\ now < time[e]
           ELSE time[e] + c.minutes > now}

Orders(S) == {s \in [1 .. Cardinality(S) -> S] : \A i, j \in DOMAIN s : s[i] = s[j] => i = j}
First(n, s) == IF Len(s) <= n THEN s ELSE SubSeq(s, 1, n)

\* The answers to a poll of the trigger c: events, and the token for the next
\* poll, which an answer that does not hold all of them does not have.
Answers(token, c) ==
  LET all == IF timeBasedTrigger(c) THEN Orders(InRange(c)) ELSE {SubSeq(log, token + 1, Len(log))}
  IN {[events |-> First(MaxResults, s), next |-> IF Len(s) <= MaxResults THEN Len(log) ELSE NoToken] :
        s \in all}

\* An empty token is replaced by the one of the present, before the events
\* are asked for; it is not read again.
GetEvents(p) ==
  LET q == poller[p]
      token == IF q.token = NoToken THEN Len(log) ELSE q.token
  IN /\ q.step = "fetch"
     /\ timeBasedTrigger(q) \/ token >= oldest
     /\ \E answer \in Answers(token, q) :
          poller' = [poller EXCEPT ![p] = [q EXCEPT !.step = "match", !.token = NoToken,
                                                    !.events = answer.events, !.next = answer.next]]
     /\ UNCHANGED <<world, row, claims, late, runs, edits, failures>>

\* 410 Gone: the copy of the token is cleared and an error returned.
ErrSyncTokenExpired(p) ==
  /\ poller[p].step = "fetch"
  /\ ~timeBasedTrigger(poller[p]) /\ poller[p].token # NoToken /\ poller[p].token < oldest
  /\ Fails(p)
  /\ UNCHANGED <<world, failures>>

\* No client, no token, no answer.
GetEventsFails(p) ==
  /\ poller[p].step = "fetch"
  /\ Failure /\ Fails(p)
  /\ UNCHANGED world

shouldTriggerWorkflow(e, c) == timeBasedTrigger(c) => InWindow(e, c)

\* The first event of the answer that is left is looked at, by the clock of
\* this moment: it is to be claimed or passed over.
MatchEvent(p) ==
  LET q == poller[p]
  IN /\ q.step = "match" /\ q.events # <<>>
     /\ poller' = [poller EXCEPT ![p] =
          IF shouldTriggerWorkflow(Head(q.events), q) THEN [q EXCEPT !.step = "claim"]
          ELSE [q EXCEPT !.events = Tail(q.events)]]
     /\ UNCHANGED <<world, row, claims, late, runs, edits, failures>>

\* Mutant: the claim lasts for half the time.
HalfTTL(c) == IF timeBasedTrigger(c) THEN c.minutes \div 2 ELSE CancelledTTL

ttl(c) == IF timeBasedTrigger(c) THEN c.minutes ELSE CancelledTTL

\* SetNX of a key with an expiry.
Claimable(e) == claims[e] <= now

\* Mutant: the loop goes on after a claim.
ClaimGoesOn(p) ==
  LET q == poller[p]
  IN /\ q.step = "claim"
     /\ claims' = [claims EXCEPT ![Head(q.events)] = now + ttl(q)]
     /\ poller' = [poller EXCEPT ![p] = [q EXCEPT !.step = "match", !.events = Tail(q.events)]]
     /\ UNCHANGED <<world, row, late, runs, edits, failures>>

\* The claim reaches Redis, by now after the window perhaps.  An event is
\* passed over when it is claimed already and when Redis answers with an error.
TryEventClaim(p) ==
  LET q == poller[p]
      e == Head(q.events)
  IN /\ q.step = "claim"
     /\ \/ /\ Claimable(e)
           /\ claims' = [claims EXCEPT ![e] = now + ttl(q)]
           /\ late' = IF shouldTriggerWorkflow(e, q) THEN late ELSE late \cup {e}
           /\ poller' = [poller EXCEPT ![p] = [q EXCEPT !.step = "run", !.events = <<>>, !.event = e]]
        \/ /\ poller' = [poller EXCEPT ![p] = [q EXCEPT !.step = "match", !.events = Tail(q.events)]]
           /\ UNCHANGED <<claims, late>>
     /\ UNCHANGED <<world, row, runs, edits, failures>>

OrchestrateWorkflow(p) ==
  /\ poller[p].step = "run"
  /\ runs' = [runs EXCEPT ![poller[p].event][poller[p].condition] = @ + 1]
  /\ poller' = [poller EXCEPT ![p].step = "match", ![p].event = NoEvent]
  /\ UNCHANGED <<world, row, claims, late, edits, failures>>

OrchestrateFails(p) ==
  /\ poller[p].step = "run"
  /\ Failure /\ Fails(p)
  /\ UNCHANGED world

\* No event is left to look at, or one was taken.
Checked(p) == poller[p].step = "match" /\ poller[p].events = <<>>

\* Mutant: the state is stored as it was read.
StoresRunning(p) ==
  /\ Checked(p)
  /\ row' = [state |-> "running", token |-> poller[p].next,
             condition |-> poller[p].condition, minutes |-> poller[p].minutes]
  /\ poller' = [poller EXCEPT ![p] = Idle]
  /\ UNCHANGED <<world, claims, late, runs, edits, failures>>

\* The whole row is written from the copy.
UpdateWorkflowCalendar(p) ==
  /\ Checked(p)
  /\ row' = [state |-> "queued", token |-> poller[p].next,
             condition |-> poller[p].condition, minutes |-> poller[p].minutes]
  /\ poller' = [poller EXCEPT ![p] = Idle]
  /\ UNCHANGED <<world, claims, late, runs, edits, failures>>

UpdateFails(p) ==
  /\ Checked(p)
  /\ Failure /\ Fails(p)
  /\ UNCHANGED world

\* The process stops, in a crash or with its context, and another starts.
Crash(p) ==
  /\ poller[p] # Idle
  /\ Failure /\ Fails(p)
  /\ UNCHANGED world

-----------------------------------------------------------------------------
(* The user and the world.                                                 *)

\* The trigger is updated: a new token, queued.  The claims stay; their key
\* has the workflow and the event in it, and not the condition.
Update(condition, minutes) ==
  /\ edits + failures < MaxTroubles
  /\ edits' = edits + 1
  /\ row' = [state |-> "queued", token |-> Len(log), condition |-> condition, minutes |-> minutes]
  /\ UNCHANGED <<world, claims, late, runs, poller, failures>>

\* A token becomes too old for Google.
TokensExpire ==
  /\ Failure
  /\ oldest' = Len(log)
  /\ UNCHANGED <<now, log, row, claims, late, runs, poller, edits>>

\* While the trigger is on times, a cancellation would only take the event
\* out of the answers, and is left out.
CancelEvent(e) ==
  /\ row.condition = "cancelled"
  /\ \A i \in DOMAIN log : log[i] # e
  /\ log' = Append(log, e)
  /\ UNCHANGED <<now, oldest, row, claims, late, runs, poller, edits, failures>>

Tick ==
  /\ now < MaxNow
  /\ now' = now + 1
  /\ UNCHANGED <<log, oldest, row, claims, late, runs, poller, edits, failures>>

-----------------------------------------------------------------------------
Init ==
  /\ now = 0 /\ log = <<>> /\ oldest = 0
  /\ \E c \in Conditions, m \in Minutes :
       row = [state |-> "queued", token |-> 0, condition |-> c, minutes |-> m]
  /\ claims = [e \in Events |-> 0] /\ late = {}
  /\ runs = [e \in Events |-> [c \in Conditions |-> 0]]
  /\ poller = [p \in Pollers |-> Idle]
  /\ edits = 0 /\ failures = 0

PollStep(p) ==
  \/ GetEvents(p) \/ ErrSyncTokenExpired(p)
  \/ MatchEvent(p) \/ TryEventClaim(p)
  \/ OrchestrateWorkflow(p) \/ UpdateWorkflowCalendar(p)

Next ==
  \/ \E p \in Pollers :
       GetActiveCalendars(p) \/ PollStep(p)
         \/ GetEventsFails(p) \/ OrchestrateFails(p) \/ UpdateFails(p) \/ Crash(p)
  \/ \E c \in Conditions, m \in Minutes : Update(c, m)
  \/ \E e \in Events : CancelEvent(e)
  \/ TokensExpire \/ Tick

Spec == Init /\ [][Next]_vars

\* A process that has begun a check goes on with it.
FairSpec == Spec /\ \A p \in Pollers : WF_vars(PollStep(p))

-----------------------------------------------------------------------------
(* Properties.                                                             *)

\* No event starts the workflow twice under one condition, however many
\* processes poll and whatever fails, while nobody edits the trigger and,
\* before an event starts, however it is edited: a claim is never gone while
\* its event could still match.  That takes a claim that reaches Redis while
\* its event matches: the time is looked at before, and a claim that arrives
\* after the window may find that of an earlier poll expired.
OncePerEvent ==
  \A e \in Events \ late, c \in Conditions :
    edits = 0 \/ c = "starting" => runs[e][c] <= 1

\* A row that is being checked is queued again in the end, so the trigger
\* goes on being polled, unless a process stops, a call fails or the token
\* expires: every path through checkEventChanges that returns no error ends
\* in the statement that queues the row.
PolledAgain == row.state = "running" ~> row.state = "queued" \/ failures > 0

\* A claim is never for nothing: an event that was claimed in Redis has started
\* the workflow or is about to, whatever else the pollers and the user do,
\* unless a process stopped or a call failed.
ClaimedRuns ==
  \A e \in Events : claims[e] > 0 =>
    \/ \E c \in Conditions : runs[e][c] > 0
    \/ failures > 0
    \/ \E p \in Pollers : poller[p].step = "run" /\ poller[p].event = e

=============================================================================
