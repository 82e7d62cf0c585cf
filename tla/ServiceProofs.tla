---------------------------- MODULE ServiceProofs ----------------------------
(***************************************************************************)
(* What the services promise, for any number of pollers, callers, events   *)
(* and workflows.                                                          *)
(***************************************************************************)
EXTENDS Services, FiniteSetTheorems, SequenceTheorems, TLAPS

-----------------------------------------------------------------------------
(* The parts do not disturb each other: what the steps of one part keep,   *)
(* every step keeps.                                                       *)

LEMMA PollerSteps ==
  [ServicesNext]_servicesVars => [Poller!Next]_pollerVars
BY DEF ServicesNext, servicesVars, Others, Rest, Parts

LEMMA BrokerSteps ==
  [ServicesNext]_servicesVars => [Next]_vars
BY DEF ServicesNext, servicesVars, Others, Rest, Parts

-----------------------------------------------------------------------------
(* The connection to RabbitMQ: the flag "reconnecting" keeps the           *)
(* goroutines of monitorConnection apart.                                  *)

\* TypeOK and OneMonitor together are inductive: that a goroutine may pass an
\* unset flag needs that nobody is past it, and that a goroutine may clear it
\* needs that it is alone.
BrokerInv == TypeOK /\ OneMonitor

\* A process starts with the flag clear and one goroutine before it.
LEMMA BrokerInit == Init => BrokerInv
<1> SUFFICES ASSUME Init PROVE BrokerInv
  OBVIOUS
<1>1. monitor = [g \in Monitors |-> IF g = 1 THEN "start" ELSE "none"]
  BY DEF Init
<1>2. \A g \in Monitors : monitor[g] \in {"start", "none"}
  BY <1>1
<1>3. \A g \in Monitors : ~PastFlag(g)
  BY <1>2 DEF PastFlag
<1>4. TypeOK
  <2>1. monitor \in [Monitors -> {"none", "start", "notify", "watch", "reconnect", "setup", "defer", "done"}]
    BY <1>1
  <2>2. {broker, cancelled, reconnecting, consuming} \subseteq BOOLEAN
    BY Zenon DEF Init
  <2>3. attempts \in 0 .. maxAttempts
    BY ConnectionAssumption DEF Init
  <2> QED BY <2>1, <2>2, <2>3 DEF Init, TypeOK
<1>5. ~reconnecting
  BY DEF Init
<1>6. OneMonitor
  BY <1>3, <1>5 DEF OneMonitor
<1> QED BY <1>4, <1>6 DEF BrokerInv

\* The steps of one goroutine keep one goroutine past the flag.
LEMMA GoroutineStep ==
  ASSUME BrokerInv, NEW g \in Monitors, Goroutine(g)
  PROVE  BrokerInv'
<1> USE ConnectionAssumption
<1> USE DEF BrokerInv, TypeOK, OneMonitor, PastFlag, Monitors, Goto
<1>1. CASE Begin(g)
  <2>1. CASE reconnecting
    BY <1>1, <2>1 DEF Begin
  <2>2. CASE ~reconnecting
    BY <1>1, <2>2 DEF Begin
  <2> QED BY <2>1, <2>2
<1>2. CASE NotifyClose(g)  BY <1>2 DEF NotifyClose
<1>3. CASE Watch(g)        BY <1>3 DEF Watch
<1>4. CASE Return(g)       BY <1>4 DEF Return
<1>5. CASE Stop(g)         BY <1>5 DEF Stop
<1>6. CASE GiveUp(g)       BY <1>6 DEF GiveUp
<1>7. CASE ConnectFails(g) BY <1>7 DEF ConnectFails
<1>8. CASE connect(g)      BY <1>8 DEF connect
<1>9. CASE setupQueuesAndExchanges(g)
  <2>1. g + 1 \in Monitors /\ g + 1 # g
    BY <1>9 DEF setupQueuesAndExchanges
  <2>2. monitor' = [monitor EXCEPT ![g] = "defer", ![g + 1] = "start"]
    BY <1>9 DEF setupQueuesAndExchanges
  <2>3. ~PastFlag(g + 1)
    BY <1>9, <2>1 DEF setupQueuesAndExchanges
  <2>4. \A h \in Monitors : PastFlag(h)' <=> PastFlag(h)
    BY <1>9, <2>1, <2>2, <2>3 DEF setupQueuesAndExchanges
  <2>5. TypeOK'
    BY <1>9, <2>1, <2>2 DEF setupQueuesAndExchanges
  <2>6. reconnecting' = reconnecting
    BY <1>9 DEF setupQueuesAndExchanges
  <2>7. OneMonitor'
    BY <2>4, <2>6
  <2> QED BY <2>5, <2>7
<1>10. CASE SetupAgain(g)  BY <1>10 DEF SetupAgain
<1> QED BY <1>1, <1>2, <1>3, <1>4, <1>5, <1>6, <1>7, <1>8, <1>9, <1>10 DEF Goroutine

\* The world and Close touch neither the flag nor a goroutine.
LEMMA BrokerNext == BrokerInv /\ [Next]_vars => BrokerInv'
<1> SUFFICES ASSUME BrokerInv, [Next]_vars PROVE BrokerInv'
  OBVIOUS
<1>1. CASE \E g \in Monitors : Goroutine(g)
  BY <1>1, GoroutineStep
<1>2. CASE LoseConnection
  BY <1>2 DEF LoseConnection, BrokerInv, TypeOK, OneMonitor, PastFlag
<1>3. CASE BrokerReturns
  BY <1>3 DEF BrokerReturns, BrokerInv, TypeOK, OneMonitor, PastFlag
<1>4. CASE Close
  BY <1>4 DEF Close, BrokerInv, TypeOK, OneMonitor, PastFlag
<1>5. CASE UNCHANGED vars
  BY <1>5 DEF vars, BrokerInv, TypeOK, OneMonitor, PastFlag
<1> QED BY <1>1, <1>2, <1>3, <1>4, <1>5 DEF Next

\* However often the connection is lost, one goroutine at a time is past the
\* flag of monitorConnection, and the flag is set exactly while one is.
THEOREM OneMonitorAlways == ServicesSpec => []OneMonitor
<1>1. ServicesInit => BrokerInv
      BY BrokerInit DEF ServicesInit
<1>2. BrokerInv /\ [ServicesNext]_servicesVars => BrokerInv'
      BY BrokerSteps, BrokerNext
<1>3. BrokerInv => OneMonitor
      BY DEF BrokerInv
<1>4. QED
      BY <1>1, <1>2, <1>3, PTL DEF ServicesSpec

-----------------------------------------------------------------------------
(* The poller.                                                             *)

USE PollerAssumption, GoogleAssumption

BusyPoller ==
  [step : {"fetch", "match", "claim", "run"}, token : Nat \cup {None},
   condition : Conditions, minutes : Minutes,
   events : Seq(Events), next : Nat \cup {None}, event : Events \cup {None}]

CalendarRow ==
  [state : {"queued", "running"}, token : Nat \cup {None}, condition : Conditions, minutes : Minutes]

\* A process has its locals: an event that it is about to claim, or has claimed
\* without looking at more of them.
PollersType ==
  /\ poller \in [Pollers -> BusyPoller \cup {Poller!Idle}]
  /\ \A p \in Pollers :
       /\ poller[p].step = "claim" => poller[p].events # <<>>
       /\ poller[p].step = "run" => poller[p].event \in Events /\ poller[p].events = <<>>

PollerType ==
  /\ now \in Nat /\ log \in Seq(Events)
  /\ calendar \in CalendarRow
  /\ claims \in [Events -> Nat] /\ late \subseteq Events
  /\ runs \in [Events -> [Conditions -> Nat]]
  /\ PollersType
  /\ calendarEdits \in Nat /\ failures \in Nat

LEMMA PollerTypeInit == Poller!Init => PollerType
<1> SUFFICES ASSUME Poller!Init PROVE PollerType
    OBVIOUS
<1>1. poller \in [Pollers -> BusyPoller \cup {Poller!Idle}]
      BY DEF Poller!Init
<1>2. \A p \in Pollers : poller[p].step = "idle"
      BY DEF Poller!Init, Poller!Idle
<1>3. log \in Seq(Events)
      BY DEF Poller!Init
<1>4. calendar \in CalendarRow
      BY DEF Poller!Init, CalendarRow
<1>5. claims \in [Events -> Nat] /\ runs \in [Events -> [Conditions -> Nat]]
      BY DEF Poller!Init
<1>6. QED
      BY <1>1, <1>2, <1>3, <1>4, <1>5 DEF Poller!Init, PollerType, PollersType

\* One process moves, to v.
Moves(p, v) == poller' = [poller EXCEPT ![p] = v]

LEMMA PollerMove ==
  ASSUME PollersType, NEW p \in Pollers, NEW v \in BusyPoller \cup {Poller!Idle},
         v.step = "claim" => v.events # <<>>,
         v.step = "run" => v.event \in Events /\ v.events = <<>>, Moves(p, v)
  PROVE  PollersType' /\ poller'[p] = v /\ \A q \in Pollers \ {p} : poller'[q] = poller[q]
BY DEF PollersType, Moves

\* A process that is not idle has all its locals.
LEMMA PollerIsBusy ==
  ASSUME PollersType, NEW p \in Pollers, poller[p].step # "idle"
  PROVE  poller[p] \in BusyPoller
BY DEF PollersType, Poller!Idle

LEMMA EventsLeft ==
  ASSUME NEW q \in BusyPoller, q.events # <<>>
  PROVE  Head(q.events) \in Events /\ Tail(q.events) \in Seq(Events)
<1>1. q.events \in Seq(Events)
      BY DEF BusyPoller
<1>2. QED
      BY <1>1

LEMMA OrdersAreEvents ==
  ASSUME NEW S, S \subseteq Events
  PROVE  Poller!Orders(S) \subseteq Seq(Events)
<1> SUFFICES ASSUME NEW s \in Poller!Orders(S) PROVE s \in Seq(Events)
    OBVIOUS
<1>1. Cardinality(S) \in Nat
      BY FS_Subset, FS_CardinalityType
<1>2. s \in [1 .. Cardinality(S) -> Events]
      <2>1. s \in [1 .. Poller!Cardinality(S) -> S]
            BY DEF Poller!Orders
      <2>2. Poller!Cardinality(S) = Cardinality(S)
            BY DEF Poller!Cardinality, Cardinality
      <2>3. QED
            BY <2>1, <2>2
<1>3. QED
      BY <1>1, <1>2, SeqDef

\* The events of an answer come from the calendar.
LEMMA AnswersAreEvents ==
  ASSUME log \in Seq(Events), NEW token \in Nat, NEW c,
         NEW answer \in Poller!Answers(token, c)
  PROVE  answer.events \in Seq(Events) /\ answer.next \in {Len(log), None}
<1>1. ASSUME NEW s \in Seq(Events) PROVE Poller!First(MaxResults, s) \in Seq(Events)
      BY <1>1 DEF Poller!First
<1>2. Poller!Orders(Poller!InRange(c)) \subseteq Seq(Events)
      BY OrdersAreEvents DEF Poller!InRange
<1>3. SubSeq(log, token + 1, Len(log)) \in Seq(Events)
      OBVIOUS
<1>4. PICK s \in Seq(Events) :
          answer = [events |-> Poller!First(MaxResults, s),
                    next |-> IF Len(s) <= MaxResults THEN Len(log) ELSE None]
      BY <1>2, <1>3 DEF Poller!Answers
<1>5. QED
      BY <1>1, <1>4

\* Process p has claimed event e, for condition c, and is about to start the
\* workflow.
Takes(p, e, c) == poller[p].step = "run" /\ poller[p].event = e /\ poller[p].condition = c

Taken(e, c) == runs[e][c] > 0 \/ \E p \in Pollers : Takes(p, e, c)

Busy(p) == poller[p].step # "idle"

-----------------------------------------------------------------------------
(* What each step does to the row, the processes and the log.  A process   *)
(* claims the first event of its answer, starts the workflow for the event *)
(* it claimed, or leaves claims and runs as they are.                      *)

OthersStay(p) == \A o \in Pollers \ {p} : poller'[o] = poller[o]

SameTrigger(p) ==
  poller'[p].condition = poller[p].condition /\ poller'[p].minutes = poller[p].minutes

TakesRow(p) ==
  /\ poller[p].step = "idle" /\ calendar.state = "queued"
  /\ calendar' = [calendar EXCEPT !.state = "running"]
  /\ poller'[p].step = "fetch" /\ poller'[p].token = calendar.token
  /\ poller'[p].condition = calendar.condition /\ poller'[p].minutes = calendar.minutes
  /\ OthersStay(p)
  /\ UNCHANGED <<log, claims, late, runs, calendarEdits, failures>>

Fetches(p) ==
  /\ poller[p] \in BusyPoller /\ poller[p].step = "fetch"
  /\ LET token == IF poller[p].token = None THEN Len(log) ELSE poller[p].token
     IN \E answer \in Poller!Answers(token, poller[p]) :
          poller'[p].events = answer.events /\ poller'[p].next = answer.next
  /\ poller'[p].step = "match" /\ SameTrigger(p)
  /\ OthersStay(p)
  /\ UNCHANGED <<log, calendar, claims, late, runs, calendarEdits, failures>>

Matches(p) ==
  /\ poller[p] \in BusyPoller /\ poller[p].step = "match"
  /\ poller'[p].step = "claim" /\ SameTrigger(p)
  /\ poller'[p].events = poller[p].events /\ poller'[p].next = poller[p].next
  /\ OthersStay(p)
  /\ UNCHANGED <<log, calendar, claims, late, runs, calendarEdits, failures>>

PassesOver(p) ==
  /\ poller[p] \in BusyPoller /\ poller[p].step \in {"match", "claim"} /\ poller[p].events # <<>>
  /\ poller'[p].step = "match" /\ SameTrigger(p)
  /\ poller'[p].events = Tail(poller[p].events) /\ poller'[p].next = poller[p].next
  /\ OthersStay(p)
  /\ UNCHANGED <<log, calendar, claims, late, runs, calendarEdits, failures>>

ClaimsFirst(p, e) ==
  LET q == poller[p]
  IN /\ q \in BusyPoller /\ q.step = "claim" /\ q.events # <<>> /\ e = Head(q.events)
     /\ Poller!Claimable(e)
     /\ claims' = [claims EXCEPT ![e] = now + Poller!ttl(q)]
     /\ late' = IF Poller!shouldTriggerWorkflow(e, q) THEN late ELSE late \cup {e}
     /\ poller'[p].step = "run" /\ poller'[p].event = e /\ poller'[p].next = q.next /\ SameTrigger(p)
     /\ OthersStay(p)
     /\ UNCHANGED <<now, log, calendar, runs, calendarEdits, failures>>

Starts(p, e, c) ==
  /\ poller[p] \in BusyPoller /\ Takes(p, e, c) /\ c \in Conditions
  /\ runs' = [runs EXCEPT ![e] = [runs[e] EXCEPT ![c] = @ + 1]]
  /\ poller'[p].step = "match" /\ poller'[p].events = <<>> /\ poller'[p].next = poller[p].next
  /\ SameTrigger(p)
  /\ OthersStay(p)
  /\ UNCHANGED <<log, calendar, claims, late, calendarEdits, failures>>

Stores(p) ==
  /\ poller[p] \in BusyPoller /\ poller[p].step = "match"
  /\ calendar' = [state |-> "queued", token |-> poller[p].next,
                  condition |-> poller[p].condition, minutes |-> poller[p].minutes]
  /\ poller'[p].step = "idle"
  /\ OthersStay(p)
  /\ UNCHANGED <<log, claims, late, runs, calendarEdits, failures>>

\* A process lets go of an event it has claimed only when something fails.
Stops(p) ==
  /\ Busy(p) /\ poller'[p].step = "idle"
  /\ OthersStay(p)
  /\ UNCHANGED <<log, calendar, claims, late, runs, calendarEdits>>
  /\ (poller[p].step # "run" /\ failures' = failures) \/ failures' = failures + 1

WorldMoves ==
  /\ log' = log \/ \E e \in Events : log' = Append(log, e) /\ \A i \in 1 .. Len(log) : log[i] # e
  /\ failures' = failures \/ failures' = failures + 1
  /\ UNCHANGED <<calendar, claims, late, runs, poller, calendarEdits>>

Edited ==
  /\ calendarEdits' = calendarEdits + 1
  /\ UNCHANGED <<log, claims, late, runs, poller, failures>>

PollerCase ==
  \/ \E p \in Pollers :
       \/ TakesRow(p) \/ Fetches(p) \/ Matches(p) \/ PassesOver(p) \/ Stores(p) \/ Stops(p)
       \/ \E e \in Events : ClaimsFirst(p, e) \/ \E c \in Conditions : Starts(p, e, c)
  \/ WorldMoves \/ Edited

\* The types and the effects of every step.
LEMMA PollerCases ==
  ASSUME PollerType, [Poller!Next]_pollerVars
  PROVE  PollerType' /\ PollerCase
<1>t. PollersType /\ poller \in [Pollers -> BusyPoller \cup {Poller!Idle}] /\ log \in Seq(Events)
      BY DEF PollerType, PollersType
<1>1. CASE UNCHANGED pollerVars
      <2>1. WorldMoves
            BY <1>1 DEF pollerVars, WorldMoves
      <2>2. PollerType'
            BY <1>1 DEF pollerVars, PollerType, PollersType
      <2>3. QED
            BY <2>1, <2>2 DEF PollerCase
<1>2. ASSUME NEW p \in Pollers, NEW v \in BusyPoller \cup {Poller!Idle}, Moves(p, v),
             v.step = "claim" => v.events # <<>>,
             v.step = "run" => v.event \in Events /\ v.events = <<>>
      PROVE  poller'[p] = v /\ OthersStay(p) /\ PollersType'
      BY <1>2, <1>t, PollerMove DEF OthersStay
<1>3. ASSUME NEW p \in Pollers, Poller!GetActiveCalendars(p) PROVE PollerType' /\ TakesRow(p)
      <2> DEFINE v == [step |-> "fetch", token |-> calendar.token, condition |-> calendar.condition,
                       minutes |-> calendar.minutes, events |-> <<>>, next |-> None, event |-> None]
      <2>1. Moves(p, v)
            BY <1>3 DEF Poller!GetActiveCalendars, Moves
      <2>2. /\ v \in BusyPoller /\ v.step = "fetch" /\ v.token = calendar.token
            /\ v.condition = calendar.condition /\ v.minutes = calendar.minutes
            BY DEF PollerType, CalendarRow, BusyPoller
      <2> HIDE DEF v
      <2>3. poller'[p] = v /\ OthersStay(p) /\ PollersType'
            BY <1>2, <2>1, <2>2
      <2>4. calendar' \in CalendarRow
            BY <1>3 DEF Poller!GetActiveCalendars, PollerType, CalendarRow
      <2>5. TakesRow(p)
            BY <1>3, <2>2, <2>3 DEF Poller!GetActiveCalendars, Poller!world, Poller!Idle, TakesRow
      <2>6. QED
            BY <1>3, <2>3, <2>4, <2>5 DEF Poller!GetActiveCalendars, Poller!world, PollerType
<1>4. ASSUME NEW p \in Pollers, Poller!GetEvents(p) PROVE PollerType' /\ Fetches(p)
      <2> DEFINE token == IF poller[p].token = None THEN Len(log) ELSE poller[p].token
      <2>1. PICK answer \in Poller!Answers(token, poller[p]) :
                Moves(p, [poller[p] EXCEPT !.step = "match", !.token = None,
                            !.events = answer.events, !.next = answer.next])
            BY <1>4 DEF Poller!GetEvents, Moves
      <2>2. poller[p] \in BusyPoller /\ token \in Nat /\ Len(log) \in Nat
            <3>1. poller[p] \in BusyPoller
                  BY <1>4, <1>t, PollerIsBusy DEF Poller!GetEvents
            <3>2. QED
                  BY <1>t, <3>1 DEF BusyPoller
      <2> HIDE DEF token
      <2>3. answer.events \in Seq(Events) /\ answer.next \in {Len(log), None}
            BY <1>t, <2>1, <2>2, AnswersAreEvents
      <2> DEFINE v == [poller[p] EXCEPT !.step = "match", !.token = None,
                            !.events = answer.events, !.next = answer.next]
      <2>4. /\ v \in BusyPoller /\ v.step = "match" /\ v.events = answer.events /\ v.next = answer.next
            /\ v.condition = poller[p].condition /\ v.minutes = poller[p].minutes
            BY <2>2, <2>3 DEF BusyPoller
      <2>5. Moves(p, v)
            BY <2>1
      <2> HIDE DEF v
      <2>6. poller'[p] = v /\ OthersStay(p) /\ PollersType'
            BY <1>2, <2>4, <2>5
      <2>7. Fetches(p)
            BY <1>4, <2>1, <2>2, <2>4, <2>6 DEF token, Poller!GetEvents, Poller!world, Fetches, SameTrigger
      <2>8. QED
            BY <1>4, <2>6, <2>7 DEF Poller!GetEvents, Poller!world, PollerType
<1>5. ASSUME NEW p \in Pollers, Poller!MatchEvent(p) PROVE PollerType' /\ (Matches(p) \/ PassesOver(p))
      <2>1. poller[p] \in BusyPoller /\ poller[p].events # <<>> /\ poller[p].step = "match"
            BY <1>5, <1>t, PollerIsBusy DEF Poller!MatchEvent
      <2>2. CASE Moves(p, [poller[p] EXCEPT !.step = "claim"])
            <3> DEFINE v == [poller[p] EXCEPT !.step = "claim"]
            <3>1. /\ v \in BusyPoller /\ v.step = "claim" /\ v.events = poller[p].events
                  /\ v.next = poller[p].next
                  /\ v.condition = poller[p].condition /\ v.minutes = poller[p].minutes
                  BY <2>1 DEF BusyPoller
            <3>2. Moves(p, v)
                  BY <2>2
            <3> HIDE DEF v
            <3>3. poller'[p] = v /\ OthersStay(p) /\ PollersType'
                  BY <1>2, <2>1, <3>1, <3>2
            <3>4. Matches(p)
                  BY <1>5, <2>1, <3>1, <3>3 DEF Poller!MatchEvent, Poller!world, Matches, SameTrigger
            <3>5. QED
                  BY <1>5, <3>3, <3>4 DEF Poller!MatchEvent, Poller!world, PollerType
      <2>3. CASE Moves(p, [poller[p] EXCEPT !.events = Tail(poller[p].events)])
            <3> DEFINE tail == Tail(poller[p].events)
                       v == [poller[p] EXCEPT !.events = tail]
            <3>0. tail \in Seq(Events)
                  BY <2>1, EventsLeft
            <3> HIDE DEF tail
            <3>1. /\ v \in BusyPoller /\ v.step = "match" /\ v.events = tail
                  /\ v.next = poller[p].next
                  /\ v.condition = poller[p].condition /\ v.minutes = poller[p].minutes
                  BY <2>1, <3>0 DEF BusyPoller
            <3>2. Moves(p, v)
                  BY <2>3 DEF tail
            <3> HIDE DEF v
            <3>3. poller'[p] = v /\ OthersStay(p) /\ PollersType'
                  BY <1>2, <2>1, <3>1, <3>2
            <3>4. PassesOver(p)
                  BY <1>5, <2>1, <3>1, <3>3 DEF tail, Poller!MatchEvent, Poller!world, PassesOver, SameTrigger
            <3>5. QED
                  BY <1>5, <3>3, <3>4 DEF Poller!MatchEvent, Poller!world, PollerType
      <2>4. QED
            BY <1>5, <2>2, <2>3 DEF Poller!MatchEvent, Moves
<1>6. ASSUME NEW p \in Pollers, Poller!TryEventClaim(p)
      PROVE  PollerType' /\ (PassesOver(p) \/ \E e \in Events : ClaimsFirst(p, e))
      <2>1. poller[p] \in BusyPoller /\ poller[p].events # <<>> /\ poller[p].step = "claim"
            BY <1>6, <1>t, PollerIsBusy DEF Poller!TryEventClaim, PollersType
      <2>2. Head(poller[p].events) \in Events /\ poller[p].minutes \in Nat /\ now \in Nat
            <3>1. poller[p].minutes \in Minutes
                  BY <2>1 DEF BusyPoller
            <3>2. QED
                  BY <2>1, <3>1, EventsLeft DEF PollerType
      <2>3. CASE /\ Moves(p, [poller[p] EXCEPT !.step = "match", !.events = Tail(poller[p].events)])
                 /\ UNCHANGED <<claims, late>>
            <3> DEFINE tail == Tail(poller[p].events)
                       v == [poller[p] EXCEPT !.step = "match", !.events = tail]
            <3>0. tail \in Seq(Events)
                  BY <2>1, EventsLeft
            <3> HIDE DEF tail
            <3>1. /\ v \in BusyPoller /\ v.step = "match" /\ v.events = tail
                  /\ v.next = poller[p].next
                  /\ v.condition = poller[p].condition /\ v.minutes = poller[p].minutes
                  BY <2>1, <3>0 DEF BusyPoller
            <3>2. Moves(p, v)
                  BY <2>3 DEF tail
            <3> HIDE DEF v
            <3>3. poller'[p] = v /\ OthersStay(p) /\ PollersType'
                  BY <1>2, <2>1, <3>1, <3>2
            <3>4. PassesOver(p)
                  BY <1>6, <2>1, <2>3, <3>1, <3>3 DEF tail, Poller!TryEventClaim, Poller!world, PassesOver,
                     SameTrigger
            <3>5. QED
                  BY <1>6, <2>3, <3>3, <3>4 DEF Poller!TryEventClaim, Poller!world, PollerType
      <2>4. CASE LET e == Head(poller[p].events)
                 IN /\ Poller!Claimable(e)
                    /\ claims' = [claims EXCEPT ![e] = now + Poller!ttl(poller[p])]
                    /\ late' = IF Poller!shouldTriggerWorkflow(e, poller[p]) THEN late ELSE late \cup {e}
                    /\ Moves(p, [poller[p] EXCEPT !.step = "run", !.events = <<>>, !.event = e])
            <3> DEFINE e == Head(poller[p].events)
                       none == <<>>
            <3>0. e \in Events /\ none \in Seq(Events)
                  BY <2>2
            <3> HIDE DEF e, none
            <3> DEFINE v == [poller[p] EXCEPT !.step = "run", !.events = none, !.event = e]
            <3>1. /\ v \in BusyPoller /\ v.step = "run" /\ v.events = none /\ v.event = e
                  /\ v.next = poller[p].next
                  /\ v.condition = poller[p].condition /\ v.minutes = poller[p].minutes
                  BY <2>1, <3>0 DEF BusyPoller
            <3>2. Moves(p, v)
                  BY <2>4 DEF e, none
            <3> HIDE DEF v
            <3>3. poller'[p] = v /\ OthersStay(p) /\ PollersType'
                  BY <1>2, <3>0, <3>1, <3>2 DEF none
            <3>4. now + Poller!ttl(poller[p]) \in Nat
                  BY <2>2 DEF Poller!ttl
            <3>5. claims' \in [Events -> Nat] /\ late' \subseteq Events
                  BY <2>4, <3>0, <3>4 DEF e, PollerType
            <3>6. ClaimsFirst(p, e)
                  BY <1>6, <2>1, <2>4, <3>1, <3>3 DEF e, Poller!TryEventClaim, Poller!world, ClaimsFirst,
                     SameTrigger
            <3>7. QED
                  BY <1>6, <3>0, <3>3, <3>5, <3>6 DEF Poller!TryEventClaim, Poller!world, PollerType
      <2>5. QED
            BY <1>6, <2>3, <2>4 DEF Poller!TryEventClaim, Moves
<1>7. ASSUME NEW p \in Pollers, Poller!OrchestrateWorkflow(p)
      PROVE  PollerType' /\ \E e \in Events : \E c \in Conditions : Starts(p, e, c)
      <2> DEFINE e == poller[p].event
                 c == poller[p].condition
                 v == [poller[p] EXCEPT !.step = "match", !.event = None]
      <2>1. /\ poller[p] \in BusyPoller /\ e \in Events /\ c \in Conditions
            /\ poller[p].events = <<>> /\ poller[p].step = "run"
            <3>1. poller[p] \in BusyPoller /\ e \in Events /\ poller[p].events = <<>> /\ poller[p].step = "run"
                  BY <1>7, <1>t, PollerIsBusy DEF Poller!OrchestrateWorkflow, PollersType
            <3>2. QED
                  BY <3>1 DEF BusyPoller
      <2>2. runs' = [runs EXCEPT ![e] = [runs[e] EXCEPT ![c] = @ + 1]]
            BY <1>7 DEF Poller!OrchestrateWorkflow
      <2>3. Moves(p, v)
            BY <1>7, <1>t DEF Poller!OrchestrateWorkflow, Moves
      <2>4. /\ v \in BusyPoller /\ v.step = "match" /\ v.events = <<>>
            /\ v.next = poller[p].next
            /\ v.condition = poller[p].condition /\ v.minutes = poller[p].minutes
            BY <2>1 DEF BusyPoller
      <2> HIDE DEF v
      <2>5. poller'[p] = v /\ OthersStay(p) /\ PollersType'
            BY <1>2, <2>3, <2>4
      <2>6. Starts(p, e, c)
            BY <1>7, <2>1, <2>2, <2>4, <2>5 DEF Poller!OrchestrateWorkflow, Poller!world, Starts, Takes,
               SameTrigger
      <2>7. runs' \in [Events -> [Conditions -> Nat]]
            <3> HIDE DEF e, c
            <3>1. runs \in [Events -> [Conditions -> Nat]] /\ runs[e] \in [Conditions -> Nat]
                  BY <2>1 DEF PollerType
            <3>2. [runs[e] EXCEPT ![c] = @ + 1] \in [Conditions -> Nat]
                  BY <2>1, <3>1
            <3>3. QED
                  BY <2>1, <2>2, <3>1, <3>2
      <2>8. QED
            BY <1>7, <2>1, <2>5, <2>6, <2>7 DEF Poller!OrchestrateWorkflow, Poller!world, PollerType
<1>8. ASSUME NEW p \in Pollers, Poller!UpdateWorkflowCalendar(p) PROVE PollerType' /\ Stores(p)
      <2>1. poller[p] \in BusyPoller /\ poller[p].step = "match"
            BY <1>8, <1>t, PollerIsBusy DEF Poller!UpdateWorkflowCalendar, Poller!Checked
      <2>2. Moves(p, Poller!Idle)
            BY <1>8 DEF Poller!UpdateWorkflowCalendar, Moves
      <2>3. poller'[p].step = "idle" /\ OthersStay(p) /\ PollersType'
            BY <1>2, <2>2 DEF Poller!Idle
      <2>4. Stores(p)
            BY <1>8, <2>1, <2>3 DEF Poller!UpdateWorkflowCalendar, Poller!world, Stores
      <2>5. calendar' \in CalendarRow
            BY <2>1, <2>4 DEF Stores, BusyPoller, CalendarRow
      <2>6. QED
            BY <1>8, <2>3, <2>4, <2>5 DEF Poller!UpdateWorkflowCalendar, Poller!world, PollerType
<1>9. ASSUME NEW p \in Pollers,
             \/ Poller!ErrSyncTokenExpired(p) \/ Poller!GetEventsFails(p)
             \/ Poller!OrchestrateFails(p) \/ Poller!UpdateFails(p) \/ Poller!Crash(p)
      PROVE  PollerType' /\ Stops(p)
      <2>1. /\ Moves(p, Poller!Idle) /\ UNCHANGED <<now, log, calendar, claims, late, runs, calendarEdits>>
            /\ (poller[p].step # "run" /\ failures' = failures) \/ failures' = failures + 1
            BY <1>9 DEF Poller!ErrSyncTokenExpired, Poller!GetEventsFails, Poller!OrchestrateFails,
               Poller!UpdateFails, Poller!Crash, Poller!Fails, Poller!Failure, Poller!Checked,
               Poller!world, Moves
      <2>2. Busy(p)
            <3>1. CASE Poller!Crash(p)
                  BY <1>t, <3>1 DEF Poller!Crash, BusyPoller, Busy
            <3>2. CASE ~Poller!Crash(p)
                  BY <1>9, <3>2 DEF Poller!ErrSyncTokenExpired, Poller!GetEventsFails,
                     Poller!OrchestrateFails, Poller!UpdateFails, Poller!Checked, Busy
            <3>3. QED
                  BY <3>1, <3>2
      <2>3. poller'[p].step = "idle" /\ OthersStay(p) /\ PollersType'
            BY <1>2, <2>1 DEF Poller!Idle
      <2>4. Stops(p)
            BY <2>1, <2>2, <2>3 DEF Stops
      <2>5. QED
            BY <2>1, <2>3, <2>4 DEF PollerType
<1>10. ASSUME NEW c \in Conditions, NEW m \in Minutes, Poller!Update(c, m) PROVE PollerType' /\ Edited
      <2>1. calendar' \in CalendarRow
            BY <1>10, <1>t DEF Poller!Update, CalendarRow
      <2>2. QED
            BY <1>10, <2>1 DEF Poller!Update, Poller!world, Edited, PollerType, PollersType
<1>11. CASE Poller!TokensExpire \/ Poller!Tick \/ \E e \in Events : Poller!CancelEvent(e)
      <2>1. PollerType'
            <3>1. now' \in Nat /\ failures' \in Nat /\ log' \in Seq(Events)
                  <4>1. now \in Nat /\ failures \in Nat
                        BY DEF PollerType
                  <4>2. (now' = now \/ now' = now + 1) /\ (failures' = failures \/ failures' = failures + 1)
                        BY <1>11 DEF Poller!TokensExpire, Poller!Tick, Poller!CancelEvent, Poller!Failure
                  <4>3. log' = log \/ \E e \in Events : log' = Append(log, e)
                        BY <1>11 DEF Poller!TokensExpire, Poller!Tick, Poller!CancelEvent
                  <4>4. log' \in Seq(Events)
                        BY <1>t, <4>3
                  <4>5. QED
                        BY <4>1, <4>2, <4>4
            <3>2. UNCHANGED <<calendar, claims, late, runs, poller, calendarEdits>>
                  BY <1>11 DEF Poller!TokensExpire, Poller!Tick, Poller!CancelEvent
            <3>3. QED
                  BY <3>1, <3>2 DEF PollerType, PollersType, CalendarRow
      <2>2. WorldMoves
            BY <1>11, <1>t DEF Poller!TokensExpire, Poller!Tick, Poller!CancelEvent, Poller!Failure,
               WorldMoves
      <2>3. QED
            BY <2>1, <2>2 DEF PollerCase
<1>12. CASE \E p \in Pollers :
              Poller!GetActiveCalendars(p) \/ Poller!PollStep(p)
                \/ Poller!GetEventsFails(p) \/ Poller!OrchestrateFails(p) \/ Poller!UpdateFails(p)
                \/ Poller!Crash(p)
      <2>1. PICK p \in Pollers :
               Poller!GetActiveCalendars(p) \/ Poller!PollStep(p)
                 \/ Poller!GetEventsFails(p) \/ Poller!OrchestrateFails(p) \/ Poller!UpdateFails(p)
                 \/ Poller!Crash(p)
            BY <1>12
      <2>2. QED
            BY <1>3, <1>4, <1>5, <1>6, <1>7, <1>8, <1>9, <2>1 DEF Poller!PollStep, PollerCase
<1>13. QED
      BY <1>1, <1>10, <1>11, <1>12 DEF Poller!Next, PollerCase

\* Nothing is claimed or started.
TakesNothing ==
  /\ UNCHANGED <<claims, late, runs>>
  /\ failures' >= failures
  /\ \A p \in Pollers : \A e \in Events, c \in Conditions :
       (Takes(p, e, c)' => Takes(p, e, c)) /\ (Takes(p, e, c) => Takes(p, e, c)' \/ failures' > failures)

LEMMA PollerEffects ==
  ASSUME PollerType, PollerCase
  PROVE  \/ TakesNothing
         \/ \E p \in Pollers, e \in Events : ClaimsFirst(p, e) \/ \E c \in Conditions : Starts(p, e, c)
<1>t. failures \in Nat
      BY DEF PollerType
<1>1. ASSUME NEW p \in Pollers, OthersStay(p), poller'[p].step # "run", UNCHANGED <<claims, late, runs>>,
             (poller[p].step # "run" /\ failures' = failures) \/ failures' = failures + 1
      PROVE  TakesNothing
      BY <1>1, <1>t DEF OthersStay, TakesNothing, Takes
<1>2. ASSUME NEW p \in Pollers,
             TakesRow(p) \/ Fetches(p) \/ Matches(p) \/ PassesOver(p) \/ Stores(p) \/ Stops(p)
      PROVE  TakesNothing
      <2>1. /\ OthersStay(p) /\ poller'[p].step # "run" /\ UNCHANGED <<claims, late, runs>>
            /\ (poller[p].step # "run" /\ failures' = failures) \/ failures' = failures + 1
            BY <1>2 DEF TakesRow, Fetches, Matches, PassesOver, Stores, Stops
      <2>2. QED
            BY <1>1, <2>1
<1>3. CASE WorldMoves \/ Edited
      BY <1>3, <1>t DEF WorldMoves, Edited, TakesNothing, Takes
<1>4. QED
      BY <1>2, <1>3 DEF PollerCase

\* What a claim and a start do to the processes and to the counts of runs.
LEMMA ClaimTakes ==
  ASSUME NEW p \in Pollers, NEW e \in Events, ClaimsFirst(p, e)
  PROVE  /\ Takes(p, e, poller[p].condition)' /\ poller[p].condition \in Conditions
         /\ \A q \in Pollers, f \in Events, c \in Conditions :
              Takes(q, f, c)' <=> Takes(q, f, c) \/ (q = p /\ f = e /\ c = poller[p].condition)
<1>1. poller[p].step = "claim" /\ poller[p].condition \in Conditions
      BY DEF ClaimsFirst, BusyPoller
<1>2. poller'[p].step = "run" /\ poller'[p].event = e /\ poller'[p].condition = poller[p].condition
      BY DEF ClaimsFirst, SameTrigger
<1>3. \A q \in Pollers \ {p} : poller'[q] = poller[q]
      BY DEF ClaimsFirst, OthersStay
<1>4. QED
      BY <1>1, <1>2, <1>3 DEF Takes

LEMMA StartTakes ==
  ASSUME PollerType, NEW p \in Pollers, NEW e \in Events, NEW c \in Conditions, Starts(p, e, c)
  PROVE  /\ \A q \in Pollers, f \in Events, d \in Conditions : Takes(q, f, d)' <=> Takes(q, f, d) /\ q # p
         /\ runs'[e][c] = runs[e][c] + 1
         /\ \A f \in Events, d \in Conditions : f # e \/ d # c => runs'[f][d] = runs[f][d]
<1>1. poller'[p].step = "match" /\ \A q \in Pollers \ {p} : poller'[q] = poller[q]
      BY DEF Starts, OthersStay
<1>2. \A q \in Pollers, f \in Events, d \in Conditions : Takes(q, f, d)' <=> Takes(q, f, d) /\ q # p
      BY <1>1 DEF Takes
<1>3. runs' = [runs EXCEPT ![e] = [runs[e] EXCEPT ![c] = @ + 1]] /\ runs \in [Events -> [Conditions -> Nat]]
      BY DEF Starts, PollerType
<1>4. runs'[e] = [runs[e] EXCEPT ![c] = @ + 1] /\ \A f \in Events \ {e} : runs'[f] = runs[f]
      BY <1>3
<1>5. runs[e] \in [Conditions -> Nat]
      BY <1>3
<1>6. runs'[e][c] = runs[e][c] + 1 /\ \A d \in Conditions \ {c} : runs'[e][d] = runs[e][d]
      BY <1>4, <1>5
<1>7. QED
      BY <1>2, <1>4, <1>6

LEMMA ClaimedStep ==
  ASSUME PollerType, PollerType', Poller!ClaimedRuns, PollerCase
  PROVE  Poller!ClaimedRuns'
<1> DEFINE Served(e) == \/ \E c \in Conditions : runs[e][c] > 0
                        \/ failures > 0
                        \/ \E p \in Pollers : poller[p].step = "run" /\ poller[p].event = e
<1> SUFFICES ASSUME NEW e \in Events, claims'[e] > 0
             PROVE  Served(e)'
    BY DEF Poller!ClaimedRuns
<1>t. /\ claims \in [Events -> Nat] /\ runs \in [Events -> [Conditions -> Nat]]
      /\ failures \in Nat /\ failures' \in Nat
      BY DEF PollerType
<1>0. claims[e] > 0 =>
         (\E c \in Conditions : runs[e][c] > 0) \/ failures > 0 \/ \E p \in Pollers, c \in Conditions : Takes(p, e, c)
      <2>1. \A p \in Pollers : poller[p].step = "run" => poller[p].condition \in Conditions
            BY PollerIsBusy DEF PollerType, BusyPoller
      <2>2. claims[e] > 0 => Served(e)
            BY DEF Poller!ClaimedRuns
      <2>3. QED
            BY <2>1, <2>2 DEF Takes
<1>s. (\E p \in Pollers : \E c \in Conditions : Takes(p, e, c)') => Served(e)'
      BY DEF Takes
<1>1. CASE TakesNothing
      <2>1. claims[e] > 0 /\ runs' = runs
            BY <1>1 DEF TakesNothing
      <2>2. CASE (\E c \in Conditions : runs[e][c] > 0) \/ failures > 0 \/ failures' > failures
            BY <1>1, <1>t, <2>1, <2>2 DEF TakesNothing
      <2>3. CASE failures' = failures /\ \E p \in Pollers, c \in Conditions : Takes(p, e, c)
            BY <1>1, <1>s, <1>t, <2>3 DEF TakesNothing
      <2>4. failures' > failures \/ failures' = failures
            BY <1>1, <1>t DEF TakesNothing
      <2>5. QED
            BY <1>0, <2>1, <2>2, <2>3, <2>4
<1>2. ASSUME NEW p \in Pollers, NEW f \in Events, ClaimsFirst(p, f) PROVE Served(e)'
      <2>1. f = e => Served(e)'
            <3>1. Takes(p, f, poller[p].condition)' /\ poller[p].condition \in Conditions
                  BY <1>2, ClaimTakes
            <3>2. QED
                  BY <3>1 DEF Takes
      <2>2. f # e => claims[e] > 0
            BY <1>2, <1>t DEF ClaimsFirst
      <2>3. \A q \in Pollers, c \in Conditions : Takes(q, e, c) => Takes(q, e, c)'
            BY <1>2, ClaimTakes
      <2>4. runs' = runs /\ failures' = failures
            BY <1>2 DEF ClaimsFirst
      <2>5. QED
            BY <1>0, <1>s, <2>1, <2>2, <2>3, <2>4
<1>3. ASSUME NEW p \in Pollers, NEW f \in Events, NEW d \in Conditions, Starts(p, f, d) PROVE Served(e)'
      <2>1. claims' = claims /\ failures' = failures /\ Takes(p, f, d)
            BY <1>3 DEF Starts
      <2>2. runs'[f][d] > 0 /\ \A c \in Conditions : runs[e][c] > 0 => runs'[e][c] > 0
            <3>1. /\ runs'[f][d] = runs[f][d] + 1 /\ runs[f][d] \in Nat
                  /\ \A g \in Events, c \in Conditions : g # f \/ c # d => runs'[g][c] = runs[g][c]
                  BY <1>3, <1>t, StartTakes
            <3>2. QED
                  BY <3>1
      <2>3. CASE \E c \in Conditions : runs[e][c] > 0
            BY <2>2, <2>3
      <2>4. CASE \E q \in Pollers, c \in Conditions : Takes(q, e, c)
            <3>1. PICK q \in Pollers, c \in Conditions : Takes(q, e, c)
                  BY <2>4
            <3>2. CASE q = p
                  <4>1. e = f
                        BY <2>1, <3>1, <3>2 DEF Takes
                  <4>2. QED
                        BY <2>2, <4>1
            <3>3. CASE q # p
                  <4>1. Takes(q, e, c)'
                        BY <1>3, <3>1, <3>3, StartTakes
                  <4>2. QED
                        BY <1>s, <4>1
            <3>4. QED
                  BY <3>2, <3>3
      <2>5. QED
            BY <1>0, <2>1, <2>3, <2>4
<1>4. QED
      BY <1>1, <1>2, <1>3, PollerEffects

\* Whatever the other pollers, the user and the clock do, a process that has
\* claimed an event goes on to start the workflow with it, unless something
\* fails: no early return of checkEventChanges lies between the two.
THEOREM ClaimsLeadToRuns == ServicesSpec => []ClaimedRuns
<1>1. ServicesInit => PollerType /\ Poller!ClaimedRuns
      BY PollerTypeInit DEF ServicesInit, Poller!Init, Poller!ClaimedRuns
<1>2. PollerType /\ [ServicesNext]_servicesVars => PollerType' /\ PollerCase
      BY PollerSteps, PollerCases
<1>3. PollerType /\ PollerType' /\ Poller!ClaimedRuns /\ [ServicesNext]_servicesVars
        => Poller!ClaimedRuns'
      BY <1>2, ClaimedStep
<1>4. Poller!ClaimedRuns => ClaimedRuns
      BY DEF ClaimedRuns
<1>5. QED
      BY <1>1, <1>2, <1>3, <1>4, PTL DEF ServicesSpec

-----------------------------------------------------------------------------
(* No event starts the workflow twice, unless a claim comes late.  Before  *)
(* an event starts, the claim alone sees to that: it lasts until the event *)
(* can not match any more.  After an event has ended that takes a trigger  *)
(* nobody edits, whose minutes are those the claim was made with; and a    *)
(* cancelled event is never in two answers, since one process at a time    *)
(* has the row and the sync token it stores is behind all it has been told *)
(* of.                                                                     *)

\* The conditions for which the property is promised.
Promised(c) == calendarEdits = 0 \/ c = "starting"

OneTaker ==
  \A e \in Events \ late, c \in Conditions : Promised(c) =>
    /\ runs[e][c] <= 1
    /\ runs[e][c] > 0 => \A p \in Pollers : ~Takes(p, e, c)
    /\ \A p, q \in Pollers : Takes(p, e, c) /\ Takes(q, e, c) => p = q

\* The claim on an event lasts longer than the event can match.
Outlasts(e, c) ==
  /\ c = "starting" => claims[e] > TimeOf[c][e]
  /\ c = "ending" /\ calendarEdits = 0 => claims[e] > TimeOf[c][e] + calendar.minutes

ClaimOutlasts ==
  \A e \in Events \ late, c \in Conditions : Taken(e, c) => Outlasts(e, c)

\* A row that nobody edits is checked by one process at a time.
Alone ==
  /\ \A p \in Pollers : Busy(p) =>
       /\ calendar.state = "running"
       /\ poller[p].condition = calendar.condition /\ poller[p].minutes = calendar.minutes
  /\ \A p, q \in Pollers : Busy(p) /\ Busy(q) => p = q

\* An event is cancelled once.
LogDistinct == \A i, j \in 1 .. Len(log) : log[i] = log[j] => i = j

\* A poll with this token, of this log, is not told of e.
Behind(l, e, token) == \E i \in 1 .. Len(l) : l[i] = e /\ (token = None \/ i <= token)

Gone(e) == \E c \in Conditions : Taken(e, c)

TakenAreBehind(token) == \A e \in Events : Gone(e) => Behind(log, e, token)

\* The events of an answer: none is there twice, none has been taken, and the
\* next poll is not told of them.
NewsOnly(q) ==
  /\ \A i, j \in 1 .. Len(q.events) : q.events[i] = q.events[j] => i = j
  /\ \A i \in 1 .. Len(q.events), e \in Events :
       e = q.events[i] => ~Gone(e) /\ Behind(log, e, q.next)

LogIsRead ==
  /\ calendar.state = "queued" => TakenAreBehind(calendar.token)
  /\ \A p \in Pollers :
       /\ poller[p].step = "fetch" => TakenAreBehind(poller[p].token)
       /\ poller[p].step \in {"match", "claim", "run"} => TakenAreBehind(poller[p].next)
       /\ poller[p].step \in {"match", "claim"} => NewsOnly(poller[p])

Once ==
  /\ LogDistinct
  /\ OneTaker
  /\ ClaimOutlasts
  /\ calendarEdits = 0 => Alone
  /\ calendarEdits = 0 /\ calendar.condition = "cancelled" => LogIsRead

\* Edits are only ever added.
LEMMA EditsGrow ==
  ASSUME PollerType, PollerCase
  PROVE  /\ calendarEdits' = 0 => calendarEdits = 0
         /\ \A c : Promised(c)' => Promised(c)
         /\ late \subseteq late'
<1>1. calendarEdits' = calendarEdits \/ calendarEdits' = calendarEdits + 1
      BY DEF PollerCase, TakesRow, Fetches, Matches, PassesOver, Stores, Stops, ClaimsFirst,
         Starts, WorldMoves, Edited
<1>2. calendarEdits \in Nat
      BY DEF PollerType
<1>3. late' = late \/ \E e \in Events : late' = late \cup {e}
      BY DEF PollerCase, TakesRow, Fetches, Matches, PassesOver, Stores, Stops, ClaimsFirst,
         Starts, WorldMoves, Edited
<1>4. QED
      BY <1>1, <1>2, <1>3 DEF Promised

LEMMA LogDistinctStep ==
  ASSUME PollerType, LogDistinct, PollerCase
  PROVE  LogDistinct'
<1>1. CASE log' = log
      BY <1>1 DEF LogDistinct
<1>2. CASE \E e \in Events : log' = Append(log, e) /\ \A i \in 1 .. Len(log) : log[i] # e
      <2>1. PICK e \in Events : log' = Append(log, e) /\ \A i \in 1 .. Len(log) : log[i] # e
            BY <1>2
      <2>2. log \in Seq(Events)
            BY DEF PollerType
      <2>3. /\ Len(log') = Len(log) + 1 /\ log'[Len(log) + 1] = e /\ Len(log) \in Nat
            /\ \A i \in 1 .. Len(log) : log'[i] = log[i]
            BY <2>1, <2>2
      <2>4. QED
            BY <2>1, <2>3 DEF LogDistinct
<1>3. QED
      BY <1>1, <1>2 DEF PollerCase, TakesRow, Fetches, Matches, PassesOver, Stores, Stops,
         ClaimsFirst, Starts, WorldMoves, Edited

SameRow == calendar'.minutes = calendar.minutes /\ calendar'.condition = calendar.condition

\* Without edits the row is handed from one process to the next, and its
\* condition and minutes stay.
LEMMA AloneStep ==
  ASSUME PollerType, Alone, calendarEdits = 0, calendarEdits' = 0, PollerCase
  PROVE  Alone' /\ SameRow
<1>t. calendar \in CalendarRow
      BY DEF PollerType
<1>1. ASSUME NEW p \in Pollers, Busy(p), OthersStay(p), calendar' = calendar,
             Busy(p)' => SameTrigger(p)
      PROVE  Alone' /\ SameRow
      BY <1>1 DEF Alone, Busy, OthersStay, SameTrigger, SameRow
<1>2. ASSUME NEW p \in Pollers, TakesRow(p) PROVE Alone' /\ SameRow
      <2>1. calendar'.state = "running" /\ SameRow
            BY <1>2, <1>t DEF TakesRow, CalendarRow, SameRow
      <2>2. QED
            BY <1>2, <2>1 DEF TakesRow, OthersStay, Alone, Busy, SameRow
<1>3. ASSUME NEW p \in Pollers, Stores(p) PROVE Alone' /\ SameRow
      <2>1. Busy(p) /\ SameRow
            BY <1>3 DEF Stores, Alone, Busy, SameRow
      <2>2. QED
            BY <1>3, <2>1 DEF Stores, OthersStay, Alone, Busy
<1>4. ASSUME NEW p \in Pollers,
             Fetches(p) \/ Matches(p) \/ PassesOver(p) \/ Stops(p)
             \/ \E e \in Events : ClaimsFirst(p, e) \/ \E c \in Conditions : Starts(p, e, c)
      PROVE  Alone' /\ SameRow
      <2>1. Busy(p) /\ OthersStay(p) /\ calendar' = calendar
            BY <1>4 DEF Fetches, Matches, PassesOver, Stops, ClaimsFirst, Starts, Takes, Busy
      <2>2. Busy(p)' => SameTrigger(p)
            BY <1>4 DEF Fetches, Matches, PassesOver, Stops, ClaimsFirst, Starts, Busy
      <2>3. QED
            BY <1>1, <2>1, <2>2
<1>5. CASE WorldMoves
      BY <1>5 DEF WorldMoves, Alone, Busy, SameRow
<1>6. CASE Edited
      BY <1>6 DEF Edited
<1>7. QED
      BY <1>2, <1>3, <1>4, <1>5, <1>6 DEF PollerCase

\* No event is claimed in its window that has started the workflow or is about
\* to.
LEMMA ClaimedIsNew ==
  ASSUME PollerType, Once, NEW p \in Pollers, NEW e \in Events, ClaimsFirst(p, e),
         e \notin late', Promised(poller[p].condition)
  PROVE  ~Taken(e, poller[p].condition)
<1> DEFINE c == poller[p].condition
<1>t. /\ now \in Nat /\ claims[e] \in Nat /\ poller[p].minutes \in Nat
      /\ c \in Conditions /\ TimeOf[c][e] \in Nat
      <2>1. poller[p].minutes \in Minutes /\ c \in Conditions
            BY DEF ClaimsFirst, BusyPoller
      <2> HIDE DEF c
      <2>2. TimeOf[c] \in [Events -> Nat] /\ poller[p].minutes \in Nat
            BY <2>1
      <2>3. now \in Nat /\ claims \in [Events -> Nat]
            BY DEF PollerType
      <2>4. QED
            BY <2>1, <2>2, <2>3
<1>1. claims[e] <= now
      BY DEF ClaimsFirst, Poller!Claimable
<1>w. e \in Events \ late /\ Poller!shouldTriggerWorkflow(e, poller[p])
      BY DEF ClaimsFirst
<1>o. Taken(e, c) => Outlasts(e, c)
      BY <1>t, <1>w DEF Once, ClaimOutlasts
<1>2. CASE c = "starting"
      <2>1. now < TimeOf[c][e]
            BY <1>2, <1>w DEF Poller!shouldTriggerWorkflow, Poller!timeBasedTrigger, Poller!InWindow
      <2>2. QED
            BY <1>t, <1>1, <1>2, <1>o, <2>1 DEF Outlasts
<1>3. CASE c = "ending"
      <2>1. now < TimeOf[c][e] + poller[p].minutes
            BY <1>3, <1>w DEF Poller!shouldTriggerWorkflow, Poller!timeBasedTrigger, Poller!InWindow
      <2>2. calendarEdits = 0 /\ poller[p].minutes = calendar.minutes
            BY <1>3 DEF Once, Promised, Alone, Busy, ClaimsFirst
      <2>3. QED
            BY <1>t, <1>1, <1>3, <1>o, <2>1, <2>2 DEF Outlasts
<1>4. CASE c = "cancelled"
      <2>0. calendarEdits = 0 /\ calendar.condition = "cancelled"
            BY <1>4 DEF Once, Promised, Alone, Busy, ClaimsFirst
      <2>1. NewsOnly(poller[p])
            BY <2>0 DEF Once, LogIsRead, ClaimsFirst
      <2>2. poller[p].events \in Seq(Events) /\ poller[p].events # <<>> /\ e = Head(poller[p].events)
            BY DEF ClaimsFirst, BusyPoller
      <2>3. 1 \in 1 .. Len(poller[p].events) /\ e = poller[p].events[1]
            BY <2>2
      <2>4. ~Gone(e)
            BY <2>1, <2>3 DEF NewsOnly
      <2>5. QED
            BY <1>t, <2>4 DEF Gone
<1>5. QED
      BY <1>t, <1>2, <1>3, <1>4

LEMMA OneTakerStep ==
  ASSUME PollerType, Once, PollerCase
  PROVE  OneTaker'
<1> SUFFICES ASSUME NEW e \in Events, e \notin late', NEW c \in Conditions, Promised(c)'
             PROVE  /\ runs'[e][c] <= 1
                    /\ runs'[e][c] > 0 => \A p \in Pollers : ~Takes(p, e, c)'
                    /\ \A p, q \in Pollers : Takes(p, e, c)' /\ Takes(q, e, c)' => p = q
    BY DEF OneTaker
<1>0. /\ runs[e][c] \in Nat /\ runs[e][c] <= 1
      /\ runs[e][c] > 0 => \A p \in Pollers : ~Takes(p, e, c)
      /\ \A p, q \in Pollers : Takes(p, e, c) /\ Takes(q, e, c) => p = q
      BY EditsGrow DEF PollerType, Once, OneTaker
<1>1. CASE TakesNothing
      BY <1>0, <1>1 DEF TakesNothing
<1>2. CASE \E p \in Pollers, f \in Events : ClaimsFirst(p, f)
      <2>1. PICK p \in Pollers, f \in Events : ClaimsFirst(p, f)
            BY <1>2
      <2>2. runs' = runs
            BY <2>1 DEF ClaimsFirst
      <2>3. \A q \in Pollers : Takes(q, e, c)' <=> Takes(q, e, c) \/ (q = p /\ e = f /\ c = poller[p].condition)
            BY <2>1, ClaimTakes
      <2>4. CASE e = f /\ c = poller[p].condition
            <3>1. ~Taken(e, c)
                  BY <2>1, <2>4, EditsGrow, ClaimedIsNew
            <3>2. runs[e][c] = 0 /\ \A q \in Pollers : ~Takes(q, e, c)
                  BY <1>0, <3>1 DEF Taken
            <3>3. QED
                  BY <1>0, <2>2, <2>3, <3>2
      <2>5. CASE ~(e = f /\ c = poller[p].condition)
            BY <1>0, <2>2, <2>3, <2>5
      <2>6. QED
            BY <2>4, <2>5
<1>3. CASE \E p \in Pollers, f \in Events : \E d \in Conditions : Starts(p, f, d)
      <2>1. PICK p \in Pollers, f \in Events, d \in Conditions : Starts(p, f, d)
            BY <1>3
      <2>2. \A q \in Pollers : Takes(q, e, c)' <=> Takes(q, e, c) /\ q # p
            BY <2>1, StartTakes
      <2>3. CASE e = f /\ c = d
            <3>1. Takes(p, e, c)
                  BY <2>1, <2>3 DEF Starts
            <3>2. runs[e][c] = 0 /\ \A q \in Pollers : Takes(q, e, c) => q = p
                  BY <1>0, <3>1
            <3>3. runs'[e][c] = 1
                  BY <2>1, <2>3, <3>2, StartTakes
            <3>4. QED
                  BY <2>2, <3>2, <3>3
      <2>4. CASE e # f \/ c # d
            <3>1. runs'[e][c] = runs[e][c]
                  <4>1. \A g \in Events, b \in Conditions : g # f \/ b # d => runs'[g][b] = runs[g][b]
                        BY <2>1, StartTakes
                  <4>2. QED
                        BY <2>4, <4>1
            <3>2. QED
                  BY <1>0, <2>2, <3>1
      <2>5. QED
            BY <2>3, <2>4
<1>4. QED
      BY <1>1, <1>2, <1>3, PollerEffects

\* A claim that is taken again is taken for longer.
LEMMA ClaimsGrow ==
  ASSUME PollerType, NEW p \in Pollers, NEW e \in Events, ClaimsFirst(p, e)
  PROVE  /\ claims'[e] = now + Poller!ttl(poller[p]) /\ Poller!ttl(poller[p]) \in Nat
         /\ \A f \in Events : claims[f] \in Nat /\ claims'[f] \in Nat /\ claims'[f] >= claims[f]
<1>1. poller[p].minutes \in Minutes
      BY DEF ClaimsFirst, BusyPoller
<1>2. Poller!ttl(poller[p]) \in Nat
      BY <1>1 DEF Poller!ttl
<1>3. claims' = [claims EXCEPT ![e] = now + Poller!ttl(poller[p])] /\ claims[e] <= now
      BY DEF ClaimsFirst, Poller!Claimable
<1>4. now \in Nat /\ claims \in [Events -> Nat]
      BY DEF PollerType
<1> HIDE DEF Poller!ttl
<1>5. QED
      BY <1>2, <1>3, <1>4

LEMMA ClaimOutlastsStep ==
  ASSUME PollerType, PollerType', Once, PollerCase
  PROVE  ClaimOutlasts'
<1> SUFFICES ASSUME NEW e \in Events, e \notin late', NEW c \in Conditions, Taken(e, c)'
             PROVE  Outlasts(e, c)'
    BY DEF ClaimOutlasts
<1>t. /\ now \in Nat /\ claims[e] \in Nat /\ claims'[e] \in Nat /\ TimeOf[c][e] \in Nat
      /\ calendar.minutes \in Nat /\ runs[e][c] \in Nat
      <2>1. calendar.minutes \in Minutes
            BY DEF PollerType, CalendarRow
      <2>2. TimeOf[c] \in [Events -> Nat] /\ calendar.minutes \in Nat
            BY <2>1
      <2>3. now \in Nat /\ claims \in [Events -> Nat] /\ claims' \in [Events -> Nat]
            BY DEF PollerType
      <2>4. runs \in [Events -> [Conditions -> Nat]]
            BY DEF PollerType
      <2>5. runs[e] \in [Conditions -> Nat]
            BY <2>4
      <2>6. QED
            BY <2>2, <2>3, <2>5
<1>m. calendarEdits' = 0 => calendarEdits = 0 /\ Alone /\ calendar'.minutes = calendar.minutes
      BY EditsGrow, AloneStep DEF Once, SameRow
<1>1. ASSUME Taken(e, c), claims'[e] >= claims[e] PROVE Outlasts(e, c)'
      <2>1. Outlasts(e, c)
            BY <1>1, EditsGrow DEF Once, ClaimOutlasts
      <2>2. QED
            BY <1>1, <1>t, <1>m, <2>1 DEF Outlasts
<1>2. CASE TakesNothing
      <2>1. Taken(e, c) /\ claims' = claims
            BY <1>2 DEF TakesNothing, Taken
      <2>2. QED
            BY <1>1, <1>t, <2>1
<1>3. CASE \E p \in Pollers, f \in Events : ClaimsFirst(p, f)
      <2>1. PICK p \in Pollers, f \in Events : ClaimsFirst(p, f)
            BY <1>3
      <2>2. claims'[e] >= claims[e]
            BY <2>1, ClaimsGrow
      <2>3. Taken(e, c) \/ (e = f /\ c = poller[p].condition)
            <3>1. runs' = runs /\ \A q \in Pollers :
                     Takes(q, e, c)' => Takes(q, e, c) \/ (q = p /\ e = f /\ c = poller[p].condition)
                  BY <2>1, ClaimTakes DEF ClaimsFirst
            <3>2. QED
                  BY <3>1 DEF Taken
      <2>4. CASE e = f /\ c = poller[p].condition
            <3>1. Poller!shouldTriggerWorkflow(e, poller[p])
                  BY <2>1, <2>4 DEF ClaimsFirst
            <3>2. poller[p].minutes \in Nat
                  <4>1. poller[p].minutes \in Minutes
                        BY <2>1 DEF ClaimsFirst, BusyPoller
                  <4>2. QED
                        BY <4>1
            <3>3. c \in {"starting", "ending"} => claims'[e] = now + poller[p].minutes
                  <4>1. claims'[e] = now + Poller!ttl(poller[p])
                        BY <2>1, <2>4, ClaimsGrow
                  <4>2. QED
                        BY <2>4, <4>1 DEF Poller!ttl, Poller!timeBasedTrigger
            <3>4. c = "starting" => now + poller[p].minutes > TimeOf[c][e]
                  BY <2>4, <3>1 DEF Poller!shouldTriggerWorkflow, Poller!timeBasedTrigger, Poller!InWindow
            <3>5. c = "ending" => now > TimeOf[c][e]
                  BY <2>4, <3>1 DEF Poller!shouldTriggerWorkflow, Poller!timeBasedTrigger, Poller!InWindow
            <3>6. calendarEdits' = 0 => poller[p].minutes = calendar'.minutes
                  BY <1>m, <2>1 DEF Alone, Busy, ClaimsFirst
            <3>7. QED
                  BY <1>t, <3>2, <3>3, <3>4, <3>5, <3>6 DEF Outlasts
      <2>5. QED
            BY <1>1, <2>2, <2>3, <2>4
<1>4. CASE \E p \in Pollers, f \in Events : \E d \in Conditions : Starts(p, f, d)
      <2>1. PICK p \in Pollers, f \in Events, d \in Conditions : Starts(p, f, d)
            BY <1>4
      <2>2. Taken(e, c)
            <3>1. /\ \A q \in Pollers : Takes(q, e, c)' => Takes(q, e, c)
                  /\ e # f \/ c # d => runs'[e][c] = runs[e][c]
                  BY <2>1, StartTakes
            <3>2. Takes(p, f, d)
                  BY <2>1 DEF Starts
            <3>3. QED
                  BY <3>1, <3>2 DEF Taken
      <2>3. claims' = claims
            BY <2>1 DEF Starts
      <2>4. QED
            BY <1>1, <1>t, <2>2, <2>3
<1>5. QED
      BY <1>2, <1>3, <1>4, PollerEffects

\* What an answer holds, for a trigger on cancelled events: news only.
LEMMA AnswersAreNews ==
  ASSUME PollerType, LogDistinct, NEW c, c.condition = "cancelled",
         NEW token \in Nat, NEW answer \in Poller!Answers(token, c)
  PROVE  /\ \A i, j \in 1 .. Len(answer.events) : answer.events[i] = answer.events[j] => i = j
         /\ \A i \in 1 .. Len(answer.events) :
              /\ \E k \in 1 .. Len(log) : k > token /\ answer.events[i] = log[k]
              /\ Behind(log, answer.events[i], answer.next)
         /\ answer.next = None \/ answer.next = Len(log)
<1>t. log \in Seq(Events) /\ Len(log) \in Nat /\ MaxResults \in Nat
      BY DEF PollerType
<1> DEFINE s == SubSeq(log, token + 1, Len(log))
<1>1. ~Poller!timeBasedTrigger(c)
      BY DEF Poller!timeBasedTrigger
<1>2. answer = [events |-> Poller!First(MaxResults, s),
                next |-> IF Len(s) <= MaxResults THEN Len(log) ELSE None]
      BY <1>1 DEF Poller!Answers
<1>3. s \in Seq(Events) /\ Len(s) \in Nat
      BY <1>t
<1>4. \A i \in 1 .. Len(s) : token + i \in 1 .. Len(log) /\ s[i] = log[token + i]
      BY <1>t, SMTT(60)
<1> HIDE DEF s
<1>5. answer.events = Poller!First(MaxResults, s) /\ (answer.next = None \/ answer.next = Len(log))
      BY <1>2
<1>6. \A i \in 1 .. Len(answer.events) : i \in 1 .. Len(s) /\ answer.events[i] = s[i]
      <2>1. CASE Len(s) <= MaxResults
            BY <1>5, <2>1 DEF Poller!First
      <2>2. CASE ~(Len(s) <= MaxResults)
            <3>1. answer.events = SubSeq(s, 1, MaxResults)
                  BY <1>5, <2>2 DEF Poller!First
            <3>2. /\ Len(SubSeq(s, 1, MaxResults)) = IF 1 <= MaxResults THEN MaxResults - 1 + 1 ELSE 0
                  /\ \A i \in 1 .. MaxResults - 1 + 1 : SubSeq(s, 1, MaxResults)[i] = s[1 + i - 1]
                  <4>1. \A i \in 1 .. MaxResults : s[i] \in Events
                        BY <1>t, <1>3, <2>2
                  <4>2. QED
                        BY <1>t, <4>1, SubSeqProperties
            <3>3. MaxResults - 1 + 1 = MaxResults /\ \A i \in 1 .. MaxResults : 1 + i - 1 = i
                  BY <1>t
            <3>4. Len(answer.events) = MaxResults /\ \A i \in 1 .. MaxResults : answer.events[i] = s[i]
                  <4>1. CASE MaxResults = 0
                        BY <3>1, <3>2, <4>1
                  <4>2. CASE MaxResults # 0
                        BY <1>t, <3>1, <3>2, <3>3, <4>2
                  <4>3. QED
                        BY <4>1, <4>2
            <3>5. \A i \in 1 .. MaxResults : i \in 1 .. Len(s)
                  BY <1>t, <1>3, <2>2
            <3>6. QED
                  BY <3>4, <3>5
      <2>3. QED
            BY <2>1, <2>2
<1>7. \A i \in 1 .. Len(answer.events) :
         i \in Nat \ {0} /\ token + i \in 1 .. Len(log) /\ answer.events[i] = log[token + i]
      BY <1>3, <1>4, <1>6
<1>8. \A i, j \in 1 .. Len(answer.events) : answer.events[i] = answer.events[j] => i = j
      <2> SUFFICES ASSUME NEW i \in 1 .. Len(answer.events), NEW j \in 1 .. Len(answer.events),
                          answer.events[i] = answer.events[j]
                   PROVE  i = j
          OBVIOUS
      <2>1. token + i = token + j
            BY <1>7 DEF LogDistinct
      <2>2. QED
            BY <1>7, <2>1
<1>9. ASSUME NEW i \in 1 .. Len(answer.events)
      PROVE  /\ \E k \in 1 .. Len(log) : k > token /\ answer.events[i] = log[k]
             /\ Behind(log, answer.events[i], answer.next)
      <2>1. /\ token + i \in 1 .. Len(log) /\ token + i > token
            /\ answer.events[i] = log[token + i]
            <3>1. \A k \in Nat \ {0} : token + k > token
                  OBVIOUS
            <3>2. QED
                  BY <1>7, <3>1
      <2>2. answer.next = None \/ token + i <= answer.next
            <3>1. \A k \in 1 .. Len(log) : k <= Len(log)
                  BY <1>t
            <3>2. QED
                  BY <1>5, <2>1, <3>1
      <2>3. QED
            BY <2>1, <2>2 DEF Behind
<1>10. QED
      BY <1>5, <1>8, <1>9

\* A process that moves without claiming takes no event.
LEMMA NothingTaken ==
  ASSUME NEW p \in Pollers, OthersStay(p), poller'[p].step # "run", runs' = runs
  PROVE  \A e \in Events : Gone(e)' => Gone(e)
BY DEF OthersStay, Gone, Taken, Takes

LEMMA LogIsReadStep ==
  ASSUME PollerType, PollerType', LogDistinct, Alone, LogIsRead, calendar.condition = "cancelled",
         calendarEdits = 0, calendarEdits' = 0, PollerCase
  PROVE  LogIsRead'
<1>t. /\ log \in Seq(Events) /\ Len(log) \in Nat
      /\ calendar.state \in {"queued", "running"} /\ runs \in [Events -> [Conditions -> Nat]]
      BY DEF PollerType, CalendarRow
<1>0. ASSUME NEW token, TakenAreBehind(token), \A e \in Events : Gone(e)' => Gone(e), log' = log
      PROVE  \A e \in Events : Gone(e)' => Behind(log', e, token)
      BY <1>0 DEF TakenAreBehind, Behind
\* The process that moves is the only one there is.
<1>1. ASSUME NEW p \in Pollers, Busy(p), OthersStay(p), calendar' = calendar,
             poller'[p].step # "fetch",
             poller'[p].step # "idle" => \A e \in Events : Gone(e)' => Behind(log', e, poller'[p].next),
             poller'[p].step \in {"match", "claim"} => NewsOnly(poller[p])'
      PROVE  LogIsRead'
      <2>1. calendar'.state = "running" /\ \A o \in Pollers \ {p} : poller'[o].step = "idle"
            BY <1>1 DEF Alone, Busy, OthersStay
      <2>2. QED
            BY <1>1, <2>1 DEF LogIsRead, TakenAreBehind
<1>2. ASSUME NEW p \in Pollers, TakesRow(p) PROVE LogIsRead'
      <2>1. \A o \in Pollers \ {p} : poller'[o].step = "idle"
            BY <1>2 DEF TakesRow, Alone, Busy, OthersStay
      <2>2. \A e \in Events : Gone(e)' => Gone(e)
            BY <1>2, NothingTaken DEF TakesRow
      <2>3. \A e \in Events : Gone(e)' => Behind(log', e, poller'[p].token)
            BY <1>0, <1>2, <2>2 DEF TakesRow, LogIsRead
      <2>4. QED
            BY <1>2, <2>1, <2>3 DEF TakesRow, LogIsRead, TakenAreBehind
<1>3. ASSUME NEW p \in Pollers, Fetches(p) PROVE LogIsRead'
      <2> DEFINE token == IF poller[p].token = None THEN Len(log) ELSE poller[p].token
      <2>1. token \in Nat
            BY <1>3, <1>t DEF Fetches, BusyPoller
      <2>2. PICK answer \in Poller!Answers(token, poller[p]) :
               poller'[p].events = answer.events /\ poller'[p].next = answer.next
            BY <1>3 DEF Fetches
      <2>3. TakenAreBehind(token)
            <3>1. TakenAreBehind(poller[p].token)
                  BY <1>3 DEF Fetches, LogIsRead
            <3>2. QED
                  BY <1>t, <3>1 DEF TakenAreBehind, Behind
      <2> HIDE DEF token
      <2>4. /\ \A i, j \in 1 .. Len(answer.events) : answer.events[i] = answer.events[j] => i = j
            /\ \A i \in 1 .. Len(answer.events) :
                 /\ \E k \in 1 .. Len(log) : k > token /\ answer.events[i] = log[k]
                 /\ Behind(log, answer.events[i], answer.next)
            /\ answer.next = None \/ answer.next = Len(log)
            <3>1. poller[p].condition = "cancelled"
                  BY <1>3 DEF Fetches, Alone, Busy
            <3>2. QED
                  BY <2>1, <2>2, <3>1, AnswersAreNews
      <2>5. \A e \in Events : Gone(e)' => Gone(e)
            BY <1>3, NothingTaken DEF Fetches
      <2>6. TakenAreBehind(answer.next)
            <3>1. \A i \in 1 .. Len(log) : answer.next = None \/ i <= answer.next
                  <4>1. \A k \in 1 .. Len(log) : k <= Len(log)
                        BY <1>t
                  <4>2. QED
                        BY <2>4, <4>1
            <3>2. \A e : Behind(log, e, token) => Behind(log, e, answer.next)
                  BY <3>1 DEF Behind
            <3>3. QED
                  BY <2>3, <3>2 DEF TakenAreBehind
      <2>7. answer.events \in Seq(Events)
            BY <1>t, <2>1, <2>2, AnswersAreEvents
      <2>8. \A i \in 1 .. Len(answer.events) : ~Gone(answer.events[i])
            <3> SUFFICES ASSUME NEW i \in 1 .. Len(answer.events), Gone(answer.events[i])
                         PROVE  FALSE
                OBVIOUS
            <3>1. PICK k \in 1 .. Len(log) : k > token /\ answer.events[i] = log[k]
                  BY <2>4
            <3>2. log[k] \in Events
                  BY <1>t
            <3>3. PICK j \in 1 .. Len(log) : log[j] = log[k] /\ (token = None \/ j <= token)
                  BY <2>3, <3>1, <3>2 DEF TakenAreBehind, Behind
            <3>4. j = k
                  BY <3>3 DEF LogDistinct
            <3>5. QED
                  BY <2>1, <3>1, <3>3, <3>4
      <2>9. NewsOnly(poller[p])'
            <3>1. \A i \in 1 .. Len(answer.events) : answer.events[i] \in Events
                  BY <2>7
            <3>2. \A i \in 1 .. Len(answer.events) : Behind(log', answer.events[i], answer.next)
                  BY <1>3, <2>2, <2>4 DEF Fetches, Behind
            <3>3. QED
                  BY <2>2, <2>4, <2>5, <2>8, <3>1, <3>2 DEF NewsOnly
      <2>10. \A e \in Events : Gone(e)' => Behind(log', e, poller'[p].next)
            BY <1>0, <1>3, <2>2, <2>5, <2>6 DEF Fetches
      <2>11. QED
            BY <1>1, <1>3, <2>9, <2>10 DEF Fetches, Busy
<1>4. ASSUME NEW p \in Pollers, PassesOver(p) PROVE LogIsRead'
      <2>1. /\ poller[p].events \in Seq(Events) /\ poller[p].events # <<>>
            /\ poller'[p].events = Tail(poller[p].events)
            /\ poller'[p].next = poller[p].next /\ poller'[p].step = "match"
            BY <1>4 DEF PassesOver, BusyPoller
      <2>2. \A e \in Events : Gone(e)' => Gone(e)
            BY <1>4, <2>1, NothingTaken DEF PassesOver
      <2>3. TakenAreBehind(poller[p].next) /\ NewsOnly(poller[p])
            BY <1>4 DEF PassesOver, LogIsRead
      <2>4. /\ Len(poller[p].events) \in Nat /\ Len(poller'[p].events) = Len(poller[p].events) - 1
            /\ \A i \in 1 .. Len(poller'[p].events) :
                 /\ i + 1 \in 1 .. Len(poller[p].events)
                 /\ poller'[p].events[i] = poller[p].events[i + 1]
                 /\ poller'[p].events[i] \in Events
            <3>1. Len(poller[p].events) \in Nat
                  BY <2>1
            <3>2. /\ Tail(poller[p].events) \in Seq(Events)
                  /\ Len(Tail(poller[p].events)) = Len(poller[p].events) - 1
                  /\ \A i \in 1 .. Len(Tail(poller[p].events)) :
                       Tail(poller[p].events)[i] = poller[p].events[i + 1]
                  BY <2>1, HeadTailProperties
            <3>3. \A i \in 1 .. Len(Tail(poller[p].events)) : Tail(poller[p].events)[i] \in Events
                  BY <3>2, ElementOfSeq
            <3>4. QED
                  BY <2>1, <3>1, <3>2, <3>3
      <2>5. NewsOnly(poller[p])'
            <3>1. \A i, j \in 1 .. Len(poller'[p].events) :
                     poller'[p].events[i] = poller'[p].events[j] => i = j
                  <4> SUFFICES ASSUME NEW i \in 1 .. Len(poller'[p].events),
                                      NEW j \in 1 .. Len(poller'[p].events),
                                      poller'[p].events[i] = poller'[p].events[j]
                               PROVE  i = j
                      OBVIOUS
                  <4>1. i + 1 = j + 1
                        <5>1. /\ i + 1 \in 1 .. Len(poller[p].events) /\ j + 1 \in 1 .. Len(poller[p].events)
                              /\ poller[p].events[i + 1] = poller[p].events[j + 1]
                              BY <2>4
                        <5>2. QED
                              BY <2>3, <5>1 DEF NewsOnly
                  <4>2. QED
                        BY <2>4, <4>1
            <3>2. \A i \in 1 .. Len(poller'[p].events) :
                     \A e \in Events :
                       e = poller'[p].events[i] => ~Gone(e) /\ Behind(log, e, poller[p].next)
                  BY <2>3, <2>4 DEF NewsOnly
            <3>3. log' = log
                  BY <1>4 DEF PassesOver
            <3>4. QED
                  BY <2>1, <2>2, <3>1, <3>2, <3>3 DEF NewsOnly
      <2>6. QED
            BY <1>0, <1>1, <1>4, <2>1, <2>2, <2>3, <2>5 DEF PassesOver, Busy
<1>5. ASSUME NEW p \in Pollers, Matches(p) PROVE LogIsRead'
      <2>1. /\ poller'[p].next = poller[p].next /\ poller'[p].step = "claim"
            /\ poller'[p].events = poller[p].events /\ log' = log
            BY <1>5 DEF Matches
      <2>2. \A e \in Events : Gone(e)' => Gone(e)
            BY <1>5, <2>1, NothingTaken DEF Matches
      <2>3. TakenAreBehind(poller[p].next) /\ NewsOnly(poller[p])
            BY <1>5 DEF Matches, LogIsRead
      <2>4. NewsOnly(poller[p])'
            BY <2>1, <2>2, <2>3 DEF NewsOnly
      <2>5. QED
            BY <1>0, <1>1, <1>5, <2>1, <2>2, <2>3, <2>4 DEF Matches, Busy
<1>6. ASSUME NEW p \in Pollers, Stores(p) PROVE LogIsRead'
      <2>1. \A o \in Pollers : poller'[o].step = "idle"
            BY <1>6 DEF Stores, Alone, Busy, OthersStay
      <2>2. \A e \in Events : Gone(e)' => Gone(e)
            BY <1>6, NothingTaken DEF Stores
      <2>3. TakenAreBehind(poller[p].next)
            BY <1>6 DEF Stores, LogIsRead
      <2>4. \A e \in Events : Gone(e)' => Behind(log', e, calendar'.token)
            BY <1>0, <1>6, <2>2, <2>3 DEF Stores
      <2>5. QED
            BY <2>1, <2>4 DEF LogIsRead, TakenAreBehind
<1>7. ASSUME NEW p \in Pollers, Stops(p) PROVE LogIsRead'
      BY <1>1, <1>7 DEF Stops
<1>8. ASSUME NEW p \in Pollers, NEW e \in Events, ClaimsFirst(p, e) PROVE LogIsRead'
      <2>1. /\ poller'[p].next = poller[p].next /\ poller'[p].step = "run"
            /\ poller[p].events \in Seq(Events) /\ poller[p].events # <<>>
            /\ e = Head(poller[p].events) /\ runs' = runs /\ log' = log
            BY <1>8 DEF ClaimsFirst, BusyPoller
      <2>2. TakenAreBehind(poller[p].next) /\ NewsOnly(poller[p])
            BY <1>8 DEF ClaimsFirst, LogIsRead
      <2>3. Behind(log, e, poller[p].next)
            BY <2>1, <2>2 DEF NewsOnly
      <2>4. \A f \in Events : Gone(f)' => Gone(f) \/ f = e
            BY <1>8, <2>1, ClaimTakes DEF Gone, Taken
      <2>5. \A f \in Events : Gone(f)' => Behind(log', f, poller'[p].next)
            BY <2>1, <2>2, <2>3, <2>4 DEF TakenAreBehind, Behind
      <2>6. QED
            BY <1>1, <1>8, <2>1, <2>5 DEF ClaimsFirst, Busy
<1>9. ASSUME NEW p \in Pollers, NEW e \in Events, NEW c \in Conditions, Starts(p, e, c) PROVE LogIsRead'
      <2>1. /\ poller'[p].next = poller[p].next /\ poller'[p].step = "match"
            /\ poller'[p].events = <<>> /\ log' = log /\ poller[p].step = "run"
            BY <1>9 DEF Starts, Takes
      <2>2. \A f \in Events : Gone(f)' => Gone(f)
            <3>1. /\ \A q \in Pollers, f \in Events, d \in Conditions : Takes(q, f, d)' => Takes(q, f, d)
                  /\ \A f \in Events, d \in Conditions : f # e \/ d # c => runs'[f][d] = runs[f][d]
                  <4>1. \A q \in Pollers, f \in Events, d \in Conditions :
                          Takes(q, f, d)' <=> Takes(q, f, d) /\ q # p
                        BY <1>9, StartTakes
                  <4>2. \A f \in Events, d \in Conditions : f # e \/ d # c => runs'[f][d] = runs[f][d]
                        BY <1>9, StartTakes
                  <4>3. QED
                        BY <4>1, <4>2
            <3>2. Takes(p, e, c)
                  BY <1>9 DEF Starts
            <3>3. QED
                  <4> SUFFICES ASSUME NEW f \in Events, NEW d \in Conditions, Taken(f, d)'
                               PROVE  Taken(f, d)
                      BY DEF Gone
                  <4>1. CASE f = e /\ d = c
                        BY <3>2, <4>1 DEF Taken
                  <4>2. CASE f # e \/ d # c
                        <5>1. runs'[f][d] = runs[f][d]
                              BY <3>1, <4>2
                        <5>2. QED
                              BY <3>1, <5>1 DEF Taken
                  <4>3. QED
                        BY <4>1, <4>2
      <2>3. TakenAreBehind(poller[p].next)
            BY <2>1 DEF LogIsRead
      <2>4. NewsOnly(poller[p])'
            BY <2>1 DEF NewsOnly
      <2>5. QED
            BY <1>0, <1>1, <1>9, <2>1, <2>2, <2>3, <2>4 DEF Starts, Busy
<1>10. CASE WorldMoves
      <2>1. UNCHANGED <<calendar, runs, poller>>
            BY <1>10 DEF WorldMoves
      <2>2. \A e \in Events : Gone(e)' <=> Gone(e)
            BY <2>1 DEF Gone, Taken, Takes
      <2>3. Len(log') >= Len(log) /\ Len(log') \in Nat /\ \A i \in 1 .. Len(log) : log'[i] = log[i]
            <3>1. CASE log' = log
                  BY <1>t, <3>1
            <3>2. ASSUME NEW e \in Events, log' = Append(log, e)
                  PROVE  Len(log') >= Len(log) /\ Len(log') \in Nat /\ \A i \in 1 .. Len(log) : log'[i] = log[i]
                  BY <1>t, <3>2, AppendProperties
            <3>3. QED
                  BY <1>10, <3>1, <3>2 DEF WorldMoves
      <2>4. \A e, token : Behind(log, e, token) => Behind(log', e, token)
            <3>1. \A i \in 1 .. Len(log) : i \in 1 .. Len(log') /\ log'[i] = log[i]
                  BY <1>t, <2>3
            <3>2. QED
                  BY <3>1 DEF Behind
      <2>5. \A token : TakenAreBehind(token) => TakenAreBehind(token)'
            BY <2>2, <2>4 DEF TakenAreBehind
      <2>6. ASSUME NEW p \in Pollers, poller[p].step \in {"match", "claim"} PROVE NewsOnly(poller[p])'
            <3>1. NewsOnly(poller[p])
                  BY <2>6 DEF LogIsRead
            <3>2. poller[p].events \in Seq(Events)
                  BY <2>6, PollerIsBusy DEF PollerType, BusyPoller
            <3>3. QED
                  BY <2>1, <2>2, <2>4, <3>1, <3>2 DEF NewsOnly
      <2>7. QED
            BY <2>1, <2>5, <2>6 DEF LogIsRead
<1>11. CASE Edited
      BY <1>11 DEF Edited
<1>12. QED
      BY <1>2, <1>3, <1>4, <1>5, <1>6, <1>7, <1>8, <1>9, <1>10, <1>11 DEF PollerCase

LEMMA OnceStep ==
  ASSUME PollerType, PollerType', Once, PollerCase
  PROVE  Once'
<1>1. LogDistinct'
      BY LogDistinctStep DEF Once
<1>2. OneTaker' /\ ClaimOutlasts'
      BY OneTakerStep, ClaimOutlastsStep
<1>3. calendarEdits' = 0 => Alone' /\ SameRow
      BY EditsGrow, AloneStep DEF Once
<1>4. calendarEdits' = 0 /\ calendar'.condition = "cancelled" => LogIsRead'
      BY <1>3, EditsGrow, LogIsReadStep DEF Once, SameRow
<1>5. QED
      BY <1>1, <1>2, <1>3, <1>4 DEF Once

\* No event starts the workflow twice under one condition, however many
\* processes poll the row, whatever fails in between and, for a trigger on
\* events that start, however it is edited, unless a claim reaches Redis after
\* the window of its event: checkEventChanges, TryEventClaim and the sync token
\* of UpdateWorkflowCalendar.
THEOREM NoEventTwice == ServicesSpec => []OncePerEvent
<1>1. ServicesInit => PollerType /\ Once
      <2> SUFFICES ASSUME Poller!Init PROVE PollerType /\ Once
          BY DEF ServicesInit
      <2>1. PollerType
            BY PollerTypeInit
      <2>2. \A p \in Pollers : poller[p].step = "idle"
            BY DEF Poller!Init, Poller!Idle
      <2>3. \A e \in Events, c \in Conditions : runs[e][c] = 0 /\ ~Taken(e, c)
            <3> SUFFICES ASSUME NEW e \in Events, NEW c \in Conditions PROVE runs[e][c] = 0 /\ ~Taken(e, c)
                OBVIOUS
            <3>1. runs[e] = [d \in Conditions |-> 0]
                  BY DEF Poller!Init
            <3>2. runs[e][c] = 0
                  BY <3>1
            <3>3. QED
                  BY <2>2, <3>2 DEF Taken, Takes
      <2>4. LogDistinct
            BY DEF Poller!Init, LogDistinct
      <2>5. OneTaker /\ ClaimOutlasts
            <3>1. \A p \in Pollers, e \in Events, c \in Conditions : ~Takes(p, e, c)
                  BY <2>2 DEF Takes
            <3>2. ClaimOutlasts
                  BY <2>3 DEF ClaimOutlasts
            <3>3. \A e \in Events, c \in Conditions : runs[e][c] <= 1 /\ ~(runs[e][c] > 0)
                  BY <2>3
            <3>4. QED
                  BY <3>1, <3>2, <3>3 DEF OneTaker
      <2>6. Alone /\ LogIsRead
            BY <2>2, <2>3 DEF Alone, Busy, LogIsRead, TakenAreBehind, Gone
      <2>7. QED
            BY <2>1, <2>4, <2>5, <2>6 DEF Once
<1>2. PollerType /\ [ServicesNext]_servicesVars => PollerType' /\ PollerCase
      BY PollerSteps, PollerCases
<1>3. PollerType /\ PollerType' /\ Once /\ [ServicesNext]_servicesVars => Once'
      BY <1>2, OnceStep
<1>4. Once => OncePerEvent
      BY DEF Once, Promised, OneTaker, OncePerEvent, Poller!OncePerEvent
<1>5. QED
      BY <1>1, <1>2, <1>3, <1>4, PTL DEF ServicesSpec

-----------------------------------------------------------------------------
(* The connection to Google.                                               *)

LEMMA GoogleSteps ==
  [ServicesNext]_servicesVars => [Google!Next]_googleVars
BY DEF ServicesNext, servicesVars, Others, Rest, Parts

\* The button is busy for as long as its request is in flight.
Pending == (isLoading = TRUE /\ requests = 1) \/ (isLoading = FALSE /\ requests = 0)

CallerState ==
  [at : {"idle", "read", "update", "done", "failed"},
   token : Google!Tokens \cup {None}, read : Google!Tokens \cup {None}]

\* A token with a refresh token that Google has given out.
HasGrant(t) == t \in Google!Tokens /\ t.refresh \in 1 .. grants

\* A caller that has read the row, and one that is about to store an answer:
\* the answer has the refresh token that was read or a newer one.
CallerOK(v) ==
  /\ v.at = "read" => integration # None /\ HasGrant(v.token)
  /\ v.at = "update" =>
       /\ integration # None /\ HasGrant(v.token) /\ HasGrant(v.read)
       /\ v.token.refresh >= v.read.refresh

GoogleInv ==
  /\ Google!TypeOK
  /\ Pending
  /\ caller \in [Callers -> CallerState]
  /\ integration # None => HasGrant(integration)
  /\ \A c \in Callers : CallerOK(caller[c])

LEMMA NoneIsNoToken == None \notin Google!Tokens /\ None \notin Nat
BY DEF Google!Tokens

\* What Google has given out is numbered.
LEMMA NextNumber ==
  ASSUME NEW max \in Nat, NEW n \in 0 .. max, NEW S, S \subseteq 1 .. n, n < max
  PROVE  n + 1 \in 1 .. max /\ n + 1 \in 0 .. max /\ S \cup {n + 1} \subseteq 1 .. (n + 1)
<1>1. n + 1 \in 1 .. max /\ n + 1 \in 0 .. max /\ n + 1 \in 1 .. (n + 1)
      OBVIOUS
<1>2. \A k \in 1 .. n : k \in 1 .. (n + 1)
      OBVIOUS
<1>3. QED
      BY <1>1, <1>2

LEMMA ZeroOrOne == 0 \in 0 .. 1 /\ 1 \in 0 .. 1
OBVIOUS

LEMMA GoogleFacts ==
  ASSUME GoogleInv
  PROVE  /\ grants \in 0 .. MaxGrants /\ live \subseteq 1 .. grants /\ code \in 0 .. grants
         /\ tokens \in 0 .. MaxTokens /\ fresh \subseteq 1 .. tokens
         /\ grants \in Nat /\ grants >= grants
<1>1. /\ grants \in 0 .. MaxGrants /\ live \subseteq 1 .. grants /\ code \in 0 .. grants
      /\ tokens \in 0 .. MaxTokens /\ fresh \subseteq 1 .. tokens
      BY Zenon DEF GoogleInv, Google!TypeOK
<1>2. grants \in Nat
      BY <1>1
<1>3. QED
      BY <1>1, <1>2

LEMMA RangeIsNat ==
  ASSUME NEW max \in Nat, NEW n \in 0 .. max
  PROVE  n \in Nat
OBVIOUS

\* A grant stays one.
LEMMA GrantsStay ==
  ASSUME grants \in Nat, grants' \in Nat, grants' >= grants, NEW t, HasGrant(t)
  PROVE  t \in Google!Tokens /\ t.refresh \in 1 .. grants'
BY DEF HasGrant

LEMMA CallersStayOK ==
  ASSUME grants \in Nat, grants' \in Nat, grants' >= grants, integration # None => integration' # None,
         NEW v, CallerOK(v)
  PROVE  /\ v.at = "read" => integration' # None /\ v.token \in Google!Tokens /\ v.token.refresh \in 1 .. grants'
         /\ v.at = "update" =>
              /\ integration' # None
              /\ v.token \in Google!Tokens /\ v.token.refresh \in 1 .. grants'
              /\ v.read \in Google!Tokens /\ v.read.refresh \in 1 .. grants'
              /\ v.token.refresh >= v.read.refresh
BY GrantsStay DEF CallerOK

\* The page, the popup and Google move, and the row and its readers stay.
LEMMA GoogleQuiet ==
  ASSUME GoogleInv,
         isLoading' \in BOOLEAN, Pending',
         popup' \in {"closed", "consent", "late", "callback", "late callback", "error"},
         grants' \in 0 .. MaxGrants, grants' >= grants, live' \subseteq 1 .. grants',
         code' \in 0 .. grants',
         tokens' \in 0 .. MaxTokens, fresh' \subseteq 1 .. tokens',
         UNCHANGED <<integration, caller>>
  PROVE  GoogleInv'
<1>1. requests' \in 0 .. 1
      <2>1. requests' = 1 \/ requests' = 0
            BY Zenon DEF Pending
      <2>2. QED
            BY <2>1, ZeroOrOne, Zenon
<1>2. grants \in Nat /\ grants' \in Nat
      <2>1. grants \in Nat
            BY GoogleFacts
      <2>2. MaxGrants \in Nat /\ grants' \in 0 .. MaxGrants
            OBVIOUS
      <2>3. QED
            BY <2>1, <2>2, RangeIsNat
<1>3. Google!TypeOK'
      BY <1>1 DEF GoogleInv, Google!TypeOK, Google!Tokens
<1>4. caller' \in [Callers -> CallerState']
      BY DEF GoogleInv, CallerState, Google!Tokens
<1>5. (integration # None => HasGrant(integration))'
      BY <1>2, GrantsStay DEF GoogleInv, HasGrant, Google!Tokens
<1>6. ASSUME NEW c \in Callers PROVE CallerOK(caller[c])'
      <2>1. CallerOK(caller[c])
            BY DEF GoogleInv
      <2>2. QED
            BY <1>2, <2>1, CallersStayOK DEF CallerOK, HasGrant, Google!Tokens
<1>7. QED
      BY <1>3, <1>4, <1>5, <1>6 DEF GoogleInv

\* A caller moves to v.
LEMMA CallerMove ==
  ASSUME GoogleInv, NEW c \in Callers, NEW v \in CallerState,
         caller' = [caller EXCEPT ![c] = v],
         grants' \in 0 .. MaxGrants, grants' >= grants, live' \subseteq 1 .. grants',
         tokens' \in 0 .. MaxTokens, fresh' \subseteq 1 .. tokens',
         integration # None => integration' # None,
         integration' # None => integration' \in Google!Tokens /\ integration'.refresh \in 1 .. grants',
         v.at = "read" => integration' # None /\ v.token \in Google!Tokens /\ v.token.refresh \in 1 .. grants',
         v.at = "update" =>
           /\ integration' # None
           /\ v.token \in Google!Tokens /\ v.token.refresh \in 1 .. grants'
           /\ v.read \in Google!Tokens /\ v.read.refresh \in 1 .. grants'
           /\ v.token.refresh >= v.read.refresh,
         UNCHANGED <<isLoading, requests, popup, code>>
  PROVE  GoogleInv'
<1>1. caller' \in [Callers -> CallerState] /\ \A d \in Callers : caller'[d] = IF d = c THEN v ELSE caller[d]
      BY DEF GoogleInv
<1>2. grants \in Nat /\ grants' \in Nat /\ code' \in 0 .. grants'
      <2>1. grants \in Nat /\ grants' \in Nat /\ code' \in 0 .. grants
            BY GoogleFacts
      <2>2. QED
            BY <2>1
<1>3. Google!TypeOK'
      <2>1. \A d \in Callers : /\ caller'[d].at \in {"idle", "read", "update", "done", "failed"}
                               /\ caller'[d].token # None => caller'[d].token \in Google!Tokens
                               /\ caller'[d].read # None => caller'[d].read \in Google!Tokens
            BY <1>1 DEF CallerState
      <2>2. QED
            BY <1>2, <2>1 DEF GoogleInv, Google!TypeOK, Google!Tokens
<1>4. Pending'
      BY Zenon DEF GoogleInv, Pending
<1>5. (integration # None => HasGrant(integration))'
      BY DEF HasGrant, Google!Tokens
<1>6. ASSUME NEW d \in Callers PROVE CallerOK(caller[d])'
      <2>1. CASE d = c
            BY <1>1, <2>1 DEF CallerOK, HasGrant, Google!Tokens
      <2>2. CASE d # c
            <3>1. CallerOK(caller[d]) /\ caller'[d] = caller[d]
                  BY <1>1, <2>2 DEF GoogleInv
            <3>2. QED
                  BY <1>2, <3>1, CallersStayOK DEF CallerOK, HasGrant, Google!Tokens
      <2>3. QED
            BY <2>1, <2>2
<1>7. QED
      BY <1>1, <1>3, <1>4, <1>5, <1>6 DEF GoogleInv, CallerState, Google!Tokens

\* What a step may do to the row.
RowKept ==
  integration # None =>
    /\ integration' # None /\ integration'.refresh # None
    /\ integration'.refresh < integration.refresh =>
         \E c \in Callers : caller[c].at = "update" /\ caller[c].read # integration

LEMMA GoogleStep ==
  ASSUME GoogleInv, [Google!Next]_googleVars
  PROVE  GoogleInv' /\ RowKept
<1>t. Google!TypeOK /\ caller \in [Callers -> CallerState]
      BY DEF GoogleInv
<1>n. /\ isLoading \in BOOLEAN /\ Pending
      /\ popup \in {"closed", "consent", "late", "callback", "late callback", "error"}
      BY DEF GoogleInv, Google!TypeOK
<1>g. /\ grants \in 0 .. MaxGrants /\ live \subseteq 1 .. grants /\ code \in 0 .. grants
      /\ tokens \in 0 .. MaxTokens /\ fresh \subseteq 1 .. tokens /\ grants \in Nat /\ grants >= grants
      BY GoogleFacts
<1>i. integration # None => integration \in Google!Tokens /\ integration.refresh \in 1 .. grants
      BY DEF GoogleInv, HasGrant
<1>k. integration' = integration => RowKept
      <2>1. \A k \in 1 .. grants : k \in Nat /\ k # None /\ ~(k < k)
            BY <1>g, NoneIsNoToken
      <2>2. QED
            BY <1>i, <2>1 DEF RowKept
<1>p. UNCHANGED <<isLoading, requests>> => isLoading' \in BOOLEAN /\ Pending'
      BY <1>n, Zenon DEF Pending
<1>1. CASE UNCHANGED googleVars
      <2>1. GoogleInv'
            BY <1>1, <1>g, <1>n, <1>p, GoogleQuiet DEF googleVars
      <2>2. QED
            BY <1>1, <1>k, <2>1 DEF googleVars
<1>2. CASE Google!connectGmail \/ Google!AuthUrlArrives \/ Google!AuthUrlFails
      <2>1. isLoading' \in BOOLEAN /\ Pending'
            <3>1. CASE Google!connectGmail
                  <4>1. requests = 0 /\ isLoading' = TRUE /\ requests' = requests + 1
                        BY <1>n, <3>1, Zenon DEF Google!connectGmail, Google!ButtonEnabled, Pending
                  <4>2. requests' = 1
                        BY <4>1
                  <4>3. QED
                        BY <4>1, <4>2, Zenon DEF Pending
            <3>2. CASE Google!AuthUrlArrives \/ Google!AuthUrlFails
                  <4>1. /\ requests = 1 \/ requests = 0
                        /\ requests > 0 /\ isLoading' = FALSE /\ requests' = requests - 1
                        BY <1>n, <3>2, Zenon DEF Google!AuthUrlArrives, Google!AuthUrlFails, Pending
                  <4>2. requests' = 0
                        BY <4>1
                  <4>3. QED
                        BY <4>1, <4>2, Zenon DEF Pending
            <3>3. QED
                  BY <1>2, <3>1, <3>2
      <2>2. /\ popup' \in {popup, "consent"}
            /\ UNCHANGED <<code, grants, live, tokens, fresh, integration, caller>>
            BY <1>2 DEF Google!connectGmail, Google!AuthUrlArrives, Google!AuthUrlFails, Google!google
      <2>3. GoogleInv'
            BY <1>g, <1>n, <2>1, <2>2, GoogleQuiet
      <2>4. QED
            BY <1>k, <2>2, <2>3
<1>3. CASE Google!ClosePopup \/ Google!StateExpires \/ Google!Consent \/ Google!Revoke \/ Google!Expire
      <2>1. UNCHANGED <<isLoading, requests, tokens, integration, caller>>
            BY <1>3 DEF Google!ClosePopup, Google!StateExpires, Google!Consent, Google!Revoke,
               Google!Expire, Google!page, Google!google
      <2>2. popup' \in {"closed", "consent", "late", "callback", "late callback", "error"}
            BY <1>3, <1>n DEF Google!ClosePopup, Google!StateExpires, Google!Consent, Google!Revoke,
               Google!Expire
      <2>3. fresh' \subseteq 1 .. tokens'
            BY <1>3, <1>g DEF Google!ClosePopup, Google!StateExpires, Google!Consent, Google!Revoke,
               Google!Expire, Google!google
      <2>4. grants' \in 0 .. MaxGrants /\ grants' >= grants /\ live' \subseteq 1 .. grants' /\ code' \in 0 .. grants'
            <3>1. CASE Google!Consent
                  <4>1. grants' \in 0 .. MaxGrants /\ live' \subseteq 1 .. grants'
                        BY <1>g, <3>1, NextNumber DEF Google!Consent
                  <4>2. grants' = grants + 1 /\ code' = grants'
                        BY <3>1 DEF Google!Consent
                  <4>3. QED
                        BY <1>g, <4>1, <4>2
            <3>2. CASE ~Google!Consent
                  <4>1. UNCHANGED <<grants, code>> /\ live' \subseteq live
                        BY <1>3, <3>2 DEF Google!ClosePopup, Google!StateExpires, Google!Revoke,
                           Google!Expire, Google!google
                  <4>2. QED
                        BY <1>g, <4>1
            <3>3. QED
                  BY <3>1, <3>2
      <2>5. GoogleInv'
            BY <1>g, <1>p, <2>1, <2>2, <2>3, <2>4, GoogleQuiet
      <2>6. QED
            BY <1>k, <2>1, <2>5
<1>4. CASE Google!HandleCallBack
      <2>1. CASE UNCHANGED <<integration, grants, live, tokens, fresh>>
            <3>1. popup' \in {"closed", "error"} /\ UNCHANGED <<isLoading, requests, code, caller>>
                  BY <1>4 DEF Google!HandleCallBack, Google!StoreToken, Google!page
            <3>2. GoogleInv'
                  BY <1>g, <1>p, <2>1, <3>1, GoogleQuiet
            <3>3. QED
                  BY <1>k, <2>1, <3>2
      <2>2. CASE /\ code \in live /\ tokens < MaxTokens
                 /\ tokens' = tokens + 1 /\ fresh' = fresh \cup {tokens'}
                 /\ Google!StoreToken([refresh |-> code, access |-> tokens'])
                 /\ UNCHANGED <<isLoading, requests, code, grants, live, caller>>
            <3> DEFINE token == [refresh |-> code, access |-> tokens']
            <3>1. code \in 1 .. grants /\ code \in 1 .. MaxGrants
                  <4>1. code \in 1 .. grants
                        BY <1>g, <2>2
                  <4>2. \A m \in 0 .. MaxGrants : \A k \in 1 .. m : k \in 1 .. MaxGrants
                        OBVIOUS
                  <4>3. QED
                        BY <1>g, <4>1, <4>2
            <3>2. tokens' \in 1 .. MaxTokens /\ tokens' \in 0 .. MaxTokens /\ fresh' \subseteq 1 .. tokens'
                  BY <1>g, <2>2, NextNumber
            <3>3. token \in Google!Tokens /\ token.refresh \in 1 .. grants
                  BY <3>1, <3>2 DEF Google!Tokens
            <3>4. /\ popup' \in {"closed", "error"}
                  /\ integration = None => integration' = token
                  /\ integration # None => integration' = integration
                  BY <2>2 DEF Google!StoreToken
            <3> HIDE DEF token
            <3>5. integration' \in Google!Tokens /\ integration'.refresh \in 1 .. grants' /\ integration' # None
                  BY <1>i, <2>2, <3>3, <3>4, NoneIsNoToken
            <3>6. Google!TypeOK'
                  BY <1>t, <2>2, <3>2, <3>4, <3>5 DEF Google!TypeOK, Google!Tokens
            <3>7. isLoading' \in BOOLEAN /\ Pending'
                  BY <1>p, <2>2
            <3>8. \A c \in Callers : CallerOK(caller[c])'
                  BY <2>2, <3>5 DEF GoogleInv, CallerOK, HasGrant, Google!Tokens
            <3>9. GoogleInv'
                  BY <1>t, <2>2, <3>5, <3>6, <3>7, <3>8 DEF GoogleInv, HasGrant, CallerState, Google!Tokens
            <3>10. RowKept
                  BY <1>k, <3>4 DEF RowKept
            <3>11. QED
                  BY <3>9, <3>10
      <2>3. QED
            BY <1>4, <2>1, <2>2 DEF Google!HandleCallBack, Google!page, Google!google
<1>5. ASSUME NEW c \in Callers, Google!GetByUserID(c) PROVE GoogleInv' /\ RowKept
      <2> DEFINE v == IF integration = None THEN [at |-> "failed", token |-> None, read |-> None]
                      ELSE [at |-> "read", token |-> integration, read |-> None]
      <2>1. v \in CallerState
            BY <1>i DEF CallerState
      <2>2. /\ v.at = "read" => integration # None /\ v.token = integration
            /\ v.at # "update"
            OBVIOUS
      <2>3. /\ caller' = [caller EXCEPT ![c] = v]
            /\ UNCHANGED <<isLoading, requests, popup, code, grants, live, tokens, fresh, integration>>
            BY <1>5 DEF Google!GetByUserID, Google!Failed, Google!page, Google!google
      <2> HIDE DEF v
      <2>4. GoogleInv'
            BY <1>g, <1>i, <2>1, <2>2, <2>3, CallerMove
      <2>5. QED
            BY <1>k, <2>3, <2>4
<1>6. ASSUME NEW c \in Callers, Google!TokenSource(c) PROVE GoogleInv' /\ RowKept
      <2>1. caller[c].at = "read" /\ UNCHANGED <<isLoading, requests, popup, code, integration>>
            BY <1>6 DEF Google!TokenSource, Google!page
      <2> DEFINE token == caller[c].token
      <2>2. integration # None /\ token \in Google!Tokens /\ token.refresh \in 1 .. grants
            BY <2>1 DEF GoogleInv, CallerOK, HasGrant
      <2>3. CASE caller' = [caller EXCEPT ![c].at = "done"] /\ UNCHANGED <<grants, live, tokens, fresh>>
            <3> DEFINE v == [caller[c] EXCEPT !.at = "done"]
            <3>1. v \in CallerState /\ v.at = "done"
                  BY <1>t DEF CallerState
            <3>2. caller' = [caller EXCEPT ![c] = v]
                  BY <2>3
            <3> HIDE DEF v
            <3>3. QED
                  BY <1>g, <1>i, <1>k, <2>1, <2>3, <3>1, <3>2, CallerMove
      <2>4. ASSUME tokens < MaxTokens, tokens' = tokens + 1, fresh' = fresh \cup {tokens'},
                   NEW g \in {None, grants + 1},
                   IF g = None THEN UNCHANGED <<grants, live>>
                   ELSE grants < MaxGrants /\ grants' = g /\ live' = live \cup {g},
                   caller' = [caller EXCEPT ![c] =
                     [at |-> "update",
                      token |-> Google!Refreshed(token, [refresh |-> g, access |-> tokens']),
                      read |-> token]]
            PROVE  GoogleInv' /\ RowKept
            <3> DEFINE new == Google!Refreshed(token, [refresh |-> g, access |-> tokens'])
                       v == [at |-> "update", token |-> new, read |-> token]
            <3>1. tokens' \in 1 .. MaxTokens /\ tokens' \in 0 .. MaxTokens /\ fresh' \subseteq 1 .. tokens'
                  BY <1>g, <2>4, NextNumber
            <3>2. CASE g = None
                  <4>1. new = [token EXCEPT !.access = tokens']
                        BY <3>2 DEF Google!Refreshed
                  <4>2. new \in Google!Tokens /\ new.refresh = token.refresh
                        BY <2>2, <3>1, <4>1 DEF Google!Tokens
                  <4>3. \A k \in 1 .. grants : k >= k
                        BY <1>g
                  <4>4. QED
                        <5>1. caller' = [caller EXCEPT ![c] = v]
                              BY <2>4
                        <5> HIDE DEF new
                        <5>2. v \in CallerState /\ v.at = "update" /\ v.token = new /\ v.read = token
                              BY <2>2, <4>2 DEF CallerState
                        <5> HIDE DEF v
                        <5>3. UNCHANGED <<grants, live>>
                              BY <2>4, <3>2
                        <5>4. GoogleInv'
                              BY <1>g, <1>i, <2>1, <2>2, <3>1, <4>2, <4>3, <5>1, <5>2, <5>3, CallerMove
                        <5>5. QED
                              BY <1>k, <2>1, <5>4
            <3>3. CASE g # None
                  <4>1. g = grants + 1 /\ grants < MaxGrants /\ grants' = grants + 1 /\ live' = live \cup {grants + 1}
                        BY <2>4, <3>3
                  <4>2. /\ grants' \in 1 .. MaxGrants /\ grants' \in 0 .. MaxGrants
                        /\ live' \subseteq 1 .. grants' /\ grants' >= grants
                        BY <1>g, <4>1, NextNumber
                  <4>3. new = [refresh |-> grants', access |-> tokens']
                        BY <3>3, <4>1 DEF Google!Refreshed
                  <4>4. new \in Google!Tokens /\ new.refresh = grants'
                        BY <3>1, <4>2, <4>3 DEF Google!Tokens
                  <4>5. grants' \in 1 .. grants' /\ \A k \in 1 .. grants : k \in 1 .. grants' /\ grants' >= k
                        BY <1>g, <4>1
                  <4>6. QED
                        <5>1. caller' = [caller EXCEPT ![c] = v]
                              BY <2>4
                        <5> HIDE DEF new
                        <5>2. v \in CallerState /\ v.at = "update" /\ v.token = new /\ v.read = token
                              BY <2>2, <4>4 DEF CallerState
                        <5> HIDE DEF v
                        <5>3. GoogleInv'
                              BY <1>i, <2>1, <2>2, <3>1, <4>2, <4>4, <4>5, <5>1, <5>2, CallerMove
                        <5>4. QED
                              BY <1>k, <2>1, <5>3
            <3>4. QED
                  BY <3>2, <3>3
      <2>5. CASE /\ caller' = [caller EXCEPT ![c] = Google!Failed]
                 /\ UNCHANGED <<grants, live, tokens, fresh>>
            <3>1. Google!Failed \in CallerState /\ Google!Failed.at = "failed"
                  BY DEF Google!Failed, CallerState
            <3>2. GoogleInv'
                  BY <1>g, <1>i, <2>1, <2>5, <3>1, CallerMove
            <3>3. QED
                  BY <1>k, <2>1, <3>2
      <2>6. QED
            BY <1>6, <2>3, <2>4, <2>5 DEF Google!TokenSource, Google!google
<1>7. ASSUME NEW c \in Callers, Google!UpdateToken(c) PROVE GoogleInv' /\ RowKept
      <2>1. /\ caller[c].at = "update"
            /\ UNCHANGED <<isLoading, requests, popup, code, grants, live, tokens, fresh>>
            BY <1>7 DEF Google!UpdateToken, Google!page, Google!google
      <2>2. /\ integration # None
            /\ caller[c].token \in Google!Tokens /\ caller[c].token.refresh \in 1 .. grants
            /\ caller[c].read \in Google!Tokens /\ caller[c].read.refresh \in 1 .. grants
            /\ caller[c].token.refresh >= caller[c].read.refresh
            BY <2>1 DEF GoogleInv, CallerOK, HasGrant
      <2>3. integration' = integration \/ integration' = caller[c].token
            BY <1>7 DEF Google!UpdateToken
      <2>4. PICK v \in CallerState : caller' = [caller EXCEPT ![c] = v] /\ v.at \in {"done", "failed"}
            <3>1. CASE caller' = [caller EXCEPT ![c].at = "done", ![c].read = None]
                  <4> DEFINE v == [caller[c] EXCEPT !.at = "done", !.read = None]
                  <4>1. v \in CallerState /\ v.at = "done"
                        BY <1>t DEF CallerState
                  <4>2. caller' = [caller EXCEPT ![c] = v]
                        BY <1>t, <3>1
                  <4> HIDE DEF v
                  <4>3. QED
                        BY <4>1, <4>2
            <3>2. CASE caller' = [caller EXCEPT ![c] = Google!Failed]
                  <4>1. Google!Failed \in CallerState /\ Google!Failed.at = "failed"
                        BY DEF Google!Failed, CallerState
                  <4>2. QED
                        BY <3>2, <4>1
            <3>3. QED
                  BY <1>7, <3>1, <3>2 DEF Google!UpdateToken
      <2>5. integration' # None /\ integration' \in Google!Tokens /\ integration'.refresh \in 1 .. grants'
            BY <1>i, <2>1, <2>2, <2>3, NoneIsNoToken
      <2>6. GoogleInv'
            BY <1>g, <2>1, <2>4, <2>5, CallerMove
      <2>7. RowKept
            <3>1. integration'.refresh # None
                  BY <1>g, <2>1, <2>5, NoneIsNoToken
            <3>2. integration'.refresh < integration.refresh => caller[c].read # integration
                  <4> SUFFICES ASSUME caller[c].read = integration
                               PROVE  ~(integration'.refresh < integration.refresh)
                      OBVIOUS
                  <4>1. \A a, b \in 1 .. grants : a >= b => ~(a < b)
                        BY <1>g
                  <4>2. CASE integration' = integration
                        BY <2>1, <2>5, <4>1, <4>2
                  <4>3. CASE integration' = caller[c].token
                        BY <2>2, <4>1, <4>3
                  <4>4. QED
                        BY <2>3, <4>2, <4>3
            <3>3. QED
                  BY <2>1, <2>5, <3>1, <3>2 DEF RowKept
      <2>8. QED
            BY <2>6, <2>7
<1>8. ASSUME NEW c \in Callers, Google!Return(c) PROVE GoogleInv' /\ RowKept
      <2>1. /\ caller' = [caller EXCEPT ![c] = Google!Idle]
            /\ UNCHANGED <<isLoading, requests, popup, code, grants, live, tokens, fresh, integration>>
            BY <1>8 DEF Google!Return, Google!page, Google!google
      <2>2. Google!Idle \in CallerState /\ Google!Idle.at = "idle"
            BY DEF Google!Idle, CallerState
      <2>3. GoogleInv'
            BY <1>g, <1>i, <2>1, <2>2, CallerMove
      <2>4. QED
            BY <1>k, <2>1, <2>3
<1>9. QED
      BY <1>1, <1>2, <1>3, <1>4, <1>5, <1>6, <1>7, <1>8 DEF Google!Next, Google!GetToken

LEMMA GoogleInit == ServicesInit => GoogleInv
<1> SUFFICES ASSUME Google!Init PROVE GoogleInv
    BY DEF ServicesInit
<1>1. caller \in [Callers -> CallerState]
      BY DEF Google!Init, Google!Idle, CallerState
<1>2. \A c \in Callers : caller[c].at = "idle" /\ caller[c].token = None /\ caller[c].read = None
      BY DEF Google!Init, Google!Idle
<1>3. Google!TypeOK
      <2>1. isLoading \in BOOLEAN /\ requests = 0 /\ popup = "closed"
            BY DEF Google!Init
      <2>2. code = 0 /\ grants = 0 /\ live = {} /\ tokens = 0 /\ fresh = {} /\ integration = None
            BY DEF Google!Init
      <2>3. 0 \in 0 .. 1 /\ 0 \in 0 .. MaxGrants /\ 0 \in 0 .. MaxTokens /\ 0 \in 0 .. 0
            OBVIOUS
      <2>4. QED
            BY <1>2, <2>1, <2>2, <2>3, Zenon DEF Google!TypeOK
<1>4. QED
      BY <1>1, <1>2, <1>3 DEF Google!Init, GoogleInv, CallerOK, Pending

\* The row keeps a refresh token, whatever callers of GetToken refresh and write
\* back at the same time: StoreToken's INSERT fails while there is a row, and
\* what TokenSource returns has the refresh token that was read or a newer one.
\* So only a caller whose copy of the row is stale puts an older one back.
THEOREM RefreshTokenSurvives == ServicesSpec => RefreshTokenKept
<1>1. GoogleInv /\ [ServicesNext]_servicesVars => GoogleInv' /\ [RowKept]_integration
      BY GoogleSteps, GoogleStep
<1>2. QED
      BY <1>1, GoogleInit, PTL DEF ServicesSpec, RefreshTokenKept, Google!RefreshTokenKept, RowKept
=============================================================================
