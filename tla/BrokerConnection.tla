-------------------------- MODULE BrokerConnection --------------------------
(***************************************************************************)
(* The connection of a process to RabbitMQ: the goroutine that monitors it *)
(* and, when it is lost, connects again and starts the next monitor; the   *)
(* lock and the flag between them; the consumer that reads from the        *)
(* channel.  The goroutines that run monitorConnection are numbered in the *)
(* order in which they are started.                                        *)
(***************************************************************************)
EXTENDS Naturals, FiniteSets

CONSTANTS
  maxAttempts,            \* 10 in the code
  SetupFails,             \* whether declaring the queues may fail
  MaxMonitors             \* bound: goroutines that are started

ASSUME ConnectionAssumption ==
  maxAttempts \in Nat /\ SetupFails \in BOOLEAN /\ MaxMonitors \in Nat \ {0}

VARIABLES
  conn,                   \* c.conn: "open", "lost" or "closed" by Close
  broker,                 \* whether the broker can be reached
  cancelled,              \* whether c.ctx is cancelled
  reconnecting,           \* the flag of that name
  monitor,                \* where each goroutine is
  attempts,               \* of the goroutine that reconnects
  consuming               \* whether the goroutine of Subscribe reads messages
vars == <<conn, broker, cancelled, reconnecting, monitor, attempts, consuming>>

Monitors == 1 .. MaxMonitors

TypeOK ==
  /\ conn \in {"open", "lost", "closed"}
  /\ {broker, cancelled, reconnecting, consuming} \subseteq BOOLEAN
  /\ monitor \in [Monitors -> {"none", "start", "notify", "watch", "reconnect", "setup", "defer", "done"}]
  /\ attempts \in 0 .. maxAttempts

Goto(g, at) == monitor' = [monitor EXCEPT ![g] = at]

-----------------------------------------------------------------------------
(* monitorConnection.                                                      *)

\* Mutant: the flag is not looked at.
BeginAlways(g) ==
  /\ monitor[g] = "start"
  /\ reconnecting' = TRUE /\ Goto(g, "notify")
  /\ UNCHANGED <<conn, broker, cancelled, attempts, consuming>>

\* Under the lock: one goroutine at a time gets past the flag.
Begin(g) ==
  /\ monitor[g] = "start"
  /\ IF reconnecting THEN Goto(g, "done") /\ UNCHANGED reconnecting
                     ELSE Goto(g, "notify") /\ reconnecting' = TRUE
  /\ UNCHANGED <<conn, broker, cancelled, attempts, consuming>>

\* NotifyClose on a connection that is gone closes the channel it is given,
\* which ends the goroutine.
NotifyClose(g) ==
  /\ monitor[g] = "notify"
  /\ Goto(g, IF conn = "open" THEN "watch" ELSE "defer")
  /\ UNCHANGED <<conn, broker, cancelled, reconnecting, attempts, consuming>>

\* The connection is lost, closed, or the context is cancelled.
Watch(g) ==
  /\ monitor[g] = "watch"
  /\ \/ conn = "lost" /\ Goto(g, "reconnect") /\ attempts' = 0
     \/ (conn = "closed" \/ cancelled) /\ Goto(g, "defer") /\ UNCHANGED attempts
  /\ UNCHANGED <<conn, broker, cancelled, reconnecting, consuming>>

Return(g) ==
  /\ monitor[g] = "defer"
  /\ reconnecting' = FALSE
  /\ Goto(g, "done")
  /\ UNCHANGED <<conn, broker, cancelled, attempts, consuming>>

-----------------------------------------------------------------------------
(* attemptReconnect.                                                       *)

Stop(g) ==
  /\ monitor[g] = "reconnect" /\ cancelled
  /\ Goto(g, "defer")
  /\ UNCHANGED <<conn, broker, cancelled, reconnecting, attempts, consuming>>

GiveUp(g) ==
  /\ monitor[g] = "reconnect" /\ ~cancelled /\ attempts >= maxAttempts
  /\ cancelled' = TRUE
  /\ Goto(g, "defer")
  /\ UNCHANGED <<conn, broker, reconnecting, attempts, consuming>>

\* Mutant: the limit is passed by one.
ConnectFailsPastLimit(g) ==
  /\ monitor[g] = "reconnect" /\ ~cancelled /\ attempts <= maxAttempts
  /\ ~broker
  /\ attempts' = attempts + 1
  /\ UNCHANGED <<conn, broker, cancelled, reconnecting, monitor, consuming>>

\* Mutant: a failure is not counted.
ConnectFailsUncounted(g) ==
  /\ monitor[g] = "reconnect" /\ ~cancelled /\ attempts < maxAttempts
  /\ ~broker
  /\ UNCHANGED vars

ConnectFails(g) ==
  /\ monitor[g] = "reconnect" /\ ~cancelled /\ attempts < maxAttempts
  /\ ~broker
  /\ attempts' = attempts + 1
  /\ UNCHANGED <<conn, broker, cancelled, reconnecting, monitor, consuming>>

connect(g) ==
  /\ monitor[g] = "reconnect" /\ ~cancelled /\ attempts < maxAttempts
  /\ broker
  /\ conn' = "open"
  /\ Goto(g, "setup")
  /\ UNCHANGED <<broker, cancelled, reconnecting, attempts, consuming>>

\* The next monitor is started before this one has returned.
setupQueuesAndExchanges(g) ==
  /\ monitor[g] = "setup" /\ conn = "open"
  /\ g < MaxMonitors
  /\ monitor' = [monitor EXCEPT ![g] = "defer", ![g + 1] = "start"]
  /\ UNCHANGED <<conn, broker, cancelled, reconnecting, attempts, consuming>>

\* A failure is not counted as an attempt.
SetupAgain(g) ==
  /\ monitor[g] = "setup" /\ (SetupFails \/ conn # "open")
  /\ Goto(g, "reconnect")
  /\ UNCHANGED <<conn, broker, cancelled, reconnecting, attempts, consuming>>

-----------------------------------------------------------------------------
(* The world, and the rest of the process.                                 *)

\* The channel of messages closes with the connection, which ends the
\* goroutine that reads it; Subscribe is not called again.
LoseConnection ==
  /\ conn = "open"
  /\ \A g \in Monitors : monitor[g] # "none" => g < MaxMonitors
  /\ conn' = "lost" /\ consuming' = FALSE
  /\ broker' \in BOOLEAN
  /\ UNCHANGED <<cancelled, reconnecting, monitor, attempts>>

BrokerReturns ==
  /\ ~broker
  /\ broker' = TRUE
  /\ UNCHANGED <<conn, cancelled, reconnecting, monitor, attempts, consuming>>

\* The process ends; a reconnect under way holds the lock only while dialling.
Close ==
  /\ ~cancelled
  /\ cancelled' = TRUE
  /\ conn' = IF conn = "open" THEN "closed" ELSE conn
  /\ consuming' = FALSE
  /\ UNCHANGED <<broker, reconnecting, monitor, attempts>>

Init ==
  /\ conn = "open" /\ broker = TRUE /\ cancelled = FALSE /\ reconnecting = FALSE
  /\ monitor = [g \in Monitors |-> IF g = 1 THEN "start" ELSE "none"]
  /\ attempts = 0
  /\ consuming = TRUE

Goroutine(g) ==
  \/ Begin(g) \/ NotifyClose(g) \/ Watch(g) \/ Return(g)
  \/ Stop(g) \/ GiveUp(g) \/ ConnectFails(g) \/ connect(g)
  \/ setupQueuesAndExchanges(g) \/ SetupAgain(g)

Next == (\E g \in Monitors : Goroutine(g)) \/ LoseConnection \/ BrokerReturns \/ Close

\* A goroutine that can go on does.
Spec == Init /\ [][Next]_vars /\ \A g \in Monitors : WF_vars(Goroutine(g))

-----------------------------------------------------------------------------
(* Properties.                                                             *)

\* One goroutine at a time is past the flag, and the flag is set exactly while
\* one is: conn and channel have one writer, and no goroutine clears the flag
\* for another.
PastFlag(g) == monitor[g] \in {"notify", "watch", "reconnect", "setup", "defer"}
OneMonitor ==
  /\ \A g, h \in Monitors : PastFlag(g) /\ PastFlag(h) => g = h
  /\ reconnecting <=> \E g \in Monitors : PastFlag(g)

\* Reconnecting ends: with a connection, or with the process told to stop.
ReconnectEnds ==
  (\E g \in Monitors : monitor[g] = "reconnect") ~> (conn # "lost" \/ cancelled)

=============================================================================
