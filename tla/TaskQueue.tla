----------------------------- MODULE TaskQueue -----------------------------
(***************************************************************************)
(* The RabbitMQ side of clients/rabbitmq/client.go: the process_node_run   *)
(* queue, the delayed retry exchange that feeds it, and the dead letter    *)
(* queue.  A message is a node's task with the x-retry-count it carries.   *)
(* Up to 100 goroutines per worker consume the queue and a retry waits     *)
(* 2 s to 2 min, so delivery has no useful order: the queue is a bag,      *)
(* delayed messages included.  An unacknowledged delivery belongs to its   *)
(* consumer and goes back to the queue when the consumer's channel closes. *)
(***************************************************************************)
EXTENDS WorkflowGraph

CONSTANT MaxRetries   \* maxRetries, 3 in the code

ASSUME MaxRetriesAssumption == MaxRetries \in Nat

VARIABLES
    queue,   \* how many copies of each message are ready or delayed
    dlq      \* the nodes whose task was dead-lettered

brokerVars == <<queue, dlq>>

Messages == Nodes \X (0..MaxRetries)

BrokerInit ==
    /\ queue = [m \in Messages |-> 0]
    /\ dlq = {}

\* A new task starts without an x-retry-count header, which reads as 0.
Publish(n) ==
    /\ queue' = [queue EXCEPT ![<<n, 0>>] = @ + 1]
    /\ UNCHANGED dlq

\* The broker hands message m to a consumer.
Dequeue(m) ==
    /\ queue[m] > 0
    /\ queue' = [queue EXCEPT ![m] = @ - 1]
    /\ UNCHANGED dlq

\* The channel of the consumer holding m closed before it acknowledged.
Requeue(m) ==
    /\ queue' = [queue EXCEPT ![m] = @ + 1]
    /\ UNCHANGED dlq

\* Mutant: the original goes back to the queue as well.
RetryKeepsOriginal(n, header) ==
    /\ header < MaxRetries
    /\ queue' = [queue EXCEPT ![<<n, header + 1>>] = @ + 1, ![<<n, header>>] = @ + 1]
    /\ UNCHANGED dlq

\* handleFailedMessage schedules a copy with the next x-retry-count ...
PublishRetry(n, header) ==
    /\ header < MaxRetries
    /\ queue' = [queue EXCEPT ![<<n, header + 1>>] = @ + 1]
    /\ UNCHANGED dlq

\* ... or gives the task up.  A Nack on a closed channel reaches nobody.
DeadLetter(n, held) ==
    /\ dlq' = IF held THEN dlq \cup {n} ELSE dlq
    /\ UNCHANGED queue
=============================================================================
