---------------------------- MODULE Environment ----------------------------
(***************************************************************************)
(* What may go wrong around the processes of a run, and how often.  An     *)
(* instance chooses the kinds of faults it admits; a fault is one step and *)
(* costs one unit of the budget.                                           *)
(*   "crash"    a worker process dies in the middle of a task, or the      *)
(*              process that starts the run before it is done              *)
(*   "requeue"  a channel closes: the broker redelivers a task its handler *)
(*              is still working on                                        *)
(*   "db"       a PostgreSQL statement fails (or its context is cancelled) *)
(*   "redis"    a Redis command fails, or the running set's TTL runs out   *)
(*   "broker"   a RabbitMQ publish fails                                   *)
(*   "init"     Redis refuses the running set when the run starts          *)
(***************************************************************************)
EXTENDS Integers

CONSTANTS
    FaultKinds,   \* the kinds of faults this instance admits
    MaxFaults     \* how many faults one behaviour may have

ASSUME FaultAssumption ==
    /\ FaultKinds \subseteq {"crash", "requeue", "db", "redis", "broker", "init"}
    /\ MaxFaults \in Nat

VARIABLE faults   \* how many have happened

FaultInit == faults = 0

Fault(kind) ==
    /\ kind \in FaultKinds
    /\ faults < MaxFaults
    /\ faults' = faults + 1
=============================================================================
