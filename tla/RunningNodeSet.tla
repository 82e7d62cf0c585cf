--------------------------- MODULE RunningNodeSet ---------------------------
(***************************************************************************)
(* The two Redis keys of a run (clients/redis/client.go): the set of nodes *)
(* that still have to complete, and the lock a worker takes to rebuild     *)
(* that set.  Redis deletes a set with its last member, so the key exists  *)
(* exactly when runningNodes is not empty.  Both keys carry a TTL.         *)
(***************************************************************************)
EXTENDS WorkflowGraph

VARIABLES
    runningNodes,   \* workflow_run:<id>:running_nodes, {} when absent
    finalizeLock    \* whether workflow_run:<id>:finalize_lock exists

redisVars == <<runningNodes, finalizeLock>>

RedisInit ==
    /\ runningNodes = {}
    /\ finalizeLock = FALSE

\* SADD: the ids join whatever the set holds.
InitializeRunningNodeSet(ids) ==
    /\ runningNodes' = runningNodes \cup ids
    /\ UNCHANGED finalizeLock

\* The script's EXISTS test, its SREM (and DEL of an empty set), and whether
\* the SCARD it returns is zero.
RunningSetExists == runningNodes # {}

RemoveNode(n) ==
    /\ runningNodes' = runningNodes \ {n}
    /\ UNCHANGED finalizeLock

\* Mutant: off by one.
AtMostOneRemaining(n) == Cardinality(runningNodes \ {n}) <= 1

NoneRemaining(n) == runningNodes \ {n} = {}

\* SET NX.
TryAcquireWorkflowRunFinalizationLock ==
    /\ ~finalizeLock
    /\ finalizeLock' = TRUE
    /\ UNCHANGED runningNodes

\* The TTLs run out: 5 seconds for the lock, 30 minutes for the set.
LockExpires ==
    /\ finalizeLock
    /\ finalizeLock' = FALSE
    /\ UNCHANGED runningNodes

RunningSetExpires ==
    /\ RunningSetExists
    /\ runningNodes' = {}
    /\ UNCHANGED finalizeLock
=============================================================================
