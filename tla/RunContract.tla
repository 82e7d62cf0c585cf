---------------------------- MODULE RunContract ----------------------------
(***************************************************************************)
(* What a workflow run promises to the user who watches it: a node is done *)
(* only after all its parents are, a node that is done stays done, and the *)
(* run gets one verdict, once: success when every node is done, failed     *)
(* only when one is not.  It says nothing of queues, retries or workers.   *)
(***************************************************************************)
EXTENDS WorkflowGraph

VARIABLES
    done,      \* the nodes that have succeeded
    verdict    \* "none" before the run exists, then "running", then the verdict

contractVars == <<done, verdict>>

ContractInit == done = {} /\ verdict = "none"

Begin ==
    /\ verdict = "none"
    /\ verdict' = "running"
    /\ done' = Triggers

\* Other branches of a failed run still run to their end.
Perform(n) ==
    /\ verdict # "none"
    /\ n \notin done
    /\ Parents(n) \subseteq done
    /\ done' = done \cup {n}
    /\ UNCHANGED verdict

Succeed ==
    /\ verdict = "running"
    /\ done = Nodes
    /\ verdict' = "success"
    /\ UNCHANGED done

Fail ==
    /\ verdict = "running"
    /\ done # Nodes
    /\ verdict' = "failed"
    /\ UNCHANGED done

ContractNext == Begin \/ (\E n \in Nodes : Perform(n)) \/ Succeed \/ Fail

ContractSpec == ContractInit /\ [][ContractNext]_contractVars
=============================================================================
