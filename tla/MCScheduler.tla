---------------------------- MODULE MCScheduler ----------------------------
(* Instances of Scheduler for TLC. *)
EXTENDS Scheduler, TLC

CONSTANTS w1, w2, p1, p2

DailyPeriod == [daily |-> 2]

ProcessSymmetry == Permutations({p1, p2})
=============================================================================
