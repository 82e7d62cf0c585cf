----------------------------- MODULE MCServices -----------------------------
(***************************************************************************)
(* An instance of Services for TLC.  Two pollers and two events a unit of  *)
(* time apart, with a window of two units in which each of them starts the *)
(* workflow, and answers that hold one event; a user who connects to       *)
(* Google twice while two callers refresh tokens; all graphs of four nodes *)
(* with up to five edges; one stored workflow, a trigger t and an action u *)
(* to drop, and three saves, so that two of them overlap.                  *)
(***************************************************************************)
EXTENDS Services

CONSTANTS e1, e2

EventTimes == [c \in Conditions |-> [e \in Events |-> IF e = e1 THEN 2 ELSE 3]]
=============================================================================
