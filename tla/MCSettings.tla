----------------------------- MODULE MCSettings -----------------------------
(***************************************************************************)
(* An instance of Settings for TLC.  A custom amount that is a day and an  *)
(* hour in hours, one and a half, and one below zero, and two keywords; a  *)
(* schedule that is set in Tokyo, on 31 January at 09:00 and 23:40 and on  *)
(* 1 February at 00:05, for 28 January, 31 January and 2 February, at noon *)
(* and at 11; one email address in two spellings and a text that is none,  *)
(* a subject or a message that fits and one that is too long; delays of an *)
(* event below, at and above their limits.                                 *)
(***************************************************************************)
EXTENDS Settings

MCAmounts == {-2, 3, 50}
MCLowerCase == [t \in Texts |-> IF t = "A" THEN "a" ELSE t]
MCFiles == {<<"", "A">>}
MCPastes == {<<"x", "">>}
MCDelayInputs == {-1, 30, 31}
=============================================================================
