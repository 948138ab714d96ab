----------------------------- MODULE MCRollout -----------------------------
(* Rollout for TLC: two stages and small sets of actors and rows. *)
EXTENDS Rollout

MCLastStage == 1
MCStages    == [s \in 0 .. 1 |-> IF s = 0 THEN 10 ELSE 50]
=============================================================================
