----------------------------- MODULE MCTurnPipeline -----------------------------
(* Small instances of TurnPipeline for TLC.                                *)
EXTENDS TurnPipeline

AllDisturbances == Disturbances
=============================================================================
