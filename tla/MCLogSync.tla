------------------------------- MODULE MCLogSync -------------------------------
(***************************************************************************)
(* Instances of LogSync for TLC.                                           *)
(***************************************************************************)
EXTENDS LogSync
=============================================================================
