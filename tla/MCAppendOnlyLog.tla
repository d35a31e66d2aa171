---------------------------- MODULE MCAppendOnlyLog ----------------------------
(***************************************************************************)
(* An instance of AppendOnlyLog for TLC.  Messages are only compared, so   *)
(* the log is symmetric in them.                                           *)
(***************************************************************************)
EXTENDS AppendOnlyLog, TLC

CONSTANTS m1, m2

MCMessage == {m1, m2}
Symmetry == Permutations(MCMessage)
=============================================================================
