---------------------------- MODULE MCPermissionQueue ----------------------------
(* Small instances of PermissionQueue for TLC.                             *)
EXTENDS PermissionQueue, TLC

Symmetry == Permutations(Calls) \cup Permutations(Paths)
=============================================================================
