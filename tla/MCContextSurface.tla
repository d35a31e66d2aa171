----------------------------- MODULE MCContextSurface -----------------------------
(***************************************************************************)
(* Instances of ContextSurface: two compactions, three messages, and every *)
(* pair (or every single one) of the disturbances; and three compactions   *)
(* of which two restarts make orphans.                                     *)
(***************************************************************************)
EXTENDS ContextSurface, TLC

CONSTANTS c1, c2, c3

MCCheckpoints == {c1, c2}
Symmetry == Permutations(MCCheckpoints)
MCAllowed == CallFaults \cup Overlaps \cup {"restart", "reset", "precedes"}

MCOrphanCheckpoints == {c1, c2, c3}
MCOrphanSymmetry == Permutations(MCOrphanCheckpoints)
MCOrphanAllowed == {"restart"}
=============================================================================
