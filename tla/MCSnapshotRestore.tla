---------------------------- MODULE MCSnapshotRestore ----------------------------
(* Small instances of SnapshotRestore for TLC: an ordinary file f and a    *)
(* file e under an excluded directory, f ignored or not, and at most one   *)
(* kind of disturbance.                                                    *)
EXTENDS SnapshotRestore, TLC

CONSTANTS f, e, only, v1, v2

SomeFiles == {f, e}
SomeExcluded == {e}
SomeRules == {{f}}
SomeVersions == (f :> {only}) @@ (e :> {v1, v2})
OneDisturbance == {{}} \cup {{kind} : kind \in Disturbances}
Symmetry == Permutations({v1, v2})
=============================================================================
