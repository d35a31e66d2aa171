----------------------------- MODULE MCChatIdle -----------------------------
(* Small instances of ChatIdle for TLC.  Activities are interchangeable.    *)
EXTENDS ChatIdle, TLC

Symmetry == Permutations(Activity)
=============================================================================
