-------------------------------- MODULE TurnLog --------------------------------
(***************************************************************************)
(* What the main thread promises about the log of a session, however the   *)
(* worker is reached: the turns of a session are transactions.  A turn     *)
(* begins on the log as it is, and either its messages enter the log as a  *)
(* whole behind everything settled before it, or it leaves no trace.  A    *)
(* turn may fold a prefix of the log into a checkpoint, which still covers *)
(* what was folded.                                                        *)
(***************************************************************************)
EXTENDS Naturals, Sequences

CONSTANT Turn  \* the turns of the session

Id == Turn \X Nat  \* a message is named by its turn and a number

VARIABLES
  history,  \* the log: for each entry the set of messages it covers
  open      \* the turns that have begun and are not settled

vars == <<history, open>>

Own(t) == {t} \X Nat
Covered(l) == UNION {l[i] : i \in DOMAIN l}

(* Log l is log k with messages of turn t, and nothing else, behind it.    *)
Extends(l, k, t) ==
  /\ Len(l) >= Len(k)
  /\ SubSeq(l, 1, Len(k)) = k
  /\ \A i \in Len(k) + 1 .. Len(l) : l[i] \subseteq Own(t)

(* The first entry of log l folds the first n entries of log k, and maybe  *)
(* some of turn t; what stood behind them still follows.                   *)
Folds(l, k, n, t) ==
  LET folded == Covered(SubSeq(k, 1, n))
  IN  /\ Len(l) > 0
      /\ folded \subseteq l[1] /\ l[1] \ folded \subseteq Own(t)
      /\ Extends(Tail(l), SubSeq(k, n + 1, Len(k)), t)

-----------------------------------------------------------------------------
Init ==
  /\ history \in Seq(SUBSET Id)
  /\ open = {}

Begin(t) ==
  /\ open' = open \cup {t}
  /\ UNCHANGED history

Commit(t) ==
  /\ t \in open
  /\ open' = open \ {t}
  /\ \/ Extends(history', history, t)
     \/ \E n \in 1 .. Len(history) : Folds(history', history, n, t)

Abandon(t) ==
  /\ t \in open
  /\ open' = open \ {t}
  /\ UNCHANGED history

(* The worker is lost, or the agent is given up with all its turns.        *)
AbandonAll ==
  /\ open' = {}
  /\ UNCHANGED history

Next == AbandonAll \/ \E t \in Turn : Begin(t) \/ Commit(t) \/ Abandon(t)

Spec == Init /\ [][Next]_vars
=============================================================================
