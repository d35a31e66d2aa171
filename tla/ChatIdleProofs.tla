----------------------------- MODULE ChatIdleProofs -----------------------------
(***************************************************************************)
(* Proofs about ChatIdle, for any number of turns and any finite set of    *)
(* activities: the type invariant, NoPhantoms, and AloneNeverHarmed.       *)
(***************************************************************************)
EXTENDS ChatIdle, FiniteSetTheorems, TLAPS

(* Sets of activities are finite; taking one activity in or out changes    *)
(* their number by one.                                                    *)
LEMMA Counting ==
  ASSUME NEW S \in SUBSET Activity
  PROVE  /\ IsFiniteSet(S) /\ Cardinality(S) \in Nat
         /\ Cardinality(S) = 0 <=> S = {}
         /\ \A a \in Activity \ S : Cardinality(S \cup {a}) = Cardinality(S) + 1
         /\ \A a \in S : Cardinality(S \ {a}) = Cardinality(S) - 1
<1>1. IsFiniteSet(S)
  BY FS_Subset, ConstantsAssumption
<1>2. Cardinality(S) \in Nat
  BY <1>1, FS_CardinalityType
<1>3. Cardinality(S) = 0 <=> S = {}
  BY <1>1, FS_EmptySet
<1>4. \A a \in Activity \ S : Cardinality(S \cup {a}) = Cardinality(S) + 1
  BY <1>1, FS_AddElement
<1>5. \A a \in S : Cardinality(S \ {a}) = Cardinality(S) - 1
  BY <1>1, FS_RemoveElement
<1> QED
  BY <1>1, <1>2, <1>3, <1>4, <1>5

-----------------------------------------------------------------------------
(* Every variable keeps its type: the invariant checked as TypeOK.         *)
THEOREM TypeCorrect == Spec => []TypeOK
<1>1. Init => TypeOK
  <2> SUFFICES ASSUME Init PROVE TypeOK
    OBVIOUS
  <2>1. by \in [Activity -> Turns \cup {AppAgent}]
    BY DEF Init
  <2>2. turns \in 0 .. MaxTurns
    BY ConstantsAssumption DEF Init
  <2> QED
    BY <2>1, <2>2 DEF Init, TypeOK
<1>2. TypeOK /\ [Next]_vars => TypeOK'
  <2> SUFFICES ASSUME TypeOK, [Next]_vars PROVE TypeOK'
    OBVIOUS
  <2>0. bound \in Turns \cup {AppAgent}
    BY ConstantsAssumption DEF TypeOK, Turns, AppAgent
  <2> USE ConstantsAssumption DEF TypeOK
  <2>1. CASE Bind
    BY <2>1 DEF Bind, Arm, Turns
  <2>2. CASE TurnEnds
    BY <2>2 DEF TurnEnds, Unbind
  <2>3. CASE StreamEvent
    BY <2>3 DEF StreamEvent, Arm
  <2>4. CASE PermissionWait
    BY <2>4 DEF PermissionWait
  <2>5. CASE IdleFires
    <3>1. harmed' \subseteq Turns
      BY <2>0, <2>5 DEF IdleFires, AppAgent
    <3> QED
      BY <2>5, <3>1 DEF IdleFires, Unbind
  <2>6. CASE IdleLapses
    BY <2>6 DEF IdleLapses
  <2>7. ASSUME NEW a \in Activity, StartFetch(a) PROVE TypeOK'
    <3>1. by' \in [Activity -> Turns \cup {AppAgent}]
      BY <2>0, <2>7 DEF StartFetch
    <3>2. armed' \in BOOLEAN /\ (armed' => bound # 0)
      BY <2>7 DEF StartFetch, Pulse, Arm
    <3>3. fetches' \subseteq Activity /\ fetches' \cap pauses = {}
      BY <2>7 DEF StartFetch, Free
    <3>4. shared' \subseteq Turns
      BY <2>0, <2>7 DEF StartFetch, AppAgent
    <3> QED
      BY <2>7, <3>1, <3>2, <3>3, <3>4 DEF StartFetch
  <2>8. ASSUME NEW a \in Activity, FetchBytes(a) PROVE TypeOK'
    BY <2>8 DEF FetchBytes, Pulse, Arm
  <2>9. ASSUME NEW a \in Activity, EndFetch(a) PROVE TypeOK'
    BY <2>9 DEF EndFetch, Less
  <2>10. ASSUME NEW a \in Activity, PauseChatIdle(a) PROVE TypeOK'
    <3>1. by' \in [Activity -> Turns \cup {AppAgent}]
      BY <2>0, <2>10 DEF PauseChatIdle
    <3>2. pauses' \subseteq Activity /\ fetches \cap pauses' = {}
      BY <2>10 DEF PauseChatIdle, Free
    <3>3. depth' \in Nat
      BY <2>10 DEF PauseChatIdle
    <3> QED
      BY <2>10, <3>1, <3>2, <3>3 DEF PauseChatIdle
  <2>11. ASSUME NEW a \in Activity, ResumeChatIdle(a) PROVE TypeOK'
    <3>1. armed' \in BOOLEAN /\ (armed' => bound # 0)
      BY <2>11 DEF ResumeChatIdle, Arm
    <3>2. depth' \in Nat
      BY <2>11 DEF ResumeChatIdle, Less
    <3> QED
      BY <2>11, <3>1, <3>2 DEF ResumeChatIdle
  <2>12. CASE UNCHANGED vars
    BY <2>12 DEF vars
  <2> QED
    BY <2>1, <2>2, <2>3, <2>4, <2>5, <2>6, <2>7, <2>8, <2>9, <2>10, <2>11, <2>12 DEF Next
<1> QED
  BY <1>1, <1>2, PTL DEF Spec

-----------------------------------------------------------------------------
(* A counter never counts what is not in flight: the invariant checked as  *)
(* NoPhantoms.  It is inductive on the type invariant: every step that     *)
(* takes an activity out of flight lowers its counter unless it is zero,   *)
(* and binding and unbinding only lower the counters.                      *)
THEOREM NoPhantomsHolds == Spec => []NoPhantoms
<1>1. Init => NoPhantoms
  BY Counting DEF Init, NoPhantoms
<1>2. TypeOK /\ NoPhantoms /\ [Next]_vars => NoPhantoms'
  <2> SUFFICES ASSUME TypeOK, NoPhantoms, [Next]_vars PROVE NoPhantoms'
    OBVIOUS
  <2>0. /\ fetches \in SUBSET Activity /\ pauses \in SUBSET Activity
        /\ count \in Nat /\ depth \in Nat
        /\ Cardinality(fetches) \in Nat /\ Cardinality(pauses) \in Nat
    BY Counting DEF TypeOK
  <2>1. CASE Bind \/ TurnEnds \/ IdleFires
    BY <2>0, <2>1 DEF Bind, TurnEnds, IdleFires, Unbind, NoPhantoms
  <2>2. CASE StreamEvent \/ PermissionWait \/ IdleLapses
    BY <2>2 DEF StreamEvent, PermissionWait, IdleLapses, NoPhantoms
  <2>3. ASSUME NEW a \in Activity, StartFetch(a) PROVE NoPhantoms'
    <3>1. Cardinality(fetches') = Cardinality(fetches) + 1
      BY <2>0, <2>3, Counting DEF StartFetch, Free
    <3> QED
      BY <2>0, <2>3, <3>1 DEF StartFetch, NoPhantoms
  <2>4. ASSUME NEW a \in Activity, FetchBytes(a) PROVE NoPhantoms'
    BY <2>4 DEF FetchBytes, NoPhantoms
  <2>5. ASSUME NEW a \in Activity, EndFetch(a) PROVE NoPhantoms'
    <3>1. Cardinality(fetches') = Cardinality(fetches) - 1 /\ Cardinality(fetches') \in Nat
      BY <2>0, <2>5, Counting DEF EndFetch
    <3> QED
      BY <2>0, <2>5, <3>1 DEF EndFetch, Less, NoPhantoms
  <2>6. ASSUME NEW a \in Activity, PauseChatIdle(a) PROVE NoPhantoms'
    <3>1. Cardinality(pauses') = Cardinality(pauses) + 1
      BY <2>0, <2>6, Counting DEF PauseChatIdle, Free
    <3> QED
      BY <2>0, <2>6, <3>1 DEF PauseChatIdle, NoPhantoms
  <2>7. ASSUME NEW a \in Activity, ResumeChatIdle(a) PROVE NoPhantoms'
    <3>1. Cardinality(pauses') = Cardinality(pauses) - 1 /\ Cardinality(pauses') \in Nat
      BY <2>0, <2>7, Counting DEF ResumeChatIdle
    <3> QED
      BY <2>0, <2>7, <3>1 DEF ResumeChatIdle, Less, NoPhantoms
  <2>8. CASE UNCHANGED vars
    BY <2>8 DEF vars, NoPhantoms
  <2> QED
    BY <2>1, <2>2, <2>3, <2>4, <2>5, <2>6, <2>7, <2>8 DEF Next
<1> QED
  BY <1>1, <1>2, TypeCorrect, PTL DEF Spec

-----------------------------------------------------------------------------
(* As long as the turn has the worker for itself the counters are exact.   *)
Exact ==
  bound # 0 /\ bound \notin shared =>
    count = Cardinality(fetches) /\ depth = Cardinality(pauses)

ExactInv == Exact /\ AloneNeverHarmed

(* The timer ends no turn that has a fetch, a tool or a request in flight, *)
(* unless somebody else's was in flight during the turn: the invariant     *)
(* checked as AloneNeverHarmed.  Without the proviso it is refuted.        *)
THEOREM AloneNeverHarmedHolds == Spec => []AloneNeverHarmed
<1>1. Init => ExactInv
  BY DEF Init, ExactInv, Exact, AloneNeverHarmed
<1>2. TypeOK /\ ExactInv /\ [Next]_vars => ExactInv'
  <2> SUFFICES ASSUME TypeOK, ExactInv, [Next]_vars PROVE ExactInv'
    OBVIOUS
  <2> USE DEF ExactInv, Exact, AloneNeverHarmed
  <2>0. /\ fetches \in SUBSET Activity /\ pauses \in SUBSET Activity
        /\ {} \in SUBSET Activity
        /\ Cardinality(fetches) \in Nat /\ Cardinality(pauses) \in Nat
        /\ Cardinality({}) = 0
    BY Counting DEF TypeOK
  <2>1. CASE Bind
    <3>1. CASE fetches \cup pauses = {}
      <4>1. fetches = {} /\ pauses = {}
        BY <3>1
      <4> QED
        BY <2>0, <2>1, <4>1 DEF Bind
    <3>2. CASE fetches \cup pauses # {}
      BY <2>1, <3>2 DEF Bind
    <3> QED
      BY <3>1, <3>2
  <2>2. CASE TurnEnds
    BY <2>2 DEF TurnEnds, Unbind
  <2>3. CASE IdleFires
    <3>1. ASSUME bound # 0, bound \notin shared PROVE Own(bound) = {}
      <4>1. fetches = {} /\ pauses = {}
        BY <2>0, <2>3, <3>1, Counting DEF IdleFires
      <4> QED
        BY <4>1 DEF Own
    <3>2. bound # 0
      BY <2>3 DEF IdleFires, TypeOK
    <3> QED
      BY <2>3, <3>1, <3>2 DEF IdleFires, Unbind
  <2>4. CASE StreamEvent \/ PermissionWait \/ IdleLapses
    BY <2>4 DEF StreamEvent, PermissionWait, IdleLapses
  <2>5. ASSUME NEW a \in Activity, StartFetch(a) PROVE ExactInv'
    <3>1. Cardinality(fetches') = Cardinality(fetches) + 1
      BY <2>0, <2>5, Counting DEF StartFetch, Free
    <3>2. shared \subseteq shared'
      BY <2>5 DEF StartFetch
    <3> QED
      BY <2>0, <2>5, <3>1, <3>2 DEF StartFetch
  <2>6. ASSUME NEW a \in Activity, FetchBytes(a) PROVE ExactInv'
    BY <2>6 DEF FetchBytes
  <2>7. ASSUME NEW a \in Activity, EndFetch(a) PROVE ExactInv'
    <3>1. Cardinality(fetches') = Cardinality(fetches) - 1 /\ Cardinality(fetches') \in Nat
      BY <2>0, <2>7, Counting DEF EndFetch
    <3> QED
      BY <2>0, <2>7, <3>1 DEF EndFetch, Less
  <2>8. ASSUME NEW a \in Activity, PauseChatIdle(a) PROVE ExactInv'
    <3>1. Cardinality(pauses') = Cardinality(pauses) + 1
      BY <2>0, <2>8, Counting DEF PauseChatIdle, Free
    <3> QED
      BY <2>0, <2>8, <3>1 DEF PauseChatIdle
  <2>9. ASSUME NEW a \in Activity, ResumeChatIdle(a) PROVE ExactInv'
    <3>1. Cardinality(pauses') = Cardinality(pauses) - 1 /\ Cardinality(pauses') \in Nat
      BY <2>0, <2>9, Counting DEF ResumeChatIdle
    <3> QED
      BY <2>0, <2>9, <3>1 DEF ResumeChatIdle, Less
  <2>10. CASE UNCHANGED vars
    BY <2>10 DEF vars
  <2> QED
    BY <2>1, <2>2, <2>3, <2>4, <2>5, <2>6, <2>7, <2>8, <2>9, <2>10 DEF Next
<1>3. ExactInv => AloneNeverHarmed
  BY DEF ExactInv
<1> QED
  BY <1>1, <1>2, <1>3, TypeCorrect, PTL DEF Spec
=============================================================================
