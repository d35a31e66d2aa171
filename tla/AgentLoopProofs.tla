---------------------------- MODULE AgentLoopProofs ----------------------------
(* Theorems about AgentLoop for every value of its constants.               *)
EXTENDS AgentLoop, FiniteSetTheorems, TLAPS

(* Messages built by the four constructors are messages.                    *)
LEMMA MessageTypes ==
  /\ \A body \in Body : UserMsg(body) \in Message
  /\ \A ids \in Seq(CallId) : AssistantMsg(ids) \in Message
  /\ \A id \in CallId : ToolMsg(id) \in Message
  /\ CheckpointMsg \in Message
<1>1. <<0, 0, 0>> \in CallId
  BY DEF CallId
<1>2. <<>> \in Seq(CallId)
  OBVIOUS
<1> QED
  BY <1>1, <1>2 DEF Message, Body, UserMsg, AssistantMsg, ToolMsg, CheckpointMsg

(* A compacted log is a log.                                                *)
LEMMA CompactedType ==
  ASSUME NEW l \in Seq(Message), NEW b \in CutPoints(l)
  PROVE  Compacted(l, b) \in Seq(Message)
<1>1. b \in 2 .. Len(l)
  BY DEF CutPoints
<1>2. SubSeq(l, b, Len(l)) \in Seq(Message)
  BY <1>1
<1> QED
  BY <1>2, MessageTypes DEF Compacted

(* Stripping images keeps the log a log of the same length.                 *)
LEMMA StripType ==
  ASSUME NEW l \in Seq(Message)
  PROVE  StripImages(l) \in Seq(Message) /\ Len(StripImages(l)) = Len(l)
<1>0. \A m \in Message : [m EXCEPT !.body = "text"] \in Message
  BY DEF Message, Body
<1>1. \A i \in 1 .. Len(l) : l[i] \in Message /\ [l[i] EXCEPT !.body = "text"] \in Message
  BY <1>0
<1>2. DOMAIN StripImages(l) = 1 .. Len(l)
  BY DEF StripImages
<1>3. \A i \in 1 .. Len(l) : StripImages(l)[i] \in Message
  BY <1>1 DEF StripImages
<1>4. StripImages(l) = [i \in 1 .. Len(l) |-> StripImages(l)[i]]
  BY DEF StripImages
<1> QED
  BY <1>2, <1>3, <1>4

(* The image messages of a batch are messages.                              *)
LEMMA ImageMsgsType ==
  ASSUME TypeOK PROVE ImageMsgs \in Seq(Message)
<1> DEFINE withImage == {k \in DOMAIN res : res[k] = "img"}
<1>1. IsFiniteSet(1 .. Len(batch))
  BY FS_Interval DEF TypeOK
<1>2. withImage \subseteq 1 .. Len(batch)
  BY DEF TypeOK
<1>3. Cardinality(withImage) \in Nat
  BY <1>1, <1>2, FS_Subset, FS_CardinalityType
<1> QED
  BY <1>3, MessageTypes DEF ImageMsgs, Body

(* The identity of a call of the current batch.                             *)
LEMMA IdType ==
  ASSUME TypeOK, NEW k \in Nat PROVE Id(k) \in CallId
BY DEF TypeOK, Id, CallId

(* A call of a batch being executed is named by a natural number.           *)
LEMMA ResDomain ==
  ASSUME TypeOK PROVE DOMAIN res = 1 .. Len(batch) /\ Len(batch) \in Nat /\ DOMAIN res \subseteq Nat
BY DEF TypeOK

(* The compaction counters keep their type.                                 *)
LEMMA CountersType ==
  ASSUME NEW c \in Counters, NEW shrunk \in BOOLEAN
  PROVE  RecordOutcome(c, shrunk) \in Counters
<1> DEFINE w == IF shrunk THEN 0 ELSE c.wasted + 1
<1>1. w \in Nat
  BY DEF Counters
<1>2. RecordOutcome(c, shrunk) = [c EXCEPT !.tries = @ + 1, !.wasted = w]
  BY DEF RecordOutcome
<1> HIDE DEF w
<1>3. RecordOutcome(c, shrunk) = [tries |-> c.tries + 1, wasted |-> w,
                                  coolUntil |-> c.coolUntil, emergencies |-> c.emergencies]
  BY <1>2 DEF Counters
<1> QED
  BY <1>1, <1>3 DEF Counters

(* An empty batch has an empty record.                                      *)
LEMMA EmptyBatchType ==
  ASSUME NEW S PROVE <<>> \in Seq(S) /\ <<>> \in [1 .. Len(<<>>) -> S]
OBVIOUS

(* The message that ends a chat carries no calls.                           *)
LEMMA FinalMsgType == AssistantMsg(<<>>) \in Message
<1>1. <<>> \in Seq(CallId)
  OBVIOUS
<1> QED
  BY <1>1, MessageTypes

(* The counters of a fresh round.                                           *)
LEMMA NextRoundType ==
  ASSUME TypeOK, NextRound
  PROVE  /\ round' \in Nat /\ cont' \in Nat /\ empties' \in Nat
         /\ merged' \in BOOLEAN /\ pc' = "round"
<1>1. merged' \in BOOLEAN
  BY DEF NextRound
<1>2. round' \in Nat /\ cont' \in Nat /\ empties' \in Nat /\ pc' = "round"
  BY DEF TypeOK, NextRound
<1> QED
  BY <1>1, <1>2

(* The identities given to the calls of a reply.                            *)
LEMMA CallIdsType ==
  ASSUME NEW b \in Seq(CallKinds), NEW c \in Nat, NEW r \in Nat
  PROVE  [k \in DOMAIN b |-> <<c, r, k>>] \in Seq(CallId)
BY DEF CallId

-----------------------------------------------------------------------------
LEMMA InitType == ASSUME Init PROVE TypeOK
<1>1. log \in Seq(Message) /\ batch \in Seq(CallKinds) /\ landed \in Nat
  BY DEF Init
<1>2. res \in [1 .. Len(batch) -> {"todo", "run", "ok", "img", "err", "question"}]
  BY EmptyBatchType DEF Init
<1>3. comp \in Counters
  BY DEF Init, FreshCounters, Counters
<1>4. pc = "idle" /\ outcome = "none" /\ live = {} /\ signalled = {}
  BY DEF Init
<1>5. chat \in Nat /\ round \in Nat /\ cont \in Nat /\ empties \in Nat
  BY DEF Init
<1>6. aborted \in BOOLEAN /\ answer \in BOOLEAN /\ unretried \in BOOLEAN /\ merged \in BOOLEAN
  BY DEF Init
<1> QED
  BY <1>1, <1>2, <1>3, <1>4, <1>5, <1>6 DEF TypeOK

(* Every step keeps the types.                                              *)
LEMMA NextType == ASSUME TypeOK, [Next]_vars PROVE TypeOK'
<1> USE DEF Settle, roundVars, toolVars, implVars
<1>1. CASE StartChat
  <2>1. log' \in Seq(Message)
    BY <1>1, MessageTypes DEF StartChat, TypeOK
  <2>2. comp' \in Counters
    BY <1>1 DEF StartChat, FreshCounters, Counters
  <2>3. merged' \in BOOLEAN /\ aborted' \in BOOLEAN /\ answer' \in BOOLEAN /\ unretried' \in BOOLEAN
    BY <1>1 DEF StartChat
  <2> QED
    BY <1>1, <2>1, <2>2, <2>3 DEF StartChat, TypeOK
<1>2. CASE EndRounds
  BY <1>2 DEF EndRounds, TypeOK
<1>3. CASE BeginCompaction
  BY <1>3 DEF BeginCompaction, TypeOK
<1>4. CASE BeginRound
  BY <1>4 DEF BeginRound, TypeOK
<1>5. CASE StopBeforeSend
  BY <1>5 DEF StopBeforeSend, TypeOK
<1>6. CASE Send
  BY <1>6 DEF Send, TypeOK
<1>7. CASE StartCalls
  <2>1. res' \in [1 .. Len(batch) -> {"todo", "run", "ok", "img", "err", "question"}]
    BY <1>7 DEF StartCalls, TypeOK
  <2>2. \A k \in NextSegment : k \in Nat
    <3> DEFINE first == Cardinality(DOMAIN res \ Todo) + 1
    <3>0. IsFiniteSet(1 .. Len(batch))
      BY ResDomain, FS_Interval
    <3>1. IsFiniteSet(DOMAIN res \ Todo)
      BY <3>0, ResDomain, FS_Subset
    <3>2. first \in Nat
      BY <3>1, FS_CardinalityType
    <3> QED
      BY <3>2, ResDomain DEF NextSegment
  <2>3. live' \subseteq CallId
    BY <1>7, <2>2, IdType DEF StartCalls, TypeOK
  <2> QED
    BY <1>7, <2>1, <2>3 DEF StartCalls, TypeOK
<1>8. CASE BeginLanding
  BY <1>8 DEF BeginLanding, TypeOK
<1>9. CASE LandResult
  <2>1. ToolMsg(Id(landed + 1)) \in Message
    BY MessageTypes, IdType DEF TypeOK
  <2> QED
    BY <1>9, <2>1 DEF LandResult, TypeOK
<1>10. CASE FinishBatch
  <2>1. log' \in Seq(Message)
    BY <1>10, ImageMsgsType DEF FinishBatch, TypeOK
  <2>2. batch' = <<>> /\ res' = <<>> /\ landed' = 0
    BY <1>10 DEF FinishBatch
  <2>3. /\ batch' \in Seq(CallKinds)
        /\ res' \in [1 .. Len(batch') -> {"todo", "run", "ok", "img", "err", "question"}]
        /\ landed' \in Nat
    BY <2>2, EmptyBatchType
  <2>4. CASE Asked
    BY <1>10, <2>1, <2>3, <2>4 DEF FinishBatch, TypeOK
  <2>5. CASE ~Asked
    BY <1>10, <2>1, <2>3, <2>5, NextRoundType DEF FinishBatch, TypeOK
  <2> QED
    BY <2>4, <2>5
<1>11. CASE CompactionSucceeds
  <2>1. log' \in Seq(Message)
    BY <1>11, CompactedType DEF CompactionSucceeds, TypeOK
  <2>2. comp' \in Counters
    <3>1. PICK shrunk \in BOOLEAN :
            comp' = [RecordOutcome(comp, shrunk) EXCEPT !.coolUntil = 0]
      BY <1>11 DEF CompactionSucceeds
    <3>2. RecordOutcome(comp, shrunk) \in Counters
      BY CountersType DEF TypeOK
    <3> QED
      BY <3>1, <3>2 DEF Counters, TypeOK
  <2> QED
    BY <1>11, <2>1, <2>2 DEF CompactionSucceeds, TypeOK
<1>12. CASE CompactionYieldsNothing
  <2>1. comp' \in Counters
    <3>1. comp' = [tries |-> comp.tries + 1, wasted |-> comp.wasted,
                   coolUntil |-> round + 2, emergencies |-> comp.emergencies]
      BY <1>12 DEF CompactionYieldsNothing, TypeOK, Counters
    <3> QED
      BY <3>1 DEF TypeOK, Counters
  <2> QED
    BY <1>12, <2>1 DEF CompactionYieldsNothing, TypeOK
<1>13. CASE CompactionThrows
  BY <1>13 DEF CompactionThrows, TypeOK
<1>14. CASE EmergencySucceeds
  <2>1. log' \in Seq(Message)
    BY <1>14, CompactedType DEF EmergencySucceeds, TypeOK
  <2>2. comp' \in Counters
    <3>1. PICK shrunk \in BOOLEAN : comp' = [RecordOutcome(comp, shrunk) EXCEPT !.coolUntil = 0]
      BY <1>14 DEF EmergencySucceeds
    <3>2. RecordOutcome(comp, shrunk) \in Counters
      BY CountersType DEF TypeOK
    <3> QED
      BY <3>1, <3>2 DEF Counters
  <2>3. unretried' \in BOOLEAN
    BY <1>14 DEF EmergencySucceeds
  <2> QED
    BY <1>14, <2>1, <2>2, <2>3, NextRoundType DEF EmergencySucceeds, TypeOK
<1>15. CASE EmergencyFails
  BY <1>15 DEF EmergencyFails, TypeOK, Counters
<1>16. CASE ReplyText
  <2>1. log' \in Seq(Message)
    BY <1>16, FinalMsgType DEF ReplyText, TypeOK
  <2> QED
    BY <1>16, <2>1 DEF ReplyText, TypeOK
<1>17. CASE ReplyCalls
  <2>1. PICK b \in Batches :
          /\ batch' = b
          /\ res' = [k \in DOMAIN b |-> "todo"]
          /\ log' = Append(log, AssistantMsg([k \in DOMAIN b |-> <<chat, round, k>>]))
    BY <1>17 DEF ReplyCalls
  <2>2. b \in Seq(CallKinds)
    BY ConstantsAssumption
  <2>3. [k \in DOMAIN b |-> <<chat, round, k>>] \in Seq(CallId)
    BY <2>2, CallIdsType DEF TypeOK
  <2>4. log' \in Seq(Message)
    BY <2>1, <2>3, MessageTypes DEF TypeOK
  <2>5. res' \in [1 .. Len(batch') -> {"todo", "run", "ok", "img", "err", "question"}]
    BY <2>1, <2>2
  <2> QED
    BY <1>17, <2>1, <2>2, <2>4, <2>5 DEF ReplyCalls, TypeOK
<1>18. CASE ReplyTruncated
  BY <1>18 DEF ReplyTruncated, TypeOK
<1>19. CASE ReplyTruncatedAgain
  <2>1. log' \in Seq(Message)
    BY <1>19, FinalMsgType DEF ReplyTruncatedAgain, TypeOK
  <2>2. merged' \in BOOLEAN /\ answer' \in BOOLEAN
    BY <1>19 DEF ReplyTruncatedAgain, TypeOK
  <2> QED
    BY <1>19, <2>1, <2>2 DEF ReplyTruncatedAgain, TypeOK
<1>20. CASE ReplyEmpty
  BY <1>20 DEF ReplyEmpty, TypeOK
<1>21. CASE Overflow
  BY <1>21 DEF Overflow, TypeOK, Counters
<1>22. CASE ImageRejected
  <2>1. log' \in Seq(Message)
    BY <1>22, StripType DEF ImageRejected, TypeOK
  <2> QED
    BY <1>22, <2>1, NextRoundType DEF ImageRejected, TypeOK
<1>23. CASE ReplyFails
  BY <1>23 DEF ReplyFails, TypeOK
<1>24. ASSUME NEW k \in DOMAIN res, CallAnswers(k) PROVE TypeOK'
  BY <1>24 DEF CallAnswers, TypeOK
<1>25. ASSUME NEW k \in DOMAIN res, CallTimesOut(k) PROVE TypeOK'
  BY <1>25, IdType, ResDomain DEF CallTimesOut, TypeOK
<1>26. CASE Wake
  BY <1>26 DEF Wake, TypeOK
<1>27. CASE ImplStops
  BY <1>27 DEF ImplStops, TypeOK
<1>28. CASE Abort
  <2>1. signalled' \subseteq CallId
    BY <1>28, IdType, ResDomain DEF Abort, Running, TypeOK
  <2> QED
    BY <1>28, <2>1 DEF Abort, TypeOK
<1>29. CASE UNCHANGED vars
  BY <1>29 DEF vars, TypeOK
<1> QED
  BY <1>1, <1>2, <1>3, <1>4, <1>5, <1>6, <1>7, <1>8, <1>9, <1>10, <1>11, <1>12, <1>13, <1>14,
     <1>15, <1>16, <1>17, <1>18, <1>19, <1>20, <1>21, <1>22, <1>23, <1>24, <1>25, <1>26, <1>27,
     <1>28, <1>29 DEF Next, SyncStep, HandlerStep, ProviderStep, ToolStep

(* The loop's variables keep their types in every run.                      *)
THEOREM TypeCorrect == Spec => []TypeOK
BY InitType, NextType, PTL DEF Spec

-----------------------------------------------------------------------------
(* WireShape.  Between two batches the log is paired; while a batch is      *)
(* being worked on, everything before its assistant message is paired and   *)
(* the results that have landed stand in order behind it.                   *)

Base == Len(log) - landed

HalfAnswered ==
  /\ landed <= Len(batch)
  /\ pc = "tools" => landed = 0
  /\ Base \in 1 .. Len(log)
  /\ log[Base] = AssistantMsg([k \in DOMAIN batch |-> Id(k)])
  /\ \A k \in 1 .. landed : log[Base + k] = ToolMsg(Id(k))
  /\ \A i \in 1 .. Base - 1 : log[i].role = "assistant" => AnswersFollow(log, i)
  /\ \A j \in 1 .. Base : log[j].role = "tool" => HasOwner(log, j)

WireInv ==
  /\ WireShape
  /\ pc \in {"tools", "landing"} => HalfAnswered

(* A message that neither asks for an answer nor gives one.                 *)
Quiet(m) == m.role # "tool" /\ m.calls = <<>>

LEMMA QuietMessages ==
  /\ \A body : Quiet(UserMsg(body))
  /\ Quiet(AssistantMsg(<<>>))
  /\ Quiet(CheckpointMsg)
BY DEF Quiet, UserMsg, AssistantMsg, CheckpointMsg

(* What follows a message is not disturbed by a longer log.                 *)
LEMMA AnswersFollowGrow ==
  ASSUME NEW l \in Seq(Message), NEW t \in Seq(Message), NEW i \in 1 .. Len(l),
         AnswersFollow(l, i)
  PROVE  AnswersFollow(l \o t, i)
<1>1. (l \o t)[i] = l[i]
  OBVIOUS
<1>2. \A j \in DOMAIN l : j \in DOMAIN (l \o t) /\ (l \o t)[j] = l[j]
  OBVIOUS
<1> QED
  BY <1>1, <1>2 DEF AnswersFollow

LEMMA HasOwnerGrow ==
  ASSUME NEW l \in Seq(Message), NEW t \in Seq(Message), NEW j \in 1 .. Len(l),
         HasOwner(l, j)
  PROVE  HasOwner(l \o t, j)
<1>1. PICK i \in DOMAIN l : /\ l[i].role = "assistant"
                            /\ j - i \in 1 .. Len(l[i].calls)
                            /\ l[j] = ToolMsg(l[i].calls[j - i])
  BY DEF HasOwner
<1>2. i \in DOMAIN (l \o t) /\ (l \o t)[i] = l[i] /\ (l \o t)[j] = l[j]
  OBVIOUS
<1> QED
  BY <1>1, <1>2 DEF HasOwner

(* Quiet messages may follow a paired log.                                  *)
LEMMA PairedGrow ==
  ASSUME NEW l \in Seq(Message), NEW t \in Seq(Message), Paired(l),
         \A i \in DOMAIN t : Quiet(t[i])
  PROVE  Paired(l \o t)
<1>1. ASSUME NEW i \in DOMAIN (l \o t), i \notin DOMAIN l
      PROVE  Quiet((l \o t)[i])
  <2>1. i - Len(l) \in DOMAIN t /\ (l \o t)[i] = t[i - Len(l)]
    BY <1>1
  <2> QED
    BY <2>1
<1>2. \A i \in DOMAIN l : i \in 1 .. Len(l) /\ (l \o t)[i] = l[i]
  OBVIOUS
<1>3. ASSUME NEW i \in DOMAIN (l \o t), (l \o t)[i].role = "assistant"
      PROVE  AnswersFollow(l \o t, i)
  <2>1. CASE i \in DOMAIN l
    BY <1>2, <1>3, <2>1, AnswersFollowGrow DEF Paired
  <2>2. CASE i \notin DOMAIN l
    BY <1>1, <2>2 DEF Quiet, AnswersFollow
  <2> QED
    BY <2>1, <2>2
<1>4. ASSUME NEW j \in DOMAIN (l \o t), (l \o t)[j].role = "tool"
      PROVE  HasOwner(l \o t, j)
  <2>1. j \in DOMAIN l
    BY <1>1, <1>4 DEF Quiet
  <2> QED
    BY <1>2, <1>4, <2>1, HasOwnerGrow DEF Paired
<1> QED
  BY <1>3, <1>4 DEF Paired

LEMMA PairedAppend ==
  ASSUME NEW l \in Seq(Message), NEW m \in Message, Paired(l), Quiet(m)
  PROVE  Paired(Append(l, m))
<1>1. Append(l, m) = l \o <<m>> /\ <<m>> \in Seq(Message)
  OBVIOUS
<1>2. \A i \in DOMAIN <<m>> : Quiet(<<m>>[i])
  OBVIOUS
<1> QED
  BY <1>1, <1>2, PairedGrow

(* A cut never separates a call from its result.                            *)
LEMMA PairedCompacted ==
  ASSUME NEW l \in Seq(Message), NEW b \in CutPoints(l), Paired(l)
  PROVE  Paired(Compacted(l, b))
<1> DEFINE c == Compacted(l, b)
<1>0. Len(l) \in Nat /\ DOMAIN l = 1 .. Len(l) /\ \A i \in DOMAIN l : Len(l[i].calls) \in Nat
  BY DEF Message
<1>1. b \in 2 .. Len(l) /\ b \in Nat /\ l[b].role # "tool"
  BY DEF CutPoints
<1>2. Len(c) = Len(l) - b + 2 /\ DOMAIN c = 1 .. Len(l) - b + 2
  BY <1>1 DEF Compacted
<1>3. c[1] = CheckpointMsg /\ \A i \in 2 .. Len(c) : c[i] = l[b + i - 2]
  BY <1>1, <1>2 DEF Compacted
<1> HIDE DEF c
<1>4. ASSUME NEW i \in DOMAIN c, c[i].role = "assistant"
      PROVE  AnswersFollow(c, i)
  <2>1. i \in 2 .. Len(c) /\ b + i - 2 \in DOMAIN l
    BY <1>1, <1>2, <1>3, <1>4 DEF CheckpointMsg
  <2>2. c[i] = l[b + i - 2] /\ AnswersFollow(l, b + i - 2)
    BY <1>3, <1>4, <2>1 DEF Paired
  <2>3. ASSUME NEW k \in 1 .. Len(c[i].calls)
        PROVE  i + k \in DOMAIN c /\ c[i + k] = ToolMsg(c[i].calls[k])
    <3>1. b + i - 2 + k \in DOMAIN l /\ l[b + i - 2 + k] = ToolMsg(c[i].calls[k])
      BY <2>2, <2>3 DEF AnswersFollow
    <3>2. k \in Nat /\ i + k \in 2 .. Len(c)
      <4>1. Len(c[i].calls) \in Nat
        BY <1>0, <2>1, <2>2
      <4>2. k \in Nat /\ k >= 1
        BY <4>1
      <4>3. i \in Nat /\ i >= 2
        BY <2>1
      <4>4. b + i - 2 + k <= Len(l)
        BY <1>0, <3>1
      <4>5. i + k <= Len(l) - b + 2
        BY <1>0, <1>1, <4>2, <4>3, <4>4
      <4> QED
        BY <1>0, <1>1, <1>2, <4>2, <4>3, <4>5
    <3>3. b + (i + k) - 2 = b + i - 2 + k
      BY <1>1, <2>1, <3>2
    <3> QED
      BY <1>2, <1>3, <3>1, <3>2, <3>3
  <2> QED
    BY <2>3 DEF AnswersFollow
<1>5. ASSUME NEW j \in DOMAIN c, c[j].role = "tool"
      PROVE  HasOwner(c, j)
  <2> DEFINE jl == b + j - 2
  <2>1. j \in 2 .. Len(c) /\ jl \in DOMAIN l /\ c[j] = l[jl]
    <3>1. j \in 2 .. Len(c)
      BY <1>0, <1>1, <1>2, <1>3, <1>5 DEF CheckpointMsg
    <3>2. jl \in 1 .. Len(l)
      BY <1>0, <1>1, <1>2, <3>1
    <3> QED
      BY <1>0, <1>3, <3>1, <3>2
  <2>2. PICK i \in DOMAIN l : /\ l[i].role = "assistant"
                              /\ jl - i \in 1 .. Len(l[i].calls)
                              /\ l[jl] = ToolMsg(l[i].calls[jl - i])
    BY <1>5, <2>1 DEF Paired, HasOwner
  <2>3. i >= b
    <3> SUFFICES ASSUME i < b PROVE FALSE
      BY <1>1, <2>2
    <3>1. b <= jl
      BY <1>1, <2>1
    <3>2. b - i \in 1 .. Len(l[i].calls)
      <4> DEFINE n == Len(l[i].calls)
      <4>1. n \in Nat /\ i \in Nat /\ jl \in Nat
        BY <1>0, <2>1, <2>2
      <4>2. jl - i <= n
        BY <2>2, <4>1
      <4> HIDE DEF n, jl
      <4>3. b - i \in 1 .. n
        BY <1>1, <3>1, <4>1, <4>2
      <4> QED
        BY <4>3 DEF n
    <3>3. l[i + (b - i)] = ToolMsg(l[i].calls[b - i])
      BY <2>2, <3>2 DEF Paired, AnswersFollow
    <3>4. i + (b - i) = b
      BY <1>1
    <3> QED
      BY <1>1, <3>3, <3>4 DEF ToolMsg
  <2> DEFINE ic == i - b + 2
  <2>4. ic \in 2 .. Len(c) /\ b + ic - 2 = i /\ j - ic = jl - i
    <3>1. i \in Nat /\ i <= Len(l) /\ j \in Nat
      BY <1>0, <2>1, <2>2
    <3>2. ic \in 2 .. Len(c)
      BY <1>0, <1>1, <1>2, <2>3, <3>1
    <3>3. b + ic - 2 = i /\ j - ic = jl - i
      BY <1>1, <3>1
    <3> QED
      BY <3>2, <3>3
  <2>5. c[ic] = l[i]
    BY <1>3, <2>4
  <2> QED
    BY <1>2, <2>1, <2>2, <2>4, <2>5 DEF HasOwner
<1> QED
  BY <1>4, <1>5 DEF Paired, c

(* Stripping images touches user messages only.                             *)
LEMMA PairedStrip ==
  ASSUME NEW l \in Seq(Message), Paired(l)
  PROVE  Paired(StripImages(l))
<1> DEFINE s == StripImages(l)
<1>1. DOMAIN s = DOMAIN l /\ \A i \in DOMAIN l : s[i].role = l[i].role
  BY DEF StripImages, Message
<1>2. \A i \in DOMAIN l : l[i].role # "user" => s[i] = l[i]
  BY DEF StripImages
<1> HIDE DEF s
<1>3. ASSUME NEW i \in DOMAIN s, s[i].role = "assistant"
      PROVE  AnswersFollow(s, i)
  <2>1. s[i] = l[i] /\ AnswersFollow(l, i)
    BY <1>1, <1>2, <1>3 DEF Paired
  <2> QED
    BY <1>1, <1>2, <2>1 DEF AnswersFollow, ToolMsg
<1>4. ASSUME NEW j \in DOMAIN s, s[j].role = "tool"
      PROVE  HasOwner(s, j)
  <2>1. s[j] = l[j] /\ HasOwner(l, j)
    BY <1>1, <1>2, <1>4 DEF Paired
  <2> QED
    BY <1>1, <1>2, <2>1 DEF HasOwner
<1> QED
  BY <1>3, <1>4 DEF Paired, s

-----------------------------------------------------------------------------
Working == pc \in {"tools", "landing"}

(* A step outside a batch that leaves the log alone.                        *)
LEMMA IdleStep ==
  ASSUME WireInv, log' = log, ~Working, ~Working' PROVE WireInv'
BY DEF WireInv, WireShape, Working

(* A step outside a batch that leaves a paired log behind.                  *)
LEMMA PairedStep ==
  ASSUME Paired(log'), ~Working' PROVE WireInv'
BY DEF WireInv, WireShape, Working

(* A step inside a batch that lands nothing.                                *)
LEMMA BatchStep ==
  ASSUME WireInv, UNCHANGED <<log, batch, landed, chat, round>>,
         pc' = pc \/ (pc = "tools" /\ pc' = "landing")
  PROVE  WireInv'
<1>1. (Paired(log) => Paired(log)') /\ (Working <=> Working')
  BY DEF Working
<1>2. HalfAnswered => HalfAnswered'
  BY DEF HalfAnswered, Base, Id
<1> QED
  BY <1>1, <1>2 DEF WireInv, WireShape, Working

(* A reply with calls opens a batch behind a paired log.                    *)
LEMMA OpenBatch ==
  ASSUME TypeOK, WireInv, ReplyCalls PROVE WireInv'
<1>1. PICK b \in Batches :
        /\ batch' = b
        /\ log' = Append(log, AssistantMsg([k \in DOMAIN b |-> <<chat, round, k>>]))
  BY DEF ReplyCalls
<1> DEFINE m == AssistantMsg([k \in DOMAIN b |-> <<chat, round, k>>])
<1>2. m \in Message
  <2>1. b \in Seq(CallKinds)
    BY ConstantsAssumption
  <2> QED
    BY <2>1, CallIdsType, MessageTypes DEF TypeOK
<1>3. Paired(log) /\ pc' = "tools" /\ landed' = 0
  BY DEF ReplyCalls, WireInv, WireShape
<1>4. m = AssistantMsg([k \in DOMAIN batch |-> Id(k)])'
  BY <1>1 DEF ReplyCalls, Id
<1>a. log' = Append(log, m)
  BY <1>1
<1>b. log \in Seq(Message)
  BY DEF TypeOK
<1> HIDE DEF m
<1>5. log' = log \o <<m>> /\ <<m>> \in Seq(Message) /\ log \in Seq(Message) /\ DOMAIN log = 1 .. Len(log)
  BY <1>2, <1>a, <1>b
<1>6. Len(log') = Len(log) + 1 /\ log'[Len(log) + 1] = m /\ Len(log) \in Nat
  BY <1>2, <1>5
<1>7. \A i \in 1 .. Len(log) : log'[i] = log[i]
  BY <1>2, <1>5
<1>8. \A i \in 1 .. Len(log) : log[i].role = "assistant" => AnswersFollow(log', i)
  <2> SUFFICES ASSUME NEW i \in 1 .. Len(log), log[i].role = "assistant"
               PROVE  AnswersFollow(log', i)
    OBVIOUS
  <2>1. AnswersFollow(log, i)
    BY <1>3, <1>5 DEF Paired
  <2> QED
    BY <1>5, <2>1, AnswersFollowGrow
<1>9. \A j \in 1 .. Len(log) : log[j].role = "tool" => HasOwner(log', j)
  <2> SUFFICES ASSUME NEW j \in 1 .. Len(log), log[j].role = "tool"
               PROVE  HasOwner(log', j)
    OBVIOUS
  <2>1. HasOwner(log, j)
    BY <1>3, <1>5 DEF Paired
  <2> QED
    BY <1>5, <2>1, HasOwnerGrow
<1>10. m.role # "tool"
  BY DEF m, AssistantMsg
<1>11. Base' = Len(log) + 1 /\ landed' <= Len(batch')
  <2>1. batch' \in Seq(CallKinds)
    BY <1>1, ConstantsAssumption
  <2> QED
    BY <1>3, <1>6, <2>1 DEF Base
<1>12. HalfAnswered'
  BY <1>3, <1>4, <1>6, <1>7, <1>8, <1>9, <1>10, <1>11 DEF HalfAnswered
<1> QED
  BY <1>3, <1>12 DEF WireInv, WireShape

(* The next result lands at its place.                                      *)
LEMMA LandOne ==
  ASSUME TypeOK, WireInv, LandResult PROVE WireInv'
<1> DEFINE m == ToolMsg(Id(landed + 1))
<1>1. m \in Message
  BY IdType, MessageTypes DEF TypeOK
<1>2. HalfAnswered /\ pc = "landing" /\ pc' = "landing"
  BY DEF LandResult, WireInv
<1>3. log \in Seq(Message) /\ Len(log) \in Nat /\ landed \in Nat /\ Len(batch) \in Nat
  BY DEF TypeOK
<1>4. log' = Append(log, m) /\ landed' = landed + 1 /\ landed < Len(batch)
  BY DEF LandResult
<1>5. UNCHANGED <<batch, chat, round>>
  BY DEF LandResult
<1> HIDE DEF m
<1>6. log' = log \o <<m>> /\ <<m>> \in Seq(Message)
  BY <1>1, <1>3, <1>4
<1>7. Len(log') = Len(log) + 1 /\ log'[Len(log) + 1] = m /\ \A i \in 1 .. Len(log) : log'[i] = log[i]
  BY <1>1, <1>3, <1>4
<1>8. Base' = Base /\ Base \in 1 .. Len(log)
  BY <1>2, <1>3, <1>4, <1>7 DEF Base, HalfAnswered
<1>9. \A k \in 1 .. landed' : log'[Base' + k] = ToolMsg(Id(k))'
  <2> SUFFICES ASSUME NEW k \in 1 .. landed + 1
               PROVE  log'[Base + k] = ToolMsg(Id(k))
    BY <1>4, <1>5, <1>8 DEF Id
  <2>1. CASE k = landed + 1
    <3>1. Base + k = Len(log) + 1
      BY <1>3, <2>1 DEF Base
    <3> QED
      BY <1>7, <2>1, <3>1 DEF m
  <2>2. CASE k \in 1 .. landed
    <3>1. Base + k \in 1 .. Len(log)
      BY <1>3, <1>8, <2>2 DEF Base
    <3> QED
      BY <1>2, <1>7, <2>2, <3>1 DEF HalfAnswered
  <2> QED
    BY <1>3, <2>1, <2>2
<1>10. \A i \in 1 .. Base - 1 : log'[i].role = "assistant" => AnswersFollow(log', i)
  <2> SUFFICES ASSUME NEW i \in 1 .. Base - 1, log'[i].role = "assistant"
               PROVE  AnswersFollow(log', i)
    OBVIOUS
  <2>1. i \in 1 .. Len(log) /\ log'[i] = log[i]
    BY <1>3, <1>7, <1>8
  <2> QED
    BY <1>2, <1>3, <1>6, <2>1, AnswersFollowGrow DEF HalfAnswered
<1>11. \A j \in 1 .. Base : log'[j].role = "tool" => HasOwner(log', j)
  <2> SUFFICES ASSUME NEW j \in 1 .. Base, log'[j].role = "tool"
               PROVE  HasOwner(log', j)
    OBVIOUS
  <2>1. j \in 1 .. Len(log) /\ log'[j] = log[j]
    BY <1>3, <1>7, <1>8
  <2> QED
    BY <1>2, <1>3, <1>6, <2>1, HasOwnerGrow DEF HalfAnswered
<1>12. log'[Base] = AssistantMsg([k \in DOMAIN batch |-> Id(k)])'
  BY <1>2, <1>5, <1>7, <1>8 DEF HalfAnswered, Id
<1>13. landed' <= Len(batch') /\ Base' \in 1 .. Len(log') /\ pc' # "tools"
  BY <1>2, <1>3, <1>4, <1>5, <1>7, <1>8
<1>14. HalfAnswered'
  BY <1>8, <1>9, <1>10, <1>11, <1>12, <1>13 DEF HalfAnswered
<1> QED
  BY <1>2, <1>14 DEF WireInv, WireShape

(* When every result has landed the log is paired again.                    *)
LEMMA AllLanded ==
  ASSUME TypeOK, HalfAnswered, landed = Len(batch) PROVE Paired(log)
<1>1. log \in Seq(Message) /\ Len(log) \in Nat /\ landed \in Nat /\ DOMAIN log = 1 .. Len(log)
      /\ DOMAIN batch = 1 .. landed
  BY DEF TypeOK
<1>2. Base \in 1 .. Len(log) /\ Base + landed = Len(log)
  BY <1>1 DEF HalfAnswered, Base
<1>3. /\ log[Base].role = "assistant"
      /\ Len(log[Base].calls) = landed
      /\ \A k \in 1 .. landed : log[Base].calls[k] = Id(k)
  BY <1>1 DEF HalfAnswered, AssistantMsg
<1>4. \A k \in 1 .. landed : Base + k \in DOMAIN log /\ log[Base + k] = ToolMsg(log[Base].calls[k])
  BY <1>1, <1>2, <1>3 DEF HalfAnswered
<1>5. \A j \in DOMAIN log : j > Base => j - Base \in 1 .. landed /\ Base + (j - Base) = j
  BY <1>1, <1>2
<1>6. ASSUME NEW i \in DOMAIN log, log[i].role = "assistant"
      PROVE  AnswersFollow(log, i)
  <2>1. CASE i < Base
    BY <1>1, <1>2, <1>6, <2>1 DEF HalfAnswered
  <2>2. CASE i = Base
    BY <1>3, <1>4, <2>2 DEF AnswersFollow
  <2>3. CASE i > Base
    <3>1. log[i].role = "tool"
      <4> DEFINE k == i - Base
      <4>1. k \in 1 .. landed /\ Base + k = i
        BY <1>5, <2>3
      <4> HIDE DEF k
      <4>2. log[Base + k] = ToolMsg(log[Base].calls[k])
        BY <1>4, <4>1
      <4> QED
        BY <4>1, <4>2 DEF ToolMsg
    <3> QED
      BY <1>6, <3>1
  <2> QED
    BY <1>1, <1>2, <2>1, <2>2, <2>3
<1>7. ASSUME NEW j \in DOMAIN log, log[j].role = "tool"
      PROVE  HasOwner(log, j)
  <2>1. CASE j <= Base
    BY <1>1, <1>2, <1>7, <2>1 DEF HalfAnswered
  <2>2. CASE j > Base
    <3>1. j - Base \in 1 .. Len(log[Base].calls) /\ log[j] = ToolMsg(log[Base].calls[j - Base])
      BY <1>3, <1>4, <1>5, <2>2
    <3> QED
      BY <1>1, <1>2, <1>3, <3>1 DEF HasOwner
  <2> QED
    BY <1>1, <1>2, <2>1, <2>2
<1> QED
  BY <1>6, <1>7 DEF Paired

-----------------------------------------------------------------------------
LEMMA InitWire == ASSUME Init PROVE WireInv
BY DEF Init, WireInv, WireShape, Paired

(* Every step keeps the invariant.                                          *)
LEMMA NextWire == ASSUME TypeOK, WireInv, [Next]_vars PROVE WireInv'
<1>1. CASE StartChat
  <2>1. PICK body \in Body : log' = Append(log, UserMsg(body))
    BY <1>1 DEF StartChat
  <2>2. Paired(log) /\ ~Working'
    BY <1>1 DEF StartChat, WireInv, WireShape, Working
  <2> QED
    BY <2>1, <2>2, MessageTypes, QuietMessages, PairedAppend, PairedStep DEF TypeOK
<1>2. CASE \/ EndRounds \/ BeginCompaction \/ BeginRound \/ StopBeforeSend \/ Send
           \/ CompactionYieldsNothing \/ CompactionThrows \/ EmergencyFails
           \/ ReplyTruncated \/ ReplyEmpty \/ Overflow \/ ReplyFails \/ Wake
  <2>1. log' = log /\ ~Working
    BY <1>2 DEF EndRounds, BeginCompaction, BeginRound, StopBeforeSend, Send,
         CompactionYieldsNothing, CompactionThrows, EmergencyFails, ReplyTruncated, ReplyEmpty,
         Overflow, ReplyFails, Wake, Working
  <2>2. pc' \in {"settled", "compacting", "send", "awaiting", "sleeping", "emergency"}
    BY <1>2 DEF EndRounds, BeginCompaction, BeginRound, StopBeforeSend, Send,
         CompactionYieldsNothing, CompactionThrows, EmergencyFails, ReplyTruncated, ReplyEmpty,
         Overflow, ReplyFails, Wake, Settle
  <2> QED
    BY <2>1, <2>2, IdleStep DEF Working
<1>3. CASE CompactionSucceeds \/ EmergencySucceeds
  <2>1. PICK b \in CutPoints(log) : log' = Compacted(log, b)
    BY <1>3 DEF CompactionSucceeds, EmergencySucceeds
  <2>2. Paired(log) /\ ~Working'
    BY <1>3 DEF CompactionSucceeds, EmergencySucceeds, NextRound, WireInv, WireShape, Working
  <2> QED
    BY <2>1, <2>2, PairedCompacted, PairedStep DEF TypeOK
<1>4. CASE ReplyText \/ ReplyTruncatedAgain
  <2>1. log' = Append(log, AssistantMsg(<<>>)) /\ ~Working' /\ Paired(log)
    BY <1>4 DEF ReplyText, ReplyTruncatedAgain, Settle, WireInv, WireShape, Working
  <2> QED
    BY <2>1, FinalMsgType, QuietMessages, PairedAppend, PairedStep DEF TypeOK
<1>5. CASE ReplyCalls
  BY <1>5, OpenBatch
<1>6. CASE ImageRejected
  <2>1. log' = StripImages(log) /\ ~Working' /\ Paired(log)
    BY <1>6 DEF ImageRejected, NextRound, WireInv, WireShape, Working
  <2> QED
    BY <2>1, PairedStrip, PairedStep DEF TypeOK
<1>7. CASE StartCalls \/ BeginLanding \/ ImplStops \/ UNCHANGED vars
  <2>1. UNCHANGED <<log, batch, landed, chat, round>>
    BY <1>7 DEF StartCalls, BeginLanding, ImplStops, toolVars, vars
  <2>2. pc' = pc \/ (pc = "tools" /\ pc' = "landing")
    BY <1>7 DEF StartCalls, BeginLanding, ImplStops, vars
  <2> QED
    BY <2>1, <2>2, BatchStep
<1>8. ASSUME NEW k \in DOMAIN res, CallAnswers(k) \/ CallTimesOut(k) PROVE WireInv'
  <2>1. UNCHANGED <<log, batch, landed, chat, round, pc>>
    BY <1>8 DEF CallAnswers, CallTimesOut
  <2> QED
    BY <2>1, BatchStep
<1>9. CASE LandResult
  BY <1>9, LandOne
<1>10. CASE FinishBatch
  <2>1. HalfAnswered /\ landed = Len(batch)
    BY <1>10 DEF FinishBatch, WireInv
  <2>2. Paired(log) /\ log' = log \o ImageMsgs
    BY <1>10, <2>1, AllLanded DEF FinishBatch
  <2>3. \A i \in DOMAIN ImageMsgs : Quiet(ImageMsgs[i])
    BY QuietMessages DEF ImageMsgs
  <2>4. Paired(log')
    BY <2>2, <2>3, ImageMsgsType, PairedGrow DEF TypeOK
  <2>5. pc' \in {"settled", "round"}
    BY <1>10 DEF FinishBatch, Settle, NextRound
  <2> QED
    BY <2>4, <2>5, PairedStep DEF Working
<1>11. CASE Abort
  <2>1. UNCHANGED <<log, batch, landed, chat, round>>
    BY <1>11 DEF Abort
  <2>2. CASE pc = "sleeping"
    BY <1>11, <2>1, <2>2, IdleStep DEF Abort, Settle, Working
  <2>3. CASE pc # "sleeping"
    BY <1>11, <2>1, <2>3, BatchStep DEF Abort
  <2> QED
    BY <2>2, <2>3
<1> QED
  BY <1>1, <1>2, <1>3, <1>4, <1>5, <1>6, <1>7, <1>8, <1>9, <1>10, <1>11
  DEF Next, SyncStep, HandlerStep, ProviderStep, ToolStep

(* Whatever the provider, the tools, the compaction handler and a cancel    *)
(* do, a log at rest pairs every tool call with its results (Agent.ts       *)
(* 1396-1399 and 1441-1444), for any batches and any limits.                *)
THEOREM WireShapeHolds == Spec => []WireShape
<1>1. TypeOK /\ WireInv /\ [Next]_vars => TypeOK' /\ WireInv'
  BY NextType, NextWire
<1>2. Init => TypeOK /\ WireInv
  BY InitType, InitWire
<1>3. WireInv => WireShape
  BY DEF WireInv
<1> QED
  BY <1>1, <1>2, <1>3, PTL DEF Spec

-----------------------------------------------------------------------------
(* The circuit breaker.  An open circuit is never asked; an emergency may   *)
(* go past the limits, once.                                                *)
BoundInv ==
  /\ comp.tries <= MaxCompactions + comp.emergencies
  /\ comp.wasted <= MaxIneffective + comp.emergencies
  /\ comp.emergencies \in {0, 1}
  /\ pc = "compacting" => comp.tries < MaxCompactions /\ comp.wasted < MaxIneffective
  /\ pc = "emergency" => /\ comp.emergencies = 1
                         /\ comp.tries <= MaxCompactions /\ comp.wasted <= MaxIneffective

(* What the outcome of a compaction adds.                                   *)
LEMMA OutcomeBounds ==
  ASSUME NEW c \in Counters, NEW shrunk \in BOOLEAN
  PROVE  LET d == [RecordOutcome(c, shrunk) EXCEPT !.coolUntil = 0]
         IN  /\ d.tries = c.tries + 1
             /\ d.wasted = 0 \/ d.wasted = c.wasted + 1
             /\ d.emergencies = c.emergencies
BY DEF RecordOutcome, Counters

LEMMA NextBound == ASSUME TypeOK, BoundInv, [Next]_vars PROVE BoundInv'
<1>1. comp \in Counters /\ comp.tries \in Nat /\ comp.wasted \in Nat /\ comp.emergencies \in Nat
  BY DEF TypeOK, Counters
<1>2. MaxCompactions \in Nat /\ MaxIneffective \in Nat
  BY ConstantsAssumption
<1>3. CASE StartChat
  BY <1>2, <1>3 DEF StartChat, FreshCounters, BoundInv
<1>4. CASE BeginCompaction
  <2>1. comp' = comp /\ pc' = "compacting" /\ ~CircuitOpen
    BY <1>4 DEF BeginCompaction
  <2> QED
    BY <1>1, <1>2, <2>1 DEF CircuitOpen, BoundInv
<1>5. CASE CompactionSucceeds
  <2>1. PICK shrunk \in BOOLEAN : comp' = [RecordOutcome(comp, shrunk) EXCEPT !.coolUntil = 0]
    BY <1>5 DEF CompactionSucceeds
  <2>2. /\ comp'.tries = comp.tries + 1 /\ comp'.emergencies = comp.emergencies
        /\ comp'.wasted = 0 \/ comp'.wasted = comp.wasted + 1
    BY <1>1, <2>1, OutcomeBounds
  <2>3. pc = "compacting" /\ pc' = "send"
    BY <1>5 DEF CompactionSucceeds
  <2> QED
    BY <1>1, <1>2, <2>2, <2>3 DEF BoundInv
<1>6. CASE EmergencySucceeds
  <2>1. PICK shrunk \in BOOLEAN : comp' = [RecordOutcome(comp, shrunk) EXCEPT !.coolUntil = 0]
    BY <1>6 DEF EmergencySucceeds
  <2>2. /\ comp'.tries = comp.tries + 1 /\ comp'.emergencies = comp.emergencies
        /\ comp'.wasted = 0 \/ comp'.wasted = comp.wasted + 1
    BY <1>1, <2>1, OutcomeBounds
  <2>3. pc = "emergency" /\ pc' = "round"
    BY <1>6 DEF EmergencySucceeds, NextRound
  <2> QED
    BY <1>1, <1>2, <2>2, <2>3 DEF BoundInv
<1>7. CASE CompactionYieldsNothing
  <2>1. /\ comp'.tries = comp.tries + 1 /\ comp'.emergencies = comp.emergencies
        /\ comp'.wasted = comp.wasted
    BY <1>1, <1>7 DEF CompactionYieldsNothing, Counters
  <2>2. pc = "compacting" /\ pc' = "send"
    BY <1>7 DEF CompactionYieldsNothing
  <2> QED
    BY <1>1, <1>2, <2>1, <2>2 DEF BoundInv
<1>8. CASE EmergencyFails
  <2>1. PICK n \in {0, 1} : comp' = [comp EXCEPT !.tries = @ + n]
    BY <1>8 DEF EmergencyFails
  <2>2. /\ comp'.tries = comp.tries + n /\ comp'.emergencies = comp.emergencies
        /\ comp'.wasted = comp.wasted
    BY <1>1, <2>1 DEF Counters
  <2>3. pc = "emergency" /\ pc' = "settled"
    BY <1>8 DEF EmergencyFails, Settle
  <2> QED
    BY <1>1, <1>2, <2>2, <2>3 DEF BoundInv
<1>9. CASE Overflow
  <2>1. /\ comp'.tries = comp.tries /\ comp'.emergencies = 1 /\ comp'.wasted = comp.wasted
    BY <1>1, <1>9 DEF Overflow, Counters
  <2>2. comp.emergencies = 0 /\ pc' = "emergency"
    BY <1>9 DEF Overflow
  <2> QED
    BY <1>1, <1>2, <2>1, <2>2 DEF BoundInv
<1>10. CASE \/ EndRounds \/ BeginRound \/ StopBeforeSend \/ Send \/ CompactionThrows
            \/ ReplyText \/ ReplyCalls \/ ReplyTruncated \/ ReplyTruncatedAgain \/ ReplyEmpty
            \/ ImageRejected \/ ReplyFails \/ Wake \/ LandResult \/ FinishBatch
  <2>1. comp' = comp
    BY <1>10 DEF EndRounds, BeginRound, StopBeforeSend, Send, CompactionThrows, ReplyText,
         ReplyCalls, ReplyTruncated, ReplyTruncatedAgain, ReplyEmpty, ImageRejected, ReplyFails,
         Wake, LandResult, FinishBatch
  <2>2. pc' \notin {"compacting", "emergency"}
    BY <1>10 DEF EndRounds, BeginRound, StopBeforeSend, Send, CompactionThrows, ReplyText,
         ReplyCalls, ReplyTruncated, ReplyTruncatedAgain, ReplyEmpty, ImageRejected, ReplyFails,
         Wake, LandResult, FinishBatch, Settle, NextRound
  <2> QED
    BY <2>1, <2>2 DEF BoundInv
<1>11. CASE StartCalls \/ BeginLanding \/ ImplStops \/ Abort \/ UNCHANGED vars
  <2>1. comp' = comp
    BY <1>11 DEF StartCalls, BeginLanding, ImplStops, Abort, vars
  <2>2. pc' = pc \/ pc' \in {"landing", "settled"}
    BY <1>11 DEF StartCalls, BeginLanding, ImplStops, Abort, Settle, vars
  <2> QED
    BY <2>1, <2>2 DEF BoundInv
<1>12. ASSUME NEW k \in DOMAIN res, CallAnswers(k) \/ CallTimesOut(k) PROVE BoundInv'
  <2>1. comp' = comp /\ pc' = pc
    BY <1>12 DEF CallAnswers, CallTimesOut
  <2> QED
    BY <2>1 DEF BoundInv
<1> QED
  BY <1>3, <1>4, <1>5, <1>6, <1>7, <1>8, <1>9, <1>10, <1>11, <1>12
  DEF Next, SyncStep, HandlerStep, ProviderStep, ToolStep

(* One chat never pays for more compactions than its limits allow, plus the *)
(* single emergency one, however provider and handler behave.               *)
THEOREM CircuitBreakerHolds == Spec => []CompactionsBounded
<1>1. TypeOK /\ BoundInv /\ [Next]_vars => TypeOK' /\ BoundInv'
  BY NextType, NextBound
<1>2. Init => TypeOK /\ BoundInv
  <2>1. ASSUME Init PROVE BoundInv
    <3>1. comp.tries = 0 /\ comp.wasted = 0 /\ comp.emergencies = 0 /\ pc = "idle"
      BY <2>1 DEF Init, FreshCounters
    <3> QED
      BY <3>1, ConstantsAssumption DEF BoundInv
  <2> QED
    BY <2>1, InitType
<1>3. TypeOK /\ BoundInv => CompactionsBounded
  BY ConstantsAssumption DEF TypeOK, Counters, BoundInv, CompactionsBounded
<1> QED
  BY <1>1, <1>2, <1>3, PTL DEF Spec

-----------------------------------------------------------------------------
(* Tool implementations.  Calls run only while a batch is worked on.        *)
OrphanInv ==
  /\ OrphansSignalled
  /\ pc # "tools" => Running = {}

(* The next segment is a part of the batch.                                 *)
LEMMA SegmentInBatch ==
  ASSUME TypeOK PROVE NextSegment \subseteq DOMAIN res
<1>1. DOMAIN res = 1 .. Len(batch) /\ Len(batch) \in Nat
  BY ResDomain
<1>2. IsFiniteSet(1 .. Len(batch))
  BY <1>1, FS_Interval
<1>3. Cardinality(DOMAIN res \ Todo) \in Nat
  BY <1>1, <1>2, FS_Subset, FS_CardinalityType
<1> QED
  BY <1>1, <1>3 DEF NextSegment

(* Outside a batch, a step that leaves the implementations alone and runs   *)
(* no call.                                                                 *)
LEMMA NoneRunsStep ==
  ASSUME OrphanInv, UNCHANGED implVars, Running = {}, Running' = {} PROVE OrphanInv'
BY DEF OrphanInv, OrphansSignalled, implVars

LEMMA NextOrphan == ASSUME TypeOK, OrphanInv, [Next]_vars PROVE OrphanInv'
<1>0. DOMAIN res \subseteq Nat
  BY ResDomain
<1>1. CASE \/ StartChat \/ EndRounds \/ BeginCompaction \/ BeginRound \/ StopBeforeSend \/ Send
           \/ CompactionSucceeds \/ CompactionYieldsNothing \/ CompactionThrows
           \/ EmergencySucceeds \/ EmergencyFails \/ ReplyText \/ ReplyTruncated
           \/ ReplyTruncatedAgain \/ ReplyEmpty \/ Overflow \/ ImageRejected \/ ReplyFails
           \/ Wake \/ LandResult
  <2>1. UNCHANGED <<implVars, res>> /\ pc # "tools"
    BY <1>1 DEF StartChat, EndRounds, BeginCompaction, BeginRound, StopBeforeSend, Send,
         CompactionSucceeds, CompactionYieldsNothing, CompactionThrows, EmergencySucceeds,
         EmergencyFails, ReplyText, ReplyTruncated, ReplyTruncatedAgain, ReplyEmpty, Overflow,
         ImageRejected, ReplyFails, Wake, LandResult, toolVars
  <2>2. Running = {} /\ Running' = {}
    BY <2>1 DEF OrphanInv, Running
  <2> QED
    BY <2>1, <2>2, NoneRunsStep
<1>2. CASE ReplyCalls
  <2>1. UNCHANGED implVars /\ Running = {}
    BY <1>2 DEF ReplyCalls, OrphanInv
  <2>2. \A k \in DOMAIN res' : res'[k] = "todo"
    BY <1>2 DEF ReplyCalls
  <2>3. Running' = {}
    BY <2>2 DEF Running
  <2> QED
    BY <2>1, <2>3, NoneRunsStep
<1>3. CASE FinishBatch
  <2>1. UNCHANGED implVars /\ Running = {} /\ res' = <<>>
    BY <1>3 DEF FinishBatch, OrphanInv
  <2>2. Running' = {}
    BY <2>1 DEF Running
  <2> QED
    BY <2>1, <2>2, NoneRunsStep
<1>4. CASE BeginLanding
  <2>1. UNCHANGED <<implVars, res>> /\ Running = {}
    BY <1>4 DEF BeginLanding, toolVars
  <2>2. Running' = {}
    BY <2>1 DEF Running
  <2> QED
    BY <2>1, <2>2, NoneRunsStep
<1>5. CASE StartCalls
  <2>1. /\ live \subseteq signalled /\ signalled' = signalled
        /\ pc' = "tools" /\ chat' = chat /\ round' = round
    BY <1>5 DEF StartCalls, OrphanInv, OrphansSignalled
  <2>2. \A k \in NextSegment : batch[k] # "bad" => k \in Running'
    BY <1>5, SegmentInBatch DEF StartCalls, Running
  <2>3. \A id \in live' \ live : \E k \in Running' : id = Id(k)'
    BY <1>5, <2>1, <2>2 DEF StartCalls, Id
  <2> QED
    BY <2>1, <2>3 DEF OrphanInv, OrphansSignalled
<1>6. ASSUME NEW k \in DOMAIN res, CallAnswers(k) PROVE OrphanInv'
  <2>1. /\ live' = live \ {Id(k)} /\ signalled' = signalled
        /\ pc' = "tools" /\ chat' = chat /\ round' = round
        /\ DOMAIN res' = DOMAIN res
        /\ \A j \in DOMAIN res \ {k} : res'[j] = res[j]
    BY <1>6 DEF CallAnswers
  <2>2. Running \ {k} \subseteq Running'
    BY <2>1 DEF Running
  <2> QED
    BY <2>1, <2>2 DEF OrphanInv, OrphansSignalled, Id
<1>7. ASSUME NEW k \in DOMAIN res, CallTimesOut(k) PROVE OrphanInv'
  <2>1. /\ live' = live /\ signalled' = signalled \cup {Id(k)}
        /\ pc' = "tools" /\ chat' = chat /\ round' = round
        /\ DOMAIN res' = DOMAIN res
        /\ \A j \in DOMAIN res \ {k} : res'[j] = res[j]
    BY <1>7 DEF CallTimesOut
  <2>2. Running \ {k} \subseteq Running'
    BY <2>1 DEF Running
  <2> QED
    BY <2>1, <2>2 DEF OrphanInv, OrphansSignalled, Id
<1>8. CASE ImplStops
  <2>1. PICK id \in live \cap signalled : live' = live \ {id} /\ signalled' = signalled \ {id}
    BY <1>8 DEF ImplStops
  <2>2. UNCHANGED <<pc, res, chat, round>>
    BY <1>8 DEF ImplStops, toolVars
  <2> QED
    BY <2>1, <2>2 DEF OrphanInv, OrphansSignalled, Running, Id
<1>9. CASE Abort
  <2>1. /\ live' = live /\ signalled' = signalled \cup {Id(k) : k \in Running}
        /\ DOMAIN res' = DOMAIN res /\ \A k \in DOMAIN res : res'[k] # "run"
    BY <1>9 DEF Abort
  <2>2. Running' = {} /\ live' \subseteq signalled'
    BY <2>1 DEF OrphanInv, OrphansSignalled, Running
  <2> QED
    BY <2>2 DEF OrphanInv, OrphansSignalled
<1>10. CASE UNCHANGED vars
  BY <1>10 DEF vars, OrphanInv, OrphansSignalled, Running, Id
<1> QED
  BY <1>1, <1>2, <1>3, <1>4, <1>5, <1>6, <1>7, <1>8, <1>9, <1>10
  DEF Next, SyncStep, HandlerStep, ProviderStep, ToolStep

(* Whichever of answer, time-out and cancel comes first, an implementation  *)
(* that outlives its call has been told to stop, in its own chat and in     *)
(* every later one, for any batches and any chunk size.                     *)
THEOREM OrphansSignalledHolds == Spec => []OrphansSignalled
<1>1. TypeOK /\ OrphanInv /\ [Next]_vars => TypeOK' /\ OrphanInv'
  BY NextType, NextOrphan
<1>2. Init => TypeOK /\ OrphanInv
  <2>1. ASSUME Init PROVE OrphanInv
    <3>1. live = {} /\ res = <<>>
      BY <2>1 DEF Init
    <3> QED
      BY <3>1 DEF OrphanInv, OrphansSignalled, Running
  <2> QED
    BY <2>1, InitType
<1>3. OrphanInv => OrphansSignalled
  BY DEF OrphanInv
<1> QED
  BY <1>1, <1>2, <1>3, PTL DEF Spec

-----------------------------------------------------------------------------
(* What a request ends with.  Waiting(l): log l ends with a message the     *)
(* model is to answer.                                                      *)
Waiting(l) == l # <<>> /\ l[Len(l)].role \in {"user", "tool"}

AsksInv ==
  /\ pc \in {"round", "compacting", "send", "awaiting", "sleeping", "emergency"} => Waiting(log)
  /\ pc \in {"tools", "landing"} => batch # <<>>

(* A compaction keeps the last message.                                     *)
LEMMA WaitingCompacted ==
  ASSUME NEW l \in Seq(Message), NEW b \in CutPoints(l), Waiting(l)
  PROVE  Waiting(Compacted(l, b))
<1> DEFINE c == Compacted(l, b)
<1>1. Len(l) \in Nat /\ b \in 2 .. Len(l)
  BY DEF CutPoints
<1>2. c = <<CheckpointMsg>> \o SubSeq(l, b, Len(l))
  BY DEF Compacted
<1>3. Len(c) = Len(l) - b + 2 /\ Len(c) >= 2
  BY <1>1, <1>2
<1>4. c[Len(c)] = l[Len(l)]
  BY <1>1, <1>2, <1>3
<1>5. c # <<>>
  BY <1>2, <1>3
<1> QED
  BY <1>4, <1>5 DEF Waiting

(* Stripping images keeps every role.                                       *)
LEMMA WaitingStrip ==
  ASSUME NEW l \in Seq(Message), Waiting(l) PROVE Waiting(StripImages(l))
<1> DEFINE s == StripImages(l)
<1>1. DOMAIN s = DOMAIN l /\ \A i \in DOMAIN l : s[i].role = l[i].role
  BY DEF StripImages, Message
<1>2. s \in Seq(Message) /\ Len(s) = Len(l)
  BY StripType DEF StripImages
<1>3. Len(l) \in DOMAIN l
  BY DEF Waiting
<1>4. s # <<>>
  BY <1>2, <1>3
<1> QED
  BY <1>1, <1>2, <1>3, <1>4 DEF Waiting

(* When every result of a batch has landed the log ends with the last one,  *)
(* or with an image behind it.                                              *)
LEMMA WaitingLanded ==
  ASSUME TypeOK, HalfAnswered, landed = Len(batch), batch # <<>>
  PROVE  Waiting(log \o ImageMsgs)
<1> DEFINE n == Len(ImageMsgs)
<1>1. log \in Seq(Message) /\ Len(log) \in Nat /\ landed \in Nat /\ landed >= 1
  BY DEF TypeOK
<1>2. log[Base + landed] = ToolMsg(Id(landed)) /\ Base + landed = Len(log) /\ Len(log) >= 1
  BY <1>1 DEF HalfAnswered, Base
<1>3. log[Len(log)].role = "tool"
  BY <1>2 DEF ToolMsg
<1>4. ImageMsgs \in Seq(Message) /\ n \in Nat
  BY ImageMsgsType
<1>5. \A i \in 1 .. n : ImageMsgs[i].role = "user"
  <2>1. \A i \in DOMAIN ImageMsgs : ImageMsgs[i] = UserMsg("image")
    BY DEF ImageMsgs
  <2>2. UserMsg("image").role = "user"
    BY DEF UserMsg
  <2>3. DOMAIN ImageMsgs = 1 .. n
    BY <1>4
  <2> QED
    BY <2>1, <2>2, <2>3
<1> HIDE DEF n
<1>6. Len(log \o ImageMsgs) = Len(log) + n
  BY <1>1, <1>4 DEF n
<1>7. CASE n = 0
  <2>1. (log \o ImageMsgs)[Len(log)] = log[Len(log)]
    BY <1>1, <1>2, <1>4
  <2> QED
    BY <1>1, <1>2, <1>3, <1>4, <1>6, <1>7, <2>1 DEF Waiting
<1>8. CASE n > 0
  <2>1. (log \o ImageMsgs)[Len(log) + n] = ImageMsgs[n]
    BY <1>1, <1>4, <1>8 DEF n
  <2> QED
    BY <1>1, <1>2, <1>4, <1>5, <1>6, <1>8, <2>1 DEF Waiting
<1> QED
  BY <1>4, <1>7, <1>8

(* Steps that leave the log alone and begin nothing that needs it to wait.  *)
LEMMA AsksStep ==
  ASSUME AsksInv, UNCHANGED log,
         \/ pc' = "settled"
         \/ /\ pc \in {"round", "compacting", "send", "awaiting", "sleeping", "emergency"}
            /\ pc' \in {"compacting", "send", "awaiting", "sleeping", "emergency"}
         \/ batch' = batch /\ (pc' = pc \/ (pc = "tools" /\ pc' = "landing"))
  PROVE  AsksInv'
BY DEF AsksInv

LEMMA NextAsks == ASSUME TypeOK, WireInv, AsksInv, [Next]_vars PROVE AsksInv'
<1>0. log \in Seq(Message)
  BY DEF TypeOK
<1>1. CASE StartChat
  <2>1. PICK body \in Body : log' = Append(log, UserMsg(body))
    BY <1>1 DEF StartChat
  <2>2. UserMsg(body) \in Message /\ UserMsg(body).role = "user"
    BY MessageTypes DEF UserMsg
  <2>3. Waiting(log')
    BY <1>0, <2>1, <2>2 DEF Waiting
  <2> QED
    BY <1>1, <2>3 DEF StartChat, AsksInv
<1>2. CASE \/ EndRounds \/ BeginCompaction \/ BeginRound \/ StopBeforeSend \/ Send
           \/ CompactionYieldsNothing \/ CompactionThrows \/ EmergencyFails
           \/ ReplyTruncated \/ ReplyEmpty \/ Overflow \/ ReplyFails \/ Wake
  <2>1. log' = log
    BY <1>2 DEF EndRounds, BeginCompaction, BeginRound, StopBeforeSend, Send,
         CompactionYieldsNothing, CompactionThrows, EmergencyFails, ReplyTruncated, ReplyEmpty,
         Overflow, ReplyFails, Wake
  <2>2. \/ pc' = "settled"
        \/ /\ pc \in {"round", "compacting", "send", "awaiting", "sleeping", "emergency"}
           /\ pc' \in {"compacting", "send", "awaiting", "sleeping", "emergency"}
    BY <1>2 DEF EndRounds, BeginCompaction, BeginRound, StopBeforeSend, Send,
         CompactionYieldsNothing, CompactionThrows, EmergencyFails, ReplyTruncated, ReplyEmpty,
         Overflow, ReplyFails, Wake, Settle
  <2> QED
    BY <2>1, <2>2, AsksStep
<1>3. CASE CompactionSucceeds \/ EmergencySucceeds
  <2>1. PICK b \in CutPoints(log) : log' = Compacted(log, b)
    BY <1>3 DEF CompactionSucceeds, EmergencySucceeds
  <2>2. Waiting(log) /\ pc' \in {"send", "round"}
    BY <1>3 DEF CompactionSucceeds, EmergencySucceeds, NextRound, AsksInv
  <2>3. Waiting(log')
    BY <1>0, <2>1, <2>2, WaitingCompacted
  <2> QED
    BY <2>2, <2>3 DEF AsksInv
<1>4. CASE ReplyText \/ ReplyTruncatedAgain
  BY <1>4 DEF ReplyText, ReplyTruncatedAgain, Settle, AsksInv
<1>5. CASE ReplyCalls
  <2>1. pc' = "tools" /\ batch' \in Batches
    BY <1>5 DEF ReplyCalls
  <2> QED
    BY <2>1, ConstantsAssumption DEF AsksInv
<1>6. CASE ImageRejected
  <2>1. log' = StripImages(log) /\ Waiting(log) /\ pc' = "round"
    BY <1>6 DEF ImageRejected, NextRound, AsksInv
  <2> QED
    BY <1>0, <2>1, WaitingStrip DEF AsksInv
<1>7. CASE StartCalls \/ BeginLanding \/ ImplStops \/ UNCHANGED vars
  <2>1. UNCHANGED <<log, batch>>
    BY <1>7 DEF StartCalls, BeginLanding, ImplStops, toolVars, vars
  <2>2. pc' = pc \/ (pc = "tools" /\ pc' = "landing")
    BY <1>7 DEF StartCalls, BeginLanding, ImplStops, vars
  <2> QED
    BY <2>1, <2>2, AsksStep
<1>8. ASSUME NEW k \in DOMAIN res, CallAnswers(k) \/ CallTimesOut(k) PROVE AsksInv'
  <2>1. UNCHANGED <<log, batch, pc>>
    BY <1>8 DEF CallAnswers, CallTimesOut
  <2> QED
    BY <2>1, AsksStep
<1>9. CASE LandResult
  BY <1>9 DEF LandResult, AsksInv
<1>10. CASE FinishBatch
  <2>1. HalfAnswered /\ landed = Len(batch) /\ batch # <<>> /\ log' = log \o ImageMsgs
    BY <1>10 DEF FinishBatch, WireInv, AsksInv
  <2>2. Waiting(log')
    BY <2>1, WaitingLanded
  <2>3. pc' \in {"settled", "round"}
    BY <1>10 DEF FinishBatch, Settle, NextRound
  <2> QED
    BY <2>2, <2>3 DEF AsksInv
<1>11. CASE Abort
  <2>1. UNCHANGED <<log, batch>> /\ (pc' = pc \/ pc' = "settled")
    BY <1>11 DEF Abort, Settle
  <2> QED
    BY <2>1, AsksStep
<1> QED
  BY <1>1, <1>2, <1>3, <1>4, <1>5, <1>6, <1>7, <1>8, <1>9, <1>10, <1>11
  DEF Next, SyncStep, HandlerStep, ProviderStep, ToolStep

(* The model is always asked to answer a user or a tool: no compaction, no  *)
(* stripped image and no end of an earlier chat leaves a request that ends  *)
(* with the model's own words, for any batches and limits.                  *)
THEOREM AsksForAnswerHolds == Spec => []AsksForAnswer
<1>1. TypeOK /\ WireInv /\ AsksInv /\ [Next]_vars => TypeOK' /\ WireInv' /\ AsksInv'
  BY NextType, NextWire, NextAsks
<1>2. Init => TypeOK /\ WireInv /\ AsksInv
  <2>1. ASSUME Init PROVE AsksInv
    BY <2>1 DEF Init, AsksInv
  <2> QED
    BY <2>1, InitType, InitWire
<1>3. AsksInv => AsksForAnswer
  BY DEF AsksInv, AsksForAnswer, Waiting
<1> QED
  BY <1>1, <1>2, <1>3, PTL DEF Spec

-----------------------------------------------------------------------------
(* Exclusive.  A batch is worked off from its head, one segment at a time:  *)
(* what was begun is a prefix of it, and the calls that run are of the last *)
(* segment.  A call that may ask the user is a segment of its own, so when  *)
(* it does ask nothing behind it has been begun.                            *)
SegmentInv ==
  /\ \A k \in DOMAIN res : res[k] # "todo" => \A j \in 1 .. k : res[j] # "todo"
  /\ \E f \in Nat : Running \subseteq f .. (f + ChunkSize - 1)
  /\ \A k \in Running : (\E j \in Running : j # k) => batch[k] = "safe"
  /\ \A k \in Running : batch[k] = "serial" => \A j \in DOMAIN res : j > k => res[j] = "todo"
  /\ \A k \in DOMAIN res : res[k] = "question" => \A j \in DOMAIN res : j > k => res[j] = "todo"

(* The calls begun are the first so many of the batch.                      *)
LEMMA BegunIsPrefix ==
  ASSUME TypeOK, SegmentInv
  PROVE  /\ Cardinality(DOMAIN res \ Todo) \in Nat
         /\ DOMAIN res \ Todo = 1 .. Cardinality(DOMAIN res \ Todo)
<1> DEFINE begun == DOMAIN res \ Todo
           n == Cardinality(begun)
<1>1. DOMAIN res = 1 .. Len(batch) /\ Len(batch) \in Nat
  BY ResDomain
<1>2. IsFiniteSet(begun) /\ n \in Nat
  <2>1. IsFiniteSet(1 .. Len(batch))
    BY <1>1, FS_Interval
  <2>2. begun \in SUBSET (1 .. Len(batch))
    BY <1>1
  <2>3. IsFiniteSet(begun)
    BY <2>1, <2>2, FS_Subset
  <2> QED
    BY <2>3, FS_CardinalityType
<1>3. \A k \in begun : k \in 1 .. Len(batch) /\ 1 .. k \subseteq begun
  BY <1>1 DEF SegmentInv, Todo
<1> HIDE DEF begun
<1>4. \A k \in begun : k <= n
  <2>1. SUFFICES ASSUME NEW k \in begun PROVE k <= n
    OBVIOUS
  <2>2. k \in Nat /\ k >= 1 /\ 1 .. k \in SUBSET begun
    BY <1>3, <2>1
  <2>3. Cardinality(1 .. k) = k
    BY <2>2, FS_Interval
  <2>4. Cardinality(1 .. k) <= n
    BY <1>2, <2>2, FS_Subset
  <2> QED
    BY <2>3, <2>4
<1>5. begun \subseteq 1 .. n
  BY <1>1, <1>2, <1>3, <1>4
<1>6. IsFiniteSet(1 .. n) /\ Cardinality(1 .. n) = n
  BY <1>2, FS_Interval
<1>7. begun = 1 .. n
  BY <1>5, <1>6, FS_Subset
<1> QED
  BY <1>2, <1>7 DEF begun

(* A step that settles calls of the batch, begins none and lets only a      *)
(* serial call ask.                                                         *)
LEMMA SettlingStep ==
  ASSUME TypeOK, SegmentInv, batch' = batch, DOMAIN res' = DOMAIN res,
         \A k \in DOMAIN res :
            \/ res'[k] = res[k]
            \/ /\ res[k] = "run" /\ res'[k] \notin {"todo", "run"}
               /\ res'[k] = "question" => batch[k] = "serial"
  PROVE  SegmentInv'
<1>1. Running' \subseteq Running
  BY DEF Running
<1>2. \A k \in DOMAIN res : res'[k] = "todo" <=> res[k] = "todo"
  OBVIOUS
<1>3. \A k \in DOMAIN res : res'[k] = "question" =>
        res[k] = "question" \/ (k \in Running /\ batch[k] = "serial")
  BY DEF Running
<1>4. DOMAIN res = 1 .. Len(batch) /\ Len(batch) \in Nat
  BY ResDomain
<1>5. \A k \in DOMAIN res' : res'[k] # "todo" => \A j \in 1 .. k : res'[j] # "todo"
  BY <1>2, <1>4 DEF SegmentInv
<1>6. \E f \in Nat : Running' \subseteq f .. (f + ChunkSize - 1)
  BY <1>1 DEF SegmentInv
<1>7. \A k \in Running' : (\E j \in Running' : j # k) => batch'[k] = "safe"
  BY <1>1 DEF SegmentInv
<1>8. \A k \in Running' : batch'[k] = "serial" => \A j \in DOMAIN res' : j > k => res'[j] = "todo"
  BY <1>1, <1>2 DEF SegmentInv
<1>9. \A k \in DOMAIN res' : res'[k] = "question" => \A j \in DOMAIN res' : j > k => res'[j] = "todo"
  BY <1>2, <1>3 DEF SegmentInv
<1> QED
  BY <1>5, <1>6, <1>7, <1>8, <1>9 DEF SegmentInv

(* Starting the next segment: it begins right behind what was begun, and    *)
(* either it is one call or every call in it is parallel-safe.              *)
LEMMA StartStep ==
  ASSUME TypeOK, SegmentInv, StartCalls PROVE SegmentInv'
<1> DEFINE n == Cardinality(DOMAIN res \ Todo)
           first == n + 1
<1>1. DOMAIN res = 1 .. Len(batch) /\ Len(batch) \in Nat /\ ChunkSize \in Nat \ {0}
  BY ResDomain, ConstantsAssumption
<1>2. n \in Nat /\ DOMAIN res \ Todo = 1 .. n
  BY BegunIsPrefix
<1>3. NextSegment = {k \in first .. Len(batch) :
         \/ k = first
         \/ k < first + ChunkSize /\ \A j \in first .. k : batch[j] = "safe"}
  BY DEF NextSegment
<1>4. /\ Running = {} /\ ~Asked /\ batch' = batch
      /\ res' = [k \in DOMAIN res |->
               IF k \notin NextSegment THEN res[k]
               ELSE IF batch[k] = "bad" THEN "err" ELSE "run"]
  BY DEF StartCalls
<1> HIDE DEF n
<1>5. /\ NextSegment \subseteq first .. (first + ChunkSize - 1)
      /\ NextSegment \subseteq DOMAIN res
      /\ \A k \in NextSegment : first .. k \subseteq NextSegment
      /\ \A k \in NextSegment : k # first => \A j \in first .. k : batch[j] = "safe"
  BY <1>1, <1>2, <1>3
<1>6. DOMAIN res' = DOMAIN res
  BY <1>4
<1>7. \A k \in DOMAIN res : res'[k] # "todo" <=> k \in 1 .. n \/ k \in NextSegment
  BY <1>2, <1>4 DEF Todo
<1>8. Running' \subseteq NextSegment
  BY <1>4, <1>6 DEF Running
<1>9. \A k \in DOMAIN res' : res'[k] # "todo" => \A j \in 1 .. k : res'[j] # "todo"
  <2>1. SUFFICES ASSUME NEW k \in DOMAIN res, res'[k] # "todo", NEW j \in 1 .. k
                 PROVE  res'[j] # "todo"
    BY <1>6
  <2>2. j \in DOMAIN res
    BY <1>1
  <2>3. j \in 1 .. n \/ j \in NextSegment
    <3>1. k \in 1 .. n \/ k \in NextSegment
      BY <1>7, <2>1
    <3>2. CASE k \in 1 .. n
      BY <1>2, <3>2
    <3>3. CASE k \in NextSegment /\ j >= first
      BY <1>1, <1>2, <1>5, <3>3, <2>2
    <3>4. CASE k \in NextSegment /\ ~(j >= first)
      BY <1>1, <1>2, <3>4, <2>2
    <3> QED
      BY <3>1, <3>2, <3>3, <3>4
  <2> QED
    BY <1>7, <2>2, <2>3
<1>10. \E f \in Nat : Running' \subseteq f .. (f + ChunkSize - 1)
  BY <1>2, <1>5, <1>8
<1>11. \A k \in Running' : (\E j \in Running' : j # k) => batch'[k] = "safe"
  <2>1. SUFFICES ASSUME NEW k \in NextSegment, NEW j \in NextSegment, j # k
                 PROVE  batch[k] = "safe"
    BY <1>4, <1>8
  <2>2. j \in Nat /\ k \in Nat /\ j >= first /\ k >= first
    <3>1. j \in first .. (first + ChunkSize - 1) /\ k \in first .. (first + ChunkSize - 1)
      BY <1>5, <2>1
    <3> QED
      BY <1>1, <1>2, <3>1
  <2>3. CASE k # first
    BY <1>2, <1>5, <2>2, <2>3
  <2>4. CASE k = first
    BY <1>2, <1>5, <2>1, <2>2, <2>4
  <2> QED
    BY <2>3, <2>4
<1>12. \A k \in Running' : batch'[k] = "serial" =>
         \A j \in DOMAIN res' : j > k => res'[j] = "todo"
  <2>1. SUFFICES ASSUME NEW k \in NextSegment, batch[k] = "serial", NEW j \in DOMAIN res, j > k
                 PROVE  res'[j] = "todo"
    BY <1>4, <1>6, <1>8
  <2>2. j \in Nat /\ k \in Nat /\ k >= first
    <3>1. k \in first .. (first + ChunkSize - 1)
      BY <1>5, <2>1
    <3> QED
      BY <1>1, <1>2, <2>1, <3>1
  <2>5. k = first
    <3>1. k \in first .. k
      BY <2>2
    <3> QED
      BY <1>5, <2>1, <3>1
  <2>3. j \notin 1 .. n
    BY <1>2, <2>1, <2>2, <2>5
  <2>4. j \notin NextSegment
    BY <1>2, <1>5, <2>1, <2>2, <2>5
  <2> QED
    BY <1>7, <2>1, <2>3, <2>4
<1>13. \A k \in DOMAIN res' : res'[k] # "question"
  BY <1>4, <1>6 DEF Asked
<1> QED
  BY <1>9, <1>10, <1>11, <1>12, <1>13 DEF SegmentInv

(* A batch of which nothing has begun.                                      *)
LEMMA FreshBatchStep ==
  ASSUME \A k \in DOMAIN res' : res'[k] = "todo" PROVE SegmentInv'
<1>1. Running' = {}
  BY DEF Running
<1>2. \E f \in Nat : Running' \subseteq f .. (f + ChunkSize - 1)
  BY <1>1
<1> QED
  BY <1>1, <1>2 DEF SegmentInv

LEMMA NextSegmentInv == ASSUME TypeOK, SegmentInv, [Next]_vars PROVE SegmentInv'
<1>1. CASE \/ StartChat \/ EndRounds \/ BeginCompaction \/ BeginRound \/ StopBeforeSend \/ Send
           \/ CompactionSucceeds \/ CompactionYieldsNothing \/ CompactionThrows
           \/ EmergencySucceeds \/ EmergencyFails \/ ReplyText \/ ReplyTruncated
           \/ ReplyTruncatedAgain \/ ReplyEmpty \/ Overflow \/ ImageRejected \/ ReplyFails
           \/ Wake \/ LandResult \/ BeginLanding \/ ImplStops \/ UNCHANGED vars
  <2>1. UNCHANGED <<batch, res>>
    BY <1>1 DEF StartChat, EndRounds, BeginCompaction, BeginRound, StopBeforeSend, Send,
         CompactionSucceeds, CompactionYieldsNothing, CompactionThrows, EmergencySucceeds,
         EmergencyFails, ReplyText, ReplyTruncated, ReplyTruncatedAgain, ReplyEmpty, Overflow,
         ImageRejected, ReplyFails, Wake, LandResult, BeginLanding, ImplStops, toolVars, vars
  <2> QED
    BY <2>1, SettlingStep
<1>2. CASE ReplyCalls
  BY <1>2, FreshBatchStep DEF ReplyCalls
<1>3. CASE FinishBatch
  <2>1. res' = <<>>
    BY <1>3 DEF FinishBatch
  <2> QED
    BY <2>1, FreshBatchStep
<1>4. CASE StartCalls
  BY <1>4, StartStep
<1>5. ASSUME NEW k \in DOMAIN res, CallAnswers(k) PROVE SegmentInv'
  <2>1. PICK o \in {"ok", "img", "err"} \cup (IF batch[k] = "serial" THEN {"question"} ELSE {}) :
          res' = [res EXCEPT ![k] = o]
    BY <1>5 DEF CallAnswers
  <2>2. /\ DOMAIN res' = DOMAIN res /\ batch' = batch /\ res[k] = "run" /\ res'[k] = o
        /\ \A j \in DOMAIN res \ {k} : res'[j] = res[j]
    BY <1>5, <2>1 DEF CallAnswers, Running
  <2>3. o \notin {"todo", "run"} /\ (o = "question" => batch[k] = "serial")
    BY <2>1
  <2> QED
    BY <2>2, <2>3, SettlingStep
<1>6. ASSUME NEW k \in DOMAIN res, CallTimesOut(k) PROVE SegmentInv'
  <2>1. /\ DOMAIN res' = DOMAIN res /\ batch' = batch /\ res[k] = "run" /\ res'[k] = "err"
        /\ \A j \in DOMAIN res \ {k} : res'[j] = res[j]
    BY <1>6 DEF CallTimesOut, Running
  <2> QED
    BY <2>1, SettlingStep
<1>7. CASE Abort
  <2>1. /\ DOMAIN res' = DOMAIN res /\ batch' = batch
        /\ \A k \in DOMAIN res : res'[k] = IF res[k] = "run" THEN "err" ELSE res[k]
    BY <1>7 DEF Abort
  <2> QED
    BY <2>1, SettlingStep
<1> QED
  BY <1>1, <1>2, <1>3, <1>4, <1>5, <1>6, <1>7
  DEF Next, SyncStep, HandlerStep, ProviderStep, ToolStep

(* The last segment is at most a chunk, and of safe calls if it is several. *)
LEMMA SegmentsExclusive ==
  ASSUME TypeOK, SegmentInv PROVE Exclusive
<1>1. PICK f \in Nat : Running \subseteq f .. (f + ChunkSize - 1)
  BY DEF SegmentInv
<1>2. ChunkSize \in Nat \ {0}
  BY ConstantsAssumption
<1>3. /\ IsFiniteSet(f .. (f + ChunkSize - 1))
      /\ Cardinality(f .. (f + ChunkSize - 1)) = ChunkSize
  BY <1>2, FS_Interval
<1>4. Cardinality(Running) <= ChunkSize
  BY <1>1, <1>3, FS_Subset
<1>5. ASSUME Cardinality(Running) > 1, NEW k \in Running PROVE batch[k] = "safe"
  <2>1. Running # {k}
    <3>1. Cardinality({k}) = 1
      BY FS_Singleton
    <3> QED
      BY <3>1, <1>5
  <2>2. \E j \in Running : j # k
    BY <2>1
  <2> QED
    BY <2>2 DEF SegmentInv
<1> QED
  BY <1>4, <1>5 DEF Exclusive, SegmentInv

(* Only parallel-safe calls overlap, never more than a chunk of them, and   *)
(* nothing is begun past a question, for any batches and any chunk size.    *)
THEOREM ExclusiveHolds == Spec => []Exclusive
<1>1. TypeOK /\ SegmentInv /\ [Next]_vars => TypeOK' /\ SegmentInv'
  BY NextType, NextSegmentInv
<1>2. Init => TypeOK /\ SegmentInv
  <2>1. ASSUME Init PROVE SegmentInv
    <3>1. res = <<>> /\ Running = {}
      BY <2>1 DEF Init, Running
    <3> QED
      BY <3>1 DEF SegmentInv
  <2> QED
    BY <2>1, InitType
<1>3. TypeOK /\ SegmentInv => Exclusive
  BY SegmentsExclusive
<1> QED
  BY <1>1, <1>2, <1>3, PTL DEF Spec

-----------------------------------------------------------------------------
(* Only the start of a segment runs an implementation, and it looks at the  *)
(* signal first, after every segment, for any batches and any chunk size.   *)
THEOREM NoStartAfterAbortHolds == Spec => NoStartAfterAbort
<1>1. ASSUME [Next]_vars, aborted PROVE live' \subseteq live
  <2>1. CASE \/ StartChat \/ EndRounds \/ BeginCompaction \/ BeginRound \/ StopBeforeSend \/ Send
             \/ CompactionSucceeds \/ CompactionYieldsNothing \/ CompactionThrows
             \/ EmergencySucceeds \/ EmergencyFails \/ ReplyText \/ ReplyCalls \/ ReplyTruncated
             \/ ReplyTruncatedAgain \/ ReplyEmpty \/ Overflow \/ ImageRejected \/ ReplyFails
             \/ Wake \/ BeginLanding \/ LandResult \/ FinishBatch \/ Abort \/ UNCHANGED vars
    BY <2>1 DEF StartChat, EndRounds, BeginCompaction, BeginRound, StopBeforeSend, Send,
         CompactionSucceeds, CompactionYieldsNothing, CompactionThrows, EmergencySucceeds,
         EmergencyFails, ReplyText, ReplyCalls, ReplyTruncated, ReplyTruncatedAgain, ReplyEmpty,
         Overflow, ImageRejected, ReplyFails, Wake, BeginLanding, LandResult, FinishBatch, Abort,
         implVars, vars
  <2>2. CASE StartCalls
    BY <1>1, <2>2 DEF StartCalls
  <2>3. CASE ToolStep \/ ImplStops
    BY <2>3 DEF ToolStep, CallAnswers, CallTimesOut, ImplStops
  <2> QED
    BY <1>1, <2>1, <2>2, <2>3 DEF Next, SyncStep, HandlerStep, ProviderStep
<1>2. [Next]_vars => [aborted /\ aborted' => live' \subseteq live]_vars
  BY <1>1
<1> QED
  BY <1>2, PTL DEF Spec, NoStartAfterAbort

(* A step that adds messages at the end of the log.                         *)
LEMMA AddedBehind ==
  ASSUME NEW l \in Seq(Message), NEW m \in Seq(Message)
  PROVE  Len(l \o m) >= Len(l) /\ SubSeq(l \o m, 1, Len(l)) = l
OBVIOUS

(* Only a compaction and the stripping of images touch a logged message,    *)
(* for any batches and limits.                                              *)
THEOREM AppendOnlyHolds == Spec => AppendOnly
<1> DEFINE Grows == Len(log') >= Len(log) /\ SubSeq(log', 1, Len(log)) = log
<1>1. ASSUME TypeOK, [Next]_vars
      PROVE  \/ Grows \/ CompactionSucceeds \/ EmergencySucceeds
             \/ ImageRejected /\ Len(log') = Len(log)
  <2>0. log \in Seq(Message)
    BY <1>1 DEF TypeOK
  <2>1. CASE \/ EndRounds \/ BeginCompaction \/ BeginRound \/ StopBeforeSend \/ Send
             \/ CompactionYieldsNothing \/ CompactionThrows \/ EmergencyFails
             \/ ReplyTruncated \/ ReplyEmpty \/ Overflow \/ ReplyFails \/ Wake
             \/ StartCalls \/ ToolStep \/ ImplStops \/ BeginLanding \/ Abort \/ UNCHANGED vars
    <3>1. log' = log
      BY <2>1 DEF EndRounds, BeginCompaction, BeginRound, StopBeforeSend, Send,
           CompactionYieldsNothing, CompactionThrows, EmergencyFails, ReplyTruncated, ReplyEmpty,
           Overflow, ReplyFails, Wake, StartCalls, ToolStep, CallAnswers, CallTimesOut, ImplStops,
           BeginLanding, Abort, vars
    <3> QED
      BY <2>0, <3>1
  <2>2. CASE StartChat
    <3>1. PICK body \in Body : log' = Append(log, UserMsg(body))
      BY <2>2 DEF StartChat
    <3> QED
      BY <2>0, <3>1, MessageTypes
  <2>3. CASE ReplyText \/ ReplyTruncatedAgain
    <3>1. log' = Append(log, AssistantMsg(<<>>))
      BY <2>3 DEF ReplyText, ReplyTruncatedAgain
    <3> QED
      BY <2>0, <3>1, FinalMsgType
  <2>4. CASE ReplyCalls
    <3>1. PICK b \in Batches :
            log' = Append(log, AssistantMsg([k \in DOMAIN b |-> <<chat, round, k>>]))
      BY <2>4 DEF ReplyCalls
    <3>2. [k \in DOMAIN b |-> <<chat, round, k>>] \in Seq(CallId)
      <4>1. b \in Seq(CallKinds) /\ chat \in Nat /\ round \in Nat
        BY <1>1, ConstantsAssumption DEF TypeOK
      <4> QED
        BY <4>1, CallIdsType
    <3>3. AssistantMsg([k \in DOMAIN b |-> <<chat, round, k>>]) \in Message
      BY <3>2, MessageTypes
    <3> QED
      BY <2>0, <3>1, <3>3
  <2>5. CASE LandResult
    <3>1. ToolMsg(Id(landed + 1)) \in Message
      BY <1>1, MessageTypes, IdType DEF TypeOK
    <3> QED
      BY <2>0, <2>5, <3>1 DEF LandResult
  <2>6. CASE FinishBatch
    <3>1. log' = log \o ImageMsgs /\ ImageMsgs \in Seq(Message)
      BY <1>1, <2>6, ImageMsgsType DEF FinishBatch
    <3> QED
      BY <2>0, <3>1, AddedBehind
  <2>7. CASE ImageRejected
    <3>1. Len(log') = Len(log)
      BY <2>0, <2>7, StripType DEF ImageRejected
    <3> QED
      BY <2>7, <3>1
  <2>8. CASE CompactionSucceeds \/ EmergencySucceeds
    BY <2>8
  <2> HIDE DEF Grows
  <2> QED
    BY <1>1, <2>1, <2>2, <2>3, <2>4, <2>5, <2>6, <2>7, <2>8
    DEF Next, SyncStep, HandlerStep, ProviderStep
<1>2. TypeOK /\ [Next]_vars =>
        [\/ Grows \/ CompactionSucceeds \/ EmergencySucceeds
         \/ ImageRejected /\ Len(log') = Len(log)]_vars
  BY <1>1
<1> QED
  BY <1>2, TypeCorrect, PTL DEF Spec, AppendOnly
=============================================================================
