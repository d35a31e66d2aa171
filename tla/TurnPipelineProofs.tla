--------------------------- MODULE TurnPipelineProofs ---------------------------
(***************************************************************************)
(* Proofs about TurnPipeline, for any number of turns, messages, rebuilt   *)
(* agents and disturbances: one turn at a time, the stop button, that      *)
(* nothing beside a turn kills it, types, the queue, and what a turn's     *)
(* agent knows.                                                            *)
(***************************************************************************)
EXTENDS TurnPipeline, TLAPS

(* A turn and an agent have their fields.                                  *)
Fields == {"pc", "id", "has", "stop", "cancelled", "halted", "goal", "base", "rebuilds", "main",
           "fell", "current"}
Shaped == Fields \subseteq DOMAIN turn /\ {"st", "knows"} \subseteq DOMAIN agent

(* The guard is held by the one turn that has not ended.                   *)
Guarded == begun \in Nat /\ over \in Nat /\ OneAtATime

(* A turn the user waits for.                                              *)
Awaited == turn.pc \in Working /\ ~turn.halted

(* Stoppable, and what it rests on: a turn knows that it is the current    *)
(* one, and is not stopped before it is shown.                             *)
Unlocked ==
  Calm({"help", "clear"}) =>
    /\ loading <=> Awaited
    /\ turn.current
    /\ turn.pc = "preparing" => ~turn.halted

(* Only a turn that was stopped has a stop to notice.                      *)
StopKnown == (turn.stop => turn.halted) /\ (turn.cancelled => turn.halted)

(* A turn that is awaited has the lock, and neither a compaction nor a     *)
(* reset under way; its agent, once picked up, is there.                   *)
Manned ==
  Calm({"help", "compact", "reset"}) =>
    /\ Awaited => loading
    /\ held => agent.st # "gone"
    /\ turn.pc \in {"ready", "running", "verifying", "backoff"} /\ ~turn.halted => agent.st # "gone"
    /\ turn.pc = "hydrating" /\ turn.has /\ ~turn.halted => agent.st # "gone"
    /\ compact.pc # "idle" \/ reset.pc # "idle" => turn.pc # "preparing" /\ ~Awaited
    /\ ~killed

IInv == Shaped /\ Guarded /\ Unlocked /\ StopKnown /\ Manned

-----------------------------------------------------------------------------
(* A disturbance is never forgotten.                                       *)
LEMMA UpsetGrows ==
  ASSUME [Next]_vars
  PROVE  upset \subseteq upset'
<1> USE DEF Happens, Happen, Overlap, session, aside
<1>1. CASE TurnStep
  BY <1>1 DEF TurnStep, Refused, ShowMessage, PickUpAgent, MakeAgent, RunPass, Rebuild, EndAborted,
     GoalGoesOn, GoalEnds, CompactAfterTurn, TurnReturns
<1>2. CASE Replies
  BY <1>2 DEF Replies, Answered, PassAnswered, GoalPassFails, GoalCompacts, Crashes,
     FallBackToPrimary, EndFailed
<1>3. CASE UserStep
  BY <1>3 DEF UserStep, SendMessage, Begin, QueueMessage, RemoveQueued, CancelMessage, Help,
     SwitchSession, ClearMessages, StartCompact, StartReset
<1>4. CASE WatchdogFires \/ DrainSends \/ DrainEnds \/ ApplyCompact \/ FinishReset
  BY <1>4 DEF WatchdogFires, DrainSends, Begin, DrainEnds, ApplyCompact, FinishReset
<1>5. CASE UNCHANGED vars
  BY <1>5 DEF vars
<1> QED
  BY <1>1, <1>2, <1>3, <1>4, <1>5 DEF Next

LEMMA IInvInit == Init => IInv
BY DEF Init, IInv, Shaped, Fields, Guarded, OneAtATime, Unlocked, Awaited, StopKnown, Manned,
    Working,
   NoTurn, NoAgent, NoCompact, NoReset

-----------------------------------------------------------------------------
(* The turn's own steps.                                                   *)
LEMMA OwnStep ==
  ASSUME IInv, TurnStep, upset \subseteq upset'
  PROVE  IInv'
<1> USE DEF IInv, Shaped, Fields, Guarded, OneAtATime, Unlocked, Awaited, StopKnown, Manned,
    Working,
       Calm, Happens, Happen, session, aside, KeepAll, Forget, CreateAgent, Finalise, LoadingEnds,
       Return, NoTurn, NoAgent
<1>1. CASE Refused
  BY <1>1 DEF Refused
<1>2. CASE ShowMessage
  BY <1>2 DEF ShowMessage
<1>3. CASE PickUpAgent
  BY <1>3 DEF PickUpAgent
<1>4. CASE MakeAgent
  BY <1>4 DEF MakeAgent
<1>5. CASE RunPass
  BY <1>5 DEF RunPass
<1>6. CASE Rebuild
  BY <1>6 DEF Rebuild
<1>7. CASE EndAborted
  <2>1. Shaped' /\ Guarded' /\ Unlocked' /\ StopKnown'
    BY <1>7 DEF EndAborted, Aborts, StillCurrent
  <2>2. Manned'
    BY <1>7 DEF EndAborted, Aborts, StillCurrent
  <2> QED
    BY <2>1, <2>2
<1>8. CASE GoalGoesOn
  BY <1>8 DEF GoalGoesOn
<1>9. CASE GoalEnds
  <2>1. Shaped' /\ Guarded' /\ Unlocked' /\ StopKnown'
    BY <1>9 DEF GoalEnds
  <2>2. Manned'
    <3>1. CASE turn.pc = "verifying" /\ UNCHANGED killed
      BY <1>9, <3>1 DEF GoalEnds
    <3>2. CASE turn.pc \in {"ready", "running"} /\ killed' = (killed \/ ~turn.halted)
      BY <1>9, <3>2 DEF GoalEnds
    <3> QED
      BY <1>9, <3>1, <3>2 DEF GoalEnds
  <2> QED
    BY <2>1, <2>2
<1>10. CASE CompactAfterTurn
  BY <1>10 DEF CompactAfterTurn
<1>11. CASE TurnReturns
  BY <1>11 DEF TurnReturns
<1> QED
  BY <1>1, <1>2, <1>3, <1>4, <1>5, <1>6, <1>7, <1>8, <1>9, <1>10, <1>11 DEF TurnStep

(* The replies it waits for.                                               *)
LEMMA ReplyStep ==
  ASSUME IInv, Replies, upset \subseteq upset'
  PROVE  IInv'
<1> USE DEF IInv, Shaped, Fields, Guarded, OneAtATime, Unlocked, Awaited, StopKnown, Manned,
    Working,
       Calm, Happens, Happen, session, aside, Answers, CreateAgent, Finalise, LoadingEnds, Return,
       NoTurn, NoAgent
<1>1. CASE Answered
  BY <1>1 DEF Answered
<1>2. CASE PassAnswered
  BY <1>2 DEF PassAnswered
<1>3. CASE GoalPassFails
  BY <1>3 DEF GoalPassFails
<1>4. CASE GoalCompacts
  BY <1>4 DEF GoalCompacts
<1>5. CASE Crashes
  BY <1>5 DEF Crashes
<1>6. CASE FallBackToPrimary
  BY <1>6 DEF FallBackToPrimary
<1>7. CASE EndFailed
  BY <1>7 DEF EndFailed, StillCurrent, Forget, ForgetFailed, KeepAll
<1> QED
  BY <1>1, <1>2, <1>3, <1>4, <1>5, <1>6, <1>7 DEF Replies

(* The user's steps.                                                       *)
LEMMA BesideStep ==
  ASSUME IInv, UserStep, upset \subseteq upset'
  PROVE  IInv'
<1> USE DEF IInv, Shaped, Fields, Guarded, OneAtATime, Unlocked, Awaited, StopKnown, Manned,
    Working,
       Calm, Happens, Happen, session, aside, Dispose, LeaveAgent, Invalidate, LoadingEnds,
       NoAgent, NoTurn
<1>1. CASE SendMessage
  BY <1>1 DEF SendMessage, Begin, MayBegin, Overlap
<1>2. CASE QueueMessage
  BY <1>2 DEF QueueMessage
<1>3. CASE RemoveQueued
  BY <1>3 DEF RemoveQueued
<1>4. CASE CancelMessage
  BY <1>4 DEF CancelMessage, CancelSession
<1>5. CASE Help
  BY <1>5 DEF Help
<1>6. CASE SwitchSession
  BY <1>6 DEF SwitchSession
<1>7. CASE ClearMessages
  BY <1>7 DEF ClearMessages
<1>8. CASE StartCompact
  BY <1>8 DEF StartCompact
<1>9. CASE StartReset
  BY <1>9 DEF StartReset
<1> QED
  BY <1>1, <1>2, <1>3, <1>4, <1>5, <1>6, <1>7, <1>8, <1>9 DEF UserStep

LEMMA IInvNext == IInv /\ [Next]_vars => IInv'
<1> SUFFICES ASSUME IInv, [Next]_vars PROVE IInv'
  OBVIOUS
<1>0. upset \subseteq upset'
  BY UpsetGrows
<1> USE <1>0
<1>1. CASE TurnStep
  BY <1>1, OwnStep
<1>2. CASE Replies
  BY <1>2, ReplyStep
<1>3. CASE UserStep
  BY <1>3, BesideStep
<1>4. ASSUME WatchdogFires \/ DrainSends \/ DrainEnds \/ ApplyCompact \/ FinishReset \/ UNCHANGED vars
      PROVE  IInv'
  <2> USE DEF IInv, Shaped, Fields, Guarded, OneAtATime, Unlocked, Awaited, StopKnown, Manned,
      Working,
       Calm, Happens, Happen, session, aside, Dispose, Invalidate, LoadingEnds, NoAgent, NoTurn
  <2>1. CASE WatchdogFires
    BY <2>1 DEF WatchdogFires
  <2>2. CASE DrainSends
    <3>1. Shaped' /\ Guarded' /\ Unlocked' /\ StopKnown'
      BY <2>2 DEF DrainSends, Begin, MayBegin, Overlap
    <3>2. Manned'
      BY <2>2 DEF DrainSends, Begin, MayBegin, Overlap
    <3> QED
      BY <3>1, <3>2
  <2>3. CASE DrainEnds
    BY <2>3 DEF DrainEnds
  <2>4. CASE ApplyCompact
    BY <2>4 DEF ApplyCompact, NoCompact
  <2>5. CASE FinishReset
    BY <2>5 DEF FinishReset, NoReset
  <2>6. CASE UNCHANGED vars
    BY <2>6 DEF vars
  <2> QED
    BY <1>4, <2>1, <2>2, <2>3, <2>4, <2>5, <2>6
<1> QED
  BY <1>1, <1>2, <1>3, <1>4 DEF Next

LEMMA IInvAlways == Spec => []IInv
BY IInvInit, IInvNext, PTL DEF Spec

-----------------------------------------------------------------------------
(* Every turn that began has ended, except the one that holds the guard    *)
(* turnInFlight: OneAtATime, for any number of turns and disturbances.     *)
THEOREM OneAtATimeHolds == Spec => []OneAtATime
<1>1. IInv => OneAtATime
  BY DEF IInv, Guarded
<1> QED
  BY <1>1, IInvAlways, PTL

(* The input box is locked exactly while a turn is awaited: Stoppable.     *)
THEOREM StoppableHolds == Spec => []Stoppable
<1>1. IInv => Stoppable
  BY DEF IInv, Unlocked, Awaited, Stoppable
<1> QED
  BY <1>1, IInvAlways, PTL

(* No compaction, reset or session change ends a turn by destroying its    *)
(* agent: NotKilled.                                                       *)
THEOREM NotKilledHolds == Spec => []NotKilled
<1>1. IInv => NotKilled
  BY DEF IInv, Manned, NotKilled
<1> QED
  BY <1>1, IInvAlways, PTL

-----------------------------------------------------------------------------
(* What a stop meets: nowhere in calm can a stopped turn reach RunPass with *)
(* an agent that would take the request.                                   *)
Caught ==
  /\ turn.pc = "preparing" => ~turn.halted /\ ~loading
  /\ loading => turn.pc = "idle" \/ Awaited
  /\ Calm({"late stop", "compact"}) =>
       /\ compact.pc # "idle" => turn.pc = "idle"
       /\ turn.pc \in {"hydrating", "backoff"} => ~turn.halted
       /\ turn.pc = "shown" /\ turn.halted => turn.stop
       /\ turn.pc = "ready" /\ turn.halted => agent.st = "gone"
       /\ turn.pc = "running" /\ turn.halted => turn.cancelled \/ agent.st = "gone"
       /\ turn.pc = "verifying" /\ turn.halted => turn.stop \/ agent.st = "gone"
       /\ turn.pc \in {"ready", "running", "verifying", "backoff"} /\ ~turn.halted
            => held \/ agent.st = "gone"
       /\ turn.pc = "hydrating" /\ turn.has => held \/ agent.st = "gone"

(* The invariant of the stop, action by action.                           *)
LEMMA CaughtOwn ==
  ASSUME IInv, Caught, TurnStep, upset \subseteq upset'
  PROVE  Caught'
<1> USE DEF IInv, Shaped, Fields, Guarded, OneAtATime, StopKnown, Caught, Awaited, Working, Calm,
       Happens, Happen, session, aside, KeepAll, Forget, CreateAgent, Finalise, LoadingEnds,
       Return, NoTurn, NoAgent
<1>1. CASE Refused
  BY <1>1 DEF Refused
<1>2. CASE ShowMessage
  <2>1. PICK goal \in BOOLEAN : turn' = [turn EXCEPT !.pc = "shown", !.goal = goal]
    BY <1>2 DEF ShowMessage
  <2>2. turn'.pc = "shown" /\ turn'.halted = turn.halted /\ turn'.stop = turn.stop
    BY <2>1
  <2> QED
    BY <1>2, <2>2 DEF ShowMessage
<1>3. CASE PickUpAgent
  BY <1>3 DEF PickUpAgent, GoOn
<1>4. CASE MakeAgent
  BY <1>4 DEF MakeAgent
<1>5. CASE RunPass
  BY <1>5 DEF RunPass
<1>6. CASE Rebuild
  BY <1>6 DEF Rebuild
<1>7. CASE EndAborted
  BY <1>7 DEF EndAborted, StillCurrent
<1>8. CASE GoalGoesOn
  BY <1>8 DEF GoalGoesOn
<1>9. CASE GoalEnds
  BY <1>9 DEF GoalEnds
<1>10. CASE CompactAfterTurn
  BY <1>10 DEF CompactAfterTurn
<1>11. CASE TurnReturns
  BY <1>11 DEF TurnReturns
<1> QED
  BY <1>1, <1>2, <1>3, <1>4, <1>5, <1>6, <1>7, <1>8, <1>9, <1>10, <1>11 DEF TurnStep

LEMMA CaughtReply ==
  ASSUME IInv, Caught, Replies, upset \subseteq upset'
  PROVE  Caught'
<1> USE DEF IInv, Shaped, Fields, Guarded, OneAtATime, StopKnown, Caught, Awaited, Working, Calm,
       Happens, Happen, session, aside, Answers, CreateAgent, Finalise, LoadingEnds, Return,
       NoTurn, NoAgent
<1>1. CASE Answered
  BY <1>1 DEF Answered
<1>2. CASE PassAnswered
  BY <1>2 DEF PassAnswered
<1>3. CASE GoalPassFails
  BY <1>3 DEF GoalPassFails
<1>4. CASE GoalCompacts
  BY <1>4 DEF GoalCompacts
<1>5. CASE Crashes
  BY <1>5 DEF Crashes
<1>6. CASE FallBackToPrimary
  BY <1>6 DEF FallBackToPrimary
<1>7. CASE EndFailed
  BY <1>7 DEF EndFailed, StillCurrent, Forget, ForgetFailed, KeepAll
<1> QED
  BY <1>1, <1>2, <1>3, <1>4, <1>5, <1>6, <1>7 DEF Replies

(* An agent that is destroyed takes no request.                            *)
LEMMA DisposedIsCaught ==
  ASSUME Caught, agent'.st = "gone", UNCHANGED <<turn, loading, compact, upset>>
  PROVE  Caught'
BY DEF Caught, Awaited, Calm

LEMMA SwitchDisposes ==
  ASSUME SwitchSession, ~loading, held
  PROVE  agent'.st = "gone" /\ UNCHANGED <<turn, loading, compact, upset>>
BY DEF SwitchSession, LeaveAgent, Dispose, NoAgent, aside

LEMMA CaughtBeside ==
  ASSUME IInv, Caught, UserStep, upset \subseteq upset'
  PROVE  Caught'
<1> USE DEF IInv, Shaped, Fields, Guarded, OneAtATime, StopKnown, Caught, Awaited, Working, Calm,
       Happens, Happen, session, aside, Dispose, LeaveAgent, Invalidate, LoadingEnds, NoAgent,
       NoTurn
<1>1. CASE SendMessage
  BY <1>1 DEF SendMessage, Begin, MayBegin, Overlap
<1>2. CASE QueueMessage
  BY <1>2 DEF QueueMessage
<1>3. CASE RemoveQueued
  BY <1>3 DEF RemoveQueued
<1>4. CASE CancelMessage
  BY <1>4 DEF CancelMessage, CancelSession
<1>5. CASE Help
  BY <1>5 DEF Help
<1>6. CASE SwitchSession
  <2>1. CASE loading
    BY <1>6, <2>1 DEF SwitchSession
  <2>2. CASE ~loading
    <3>1. CASE held
      BY <1>6, <2>2, <3>1, SwitchDisposes, DisposedIsCaught
    <3>2. CASE ~held
      BY <1>6, <2>2, <3>2 DEF SwitchSession
    <3> QED
      BY <3>1, <3>2
  <2> QED
    BY <2>1, <2>2
<1>7. CASE ClearMessages
  BY <1>7 DEF ClearMessages
<1>8. CASE StartCompact
  BY <1>8 DEF StartCompact
<1>9. CASE StartReset
  BY <1>9 DEF StartReset
<1> QED
  BY <1>1, <1>2, <1>3, <1>4, <1>5, <1>6, <1>7, <1>8, <1>9 DEF UserStep

LEMMA CaughtElse ==
  ASSUME IInv, Caught, (WatchdogFires \/ DrainSends \/ DrainEnds \/ ApplyCompact \/ FinishReset),
  upset \subseteq upset'
  PROVE  Caught'
<1> USE DEF IInv, Shaped, Fields, Guarded, OneAtATime, StopKnown, Caught, Awaited, Working, Calm,
       Happens, Happen, session, aside, Dispose, Invalidate, LoadingEnds, NoAgent, NoTurn, NoCompact
<1>1. CASE WatchdogFires
  BY <1>1 DEF WatchdogFires
<1>2. CASE DrainSends
  BY <1>2 DEF DrainSends, Begin, MayBegin, Overlap
<1>3. CASE DrainEnds
  BY <1>3 DEF DrainEnds
<1>4. CASE ApplyCompact
  BY <1>4 DEF ApplyCompact
<1>5. CASE FinishReset
  <2>1. CASE UNCHANGED <<held, agent>>
    BY <1>5, <2>1 DEF FinishReset
  <2>2. CASE Dispose
    <3>1. CASE held
      BY <1>5, <2>2, <3>1 DEF FinishReset
    <3>2. CASE ~held
      BY <1>5, <2>2, <3>2 DEF FinishReset
    <3> QED
      BY <3>1, <3>2
  <2> QED
    BY <1>5, <2>1, <2>2 DEF FinishReset
<1> QED
  BY <1>1, <1>2, <1>3, <1>4, <1>5

LEMMA CaughtInit == Init => Caught
BY DEF Init, Caught, Awaited, Working, NoTurn, NoCompact

LEMMA CaughtNext == IInv /\ Caught /\ [Next]_vars => Caught'
<1> SUFFICES ASSUME IInv, Caught, [Next]_vars PROVE Caught'
  OBVIOUS
<1>0. upset \subseteq upset'
  BY UpsetGrows
<1>1. CASE TurnStep
  BY <1>0, <1>1, CaughtOwn
<1>2. CASE Replies
  BY <1>0, <1>2, CaughtReply
<1>3. CASE UserStep
  BY <1>0, <1>3, CaughtBeside
<1>4. CASE WatchdogFires \/ DrainSends \/ DrainEnds \/ ApplyCompact \/ FinishReset
  BY <1>0, <1>4, CaughtElse
<1>5. CASE UNCHANGED vars
  BY <1>5 DEF vars, Caught, Awaited, Calm
<1> QED
  BY <1>1, <1>2, <1>3, <1>4, <1>5 DEF Next

(* Only RunPass asks the model.                                            *)
LEMMA OnlyRunPassAsks ==
  ASSUME IInv, Next, turn.pc # "running", turn'.pc = "running"
  PROVE  RunPass
<1> USE DEF IInv, Shaped, Fields, NoTurn, session, aside
<1>1. CASE TurnStep
  <2>1. CASE Refused \/ EndAborted \/ TurnReturns
    BY <2>1 DEF Refused, EndAborted, TurnReturns, Return
  <2>2. CASE ShowMessage
    BY <2>2 DEF ShowMessage
  <2>3. CASE GoalEnds
    BY <2>3 DEF GoalEnds, Finalise
  <2>4. CASE PickUpAgent \/ MakeAgent \/ Rebuild \/ GoalGoesOn \/ CompactAfterTurn
    BY <2>4 DEF PickUpAgent, MakeAgent, Rebuild, GoalGoesOn, CompactAfterTurn
  <2> QED
    BY <1>1, <2>1, <2>2, <2>3, <2>4 DEF TurnStep
<1>2. CASE Replies
  BY <1>2 DEF Replies, Answered, PassAnswered, GoalPassFails, Finalise, GoalCompacts, Crashes,
     FallBackToPrimary, EndFailed, Return
<1>3. CASE UserStep
  BY <1>3 DEF UserStep, SendMessage, Begin, QueueMessage, RemoveQueued, CancelMessage, Help,
     SwitchSession, ClearMessages, StartCompact, StartReset
<1>4. CASE WatchdogFires \/ DrainSends \/ DrainEnds \/ ApplyCompact \/ FinishReset
  BY <1>4 DEF WatchdogFires, DrainSends, Begin, DrainEnds, ApplyCompact, FinishReset
<1> QED
  BY <1>1, <1>2, <1>3, <1>4 DEF Next

(* A stopped turn asks the model nothing more: StopHolds.                  *)
THEOREM StopHoldsAlways == Spec => StopHolds
<1>1. ASSUME IInv, Caught, Next PROVE AsksNoMore
  <2> SUFFICES ASSUME Calm({"late stop", "compact"}), turn.halted, turn.pc # "running",
      turn'.pc = "running"
               PROVE FALSE
    BY DEF AsksNoMore
  <2>1. RunPass
    BY <1>1, OnlyRunPassAsks
  <2> QED
    BY <1>1, <2>1 DEF RunPass, Caught
<1>2. IInv /\ Caught /\ [Next]_vars => [AsksNoMore]_vars
  BY <1>1
<1> QED
  BY <1>2, IInvInit, IInvNext, CaughtInit, CaughtNext, PTL DEF Spec, StopHolds

-----------------------------------------------------------------------------
(* Types.  What TypeOK rests on: the histories an agent is built from hold  *)
(* turns of the session, and only a worker's turn is rebuilt.               *)
Flags == loading \in BOOLEAN /\ inFlight \in BOOLEAN /\ held \in BOOLEAN /\ here \in BOOLEAN
         /\ killed \in BOOLEAN
AgentTyped == agent.st \in {"gone", "alive", "crashed", "detached"} /\ agent.knows \subseteq Turns
TurnTyped ==
  /\ begun \in 0 .. MaxTurns
  /\ turn.id \in 0 .. begun
  /\ turn.pc # "idle" => turn.id # 0
  /\ turn.rebuilds \in 0 .. MaxRebuilds + 1
  /\ turn.rebuilds = MaxRebuilds + 1 => turn.main
  /\ turn.pc = "backoff" => ~turn.main
HistoryTyped == msgs \subseteq Turns /\ turn.base \subseteq Turns /\ reset.keep \subseteq Turns
LineTyped ==
  /\ queue \in Seq(Enqueued) /\ enqueued \in 0 .. MaxEnqueues
  /\ drain.pc = "sending" => drain.head \in Enqueued

TypeInv == Flags /\ AgentTyped /\ TurnTyped /\ HistoryTyped /\ LineTyped

LEMMA Bounds == MaxRebuilds \in Nat /\ MaxTurns \in Nat /\ MaxEnqueues \in Nat
BY PipelineConstants

LEMMA FlagsNext == ASSUME Flags, [Next]_vars PROVE Flags'
<1> USE DEF Flags, session, aside, LoadingEnds, Invalidate, Dispose, Forget, KeepAll, CreateAgent,
       Return, Finalise
<1>1. CASE TurnStep
  BY <1>1 DEF TurnStep, Refused, ShowMessage, PickUpAgent, MakeAgent, RunPass, Rebuild, EndAborted,
     GoalGoesOn, GoalEnds, CompactAfterTurn, TurnReturns
<1>2. CASE Replies
  BY <1>2 DEF Replies, Answered, PassAnswered, GoalPassFails, GoalCompacts, Crashes,
     FallBackToPrimary, EndFailed, ForgetFailed
<1>3. CASE UserStep
  BY <1>3 DEF UserStep, SendMessage, Begin, QueueMessage, RemoveQueued, CancelMessage, Help,
     SwitchSession, LeaveAgent, ClearMessages, StartCompact, StartReset
<1>4. CASE WatchdogFires \/ DrainSends \/ DrainEnds \/ ApplyCompact \/ FinishReset
  BY <1>4 DEF WatchdogFires, DrainSends, Begin, DrainEnds, ApplyCompact, FinishReset
<1>5. CASE UNCHANGED vars
  BY <1>5 DEF vars
<1> QED
  BY <1>1, <1>2, <1>3, <1>4, <1>5 DEF Next

LEMMA TurnNext == ASSUME IInv, TurnTyped, [Next]_vars PROVE TurnTyped'
<1> USE Bounds
<1> USE DEF IInv, Shaped, Fields, TurnTyped, NoTurn, session, aside
<1>1. CASE Refused \/ EndAborted \/ EndFailed \/ TurnReturns
  BY <1>1 DEF Refused, EndAborted, EndFailed, TurnReturns, Return
<1>2. CASE ShowMessage
  <2>1. PICK goal \in BOOLEAN : turn' = [turn EXCEPT !.pc = "shown", !.goal = goal]
    BY <1>2 DEF ShowMessage
  <2> QED
    BY <1>2, <2>1 DEF ShowMessage
<1>3. CASE PickUpAgent \/ MakeAgent \/ RunPass \/ CompactAfterTurn \/ PassAnswered
  <2>1. CASE PickUpAgent
    BY <2>1 DEF PickUpAgent
  <2>2. CASE MakeAgent
    BY <2>2 DEF MakeAgent
  <2>3. CASE RunPass
    BY <2>3 DEF RunPass
  <2>4. CASE CompactAfterTurn
    BY <2>4 DEF CompactAfterTurn
  <2>5. CASE PassAnswered
    <3>1. turn' = [turn EXCEPT !.pc = "verifying"] /\ begun' = begun /\ turn.pc = "running"
      BY <2>5 DEF PassAnswered, Answers
    <3> QED
      BY <3>1
  <2> QED
    BY <1>3, <2>1, <2>2, <2>3, <2>4, <2>5
<1>4. CASE Rebuild
  <2>1. /\ turn'.pc = "ready" /\ turn'.id = turn.id /\ begun' = begun
        /\ turn'.rebuilds = turn.rebuilds + 1 /\ turn'.main = (turn.rebuilds = MaxRebuilds)
    BY <1>4 DEF Rebuild
  <2>3. turn.rebuilds = MaxRebuilds => turn'.main
    BY <2>1
  <2>2. turn.rebuilds \in 0 .. MaxRebuilds /\ turn.id # 0
    BY <1>4 DEF Rebuild
  <2> QED
    BY <2>1, <2>2, <2>3
<1>5. CASE GoalGoesOn \/ FallBackToPrimary
  <2>1. CASE GoalGoesOn
    BY <2>1 DEF GoalGoesOn
  <2>2. CASE FallBackToPrimary
    BY <2>2 DEF FallBackToPrimary
  <2> QED
    BY <1>5, <2>1, <2>2
<1>6. CASE GoalEnds \/ Answered \/ GoalPassFails
  <2>1. CASE GoalEnds
    BY <2>1 DEF GoalEnds, Finalise
  <2>2. CASE Answered
    BY <2>2 DEF Answered, Finalise, Answers
  <2>3. CASE GoalPassFails
    <3>1. /\ turn' = [NoTurn EXCEPT !.pc = "tail", !.id = turn.id, !.base = msgs,
                                     !.halted = turn.halted]
          /\ begun' = begun /\ turn.pc = "running"
      BY <2>3 DEF GoalPassFails, Finalise
    <3> QED
      BY <3>1
  <2> QED
    BY <1>6, <2>1, <2>2, <2>3
<1>7. CASE Crashes
  BY <1>7 DEF Crashes
<1>8. CASE SendMessage \/ DrainSends
  <2>1. Begin
    BY <1>8 DEF SendMessage, DrainSends
  <2>2. /\ begun' = begun + 1 /\ begun < MaxTurns /\ turn'.id = begun + 1 /\ turn'.pc = "preparing"
        /\ turn'.rebuilds = 0 /\ turn'.main = FALSE
    BY <2>1 DEF Begin
  <2> QED
    BY <2>2
<1>9. CASE CancelMessage \/ WatchdogFires \/ ClearMessages
  BY <1>9 DEF CancelMessage, WatchdogFires, ClearMessages
<1>10. CASE \/ GoalCompacts \/ QueueMessage \/ RemoveQueued \/ Help \/ SwitchSession \/ StartCompact
            \/ StartReset \/ DrainEnds \/ ApplyCompact \/ FinishReset \/ UNCHANGED vars
  <2>1. UNCHANGED <<turn, begun>>
    BY <1>10 DEF GoalCompacts, QueueMessage, RemoveQueued, Help, SwitchSession, StartCompact,
       StartReset, DrainEnds, ApplyCompact, FinishReset, vars
  <2> QED
    BY <2>1
<1> QED
  BY <1>1, <1>2, <1>3, <1>4, <1>5, <1>6, <1>7, <1>8, <1>9, <1>10 DEF Next, TurnStep, Replies, UserStep

(* The turn that is running is one of Turns.                                *)
LEMMA TurnIsTurn == ASSUME TurnTyped, turn.pc # "idle" PROVE turn.id \in Turns
BY Bounds DEF TurnTyped, Turns

LEMMA HistoryNext ==
  ASSUME IInv, TurnTyped, HistoryTyped, AgentTyped, [Next]_vars PROVE HistoryTyped' /\ AgentTyped'
<1> USE DEF IInv, Shaped, Fields, HistoryTyped, AgentTyped, NoTurn, NoAgent, session, aside,
       KeepAll, Forget, CreateAgent, Invalidate, Dispose, Finalise
<1>1. CASE Refused \/ EndAborted \/ EndFailed \/ TurnReturns
  BY <1>1 DEF Refused, EndAborted, EndFailed, ForgetFailed, TurnReturns, Return
<1>2. CASE ShowMessage
  BY <1>2, TurnIsTurn DEF ShowMessage
<1>3. CASE PickUpAgent \/ MakeAgent \/ RunPass \/ CompactAfterTurn \/ Rebuild \/ GoalGoesOn
  <2>1. CASE PickUpAgent
    BY <2>1 DEF PickUpAgent
  <2>2. CASE MakeAgent
    BY <2>2 DEF MakeAgent
  <2>3. CASE RunPass
    BY <2>3 DEF RunPass
  <2>4. CASE CompactAfterTurn
    BY <2>4 DEF CompactAfterTurn
  <2>5. CASE Rebuild
    BY <2>5 DEF Rebuild
  <2>6. CASE GoalGoesOn
    BY <2>6 DEF GoalGoesOn
  <2> QED
    BY <1>3, <2>1, <2>2, <2>3, <2>4, <2>5, <2>6
<1>4. CASE PassAnswered \/ Answered
  <2>1. CASE PassAnswered
    BY <2>1, TurnIsTurn DEF PassAnswered, Answers
  <2>2. CASE Answered
    BY <2>2, TurnIsTurn DEF Answered, Answers
  <2> QED
    BY <1>4, <2>1, <2>2
<1>5. CASE GoalCompacts \/ FallBackToPrimary \/ GoalEnds \/ GoalPassFails \/ Crashes
  <2>1. CASE GoalCompacts
    BY <2>1 DEF GoalCompacts
  <2>2. CASE FallBackToPrimary
    BY <2>2 DEF FallBackToPrimary
  <2>3. CASE GoalEnds
    BY <2>3 DEF GoalEnds
  <2>4. CASE GoalPassFails
    BY <2>4 DEF GoalPassFails
  <2>5. CASE Crashes
    BY <2>5 DEF Crashes
  <2> QED
    BY <1>5, <2>1, <2>2, <2>3, <2>4, <2>5
<1>6. CASE SendMessage \/ DrainSends
  BY <1>6 DEF SendMessage, DrainSends, Begin
<1>7. CASE CancelMessage \/ WatchdogFires \/ ClearMessages
  <2>1. CASE CancelMessage
    <3>1. UNCHANGED <<msgs, reset>> /\ turn'.base = turn.base
      BY <2>1 DEF CancelMessage
    <3>2. Invalidate
      BY <2>1 DEF CancelMessage
    <3>3. agent' = agent \/ agent' = NoAgent \/ agent' = [agent EXCEPT !.st = "detached"]
      BY <3>2
    <3> QED
      BY <3>1, <3>3
  <2>2. CASE WatchdogFires
    BY <2>2 DEF WatchdogFires
  <2>3. CASE ClearMessages
    BY <2>3 DEF ClearMessages
  <2> QED
    BY <1>7, <2>1, <2>2, <2>3
<1>8. CASE QueueMessage \/ RemoveQueued \/ Help \/ StartCompact \/ DrainEnds \/ UNCHANGED vars
  <2>1. UNCHANGED <<agent, turn, msgs, reset>>
    BY <1>8 DEF QueueMessage, RemoveQueued, Help, StartCompact, DrainEnds, vars
  <2> QED
    BY <2>1
<1>9. CASE SwitchSession
  BY <1>9 DEF SwitchSession, LeaveAgent
<1>10. CASE StartReset
  <2>1. PICK m \in msgs : reset' = [pc |-> "busy", keep |-> {x \in msgs : x < m}]
    BY <1>10 DEF StartReset
  <2> QED
    BY <1>10, <2>1 DEF StartReset
<1>11. CASE ApplyCompact
  BY <1>11 DEF ApplyCompact
<1>12. CASE FinishReset
  BY <1>12 DEF FinishReset, NoReset
<1> QED
  BY <1>1, <1>2, <1>3, <1>4, <1>5, <1>6, <1>7, <1>8, <1>9, <1>10, <1>11, <1>12
  DEF Next, TurnStep, Replies, UserStep

(* A queue without one of its messages is a queue.                          *)
LEMMA RemoveType ==
  ASSUME NEW S, NEW q \in Seq(S), NEW i \in DOMAIN q
  PROVE  SubSeq(q, 1, i - 1) \o SubSeq(q, i + 1, Len(q)) \in Seq(S)
<1>1. SubSeq(q, 1, i - 1) \in Seq(S) /\ SubSeq(q, i + 1, Len(q)) \in Seq(S)
  OBVIOUS
<1> QED
  BY <1>1

LEMMA LineNext == ASSUME LineTyped, [Next]_vars PROVE LineTyped'
<1> USE DEF session, aside
<1>1. CASE \/ ShowMessage \/ PickUpAgent \/ MakeAgent \/ RunPass \/ Rebuild \/ GoalGoesOn
           \/ CompactAfterTurn \/ PassAnswered \/ GoalCompacts \/ Crashes \/ FallBackToPrimary
           \/ SendMessage \/ ClearMessages \/ StartCompact \/ StartReset \/ ApplyCompact
           \/ FinishReset \/ UNCHANGED vars
  <2>1. UNCHANGED <<queue, enqueued, drain>>
    BY <1>1 DEF ShowMessage, PickUpAgent, MakeAgent, RunPass, Rebuild, GoalGoesOn,
       CompactAfterTurn, PassAnswered, GoalCompacts, Crashes, FallBackToPrimary, SendMessage,
       ClearMessages, StartCompact, StartReset, ApplyCompact, FinishReset, vars
  <2> QED
    BY <2>1 DEF LineTyped
<1>2. CASE \/ Answered \/ GoalEnds \/ GoalPassFails \/ CancelMessage \/ WatchdogFires \/ Help
           \/ SwitchSession \/ DrainEnds
  <2>1. CASE Answered \/ GoalEnds \/ GoalPassFails \/ CancelMessage \/ WatchdogFires \/ Help
    <3>1. UNCHANGED <<queue, enqueued>> /\ drain' = Triggered
      BY <2>1 DEF Answered, GoalEnds, GoalPassFails, CancelMessage, WatchdogFires, Help, Finalise,
         LoadingEnds
    <3> QED
      BY <3>1 DEF LineTyped, Triggered
  <2>2. CASE SwitchSession \/ DrainEnds
    BY <2>2 DEF SwitchSession, DrainEnds, Off, LineTyped
  <2> QED
    BY <1>2, <2>1, <2>2
<1>3. CASE Refused \/ EndAborted \/ EndFailed \/ TurnReturns
  <2>1. /\ enqueued' = enqueued
        /\ queue' = queue \/ (drain.pc = "sending" /\ queue' = <<drain.head>> \o queue)
        /\ drain' = drain \/ drain'.pc # "sending"
    BY <1>3 DEF Refused, EndAborted, EndFailed, TurnReturns, Return, PutBack, Triggered, Off
  <2>2. queue' \in Seq(Enqueued)
    <3>1. CASE queue' = queue
      BY <3>1 DEF LineTyped
    <3>2. CASE drain.pc = "sending" /\ queue' = <<drain.head>> \o queue
      <4>1. <<drain.head>> \in Seq(Enqueued) /\ queue \in Seq(Enqueued)
        BY <3>2 DEF LineTyped
      <4> QED
        BY <3>2, <4>1
    <3> QED
      BY <2>1, <3>1, <3>2
  <2> QED
    BY <2>1, <2>2 DEF LineTyped
<1>4. CASE QueueMessage
  <2>1. enqueued + 1 \in Enqueued /\ enqueued + 1 \in 0 .. MaxEnqueues
    BY <1>4, Bounds DEF QueueMessage, LineTyped, Enqueued
  <2> QED
    BY <1>4, <2>1 DEF QueueMessage, LineTyped
<1>5. CASE RemoveQueued
  <2>1. queue' \in Seq(Enqueued)
    BY <1>5, RemoveType DEF RemoveQueued, LineTyped
  <2> QED
    BY <1>5, <2>1 DEF RemoveQueued, LineTyped
<1>6. CASE DrainSends
  <2>1. Head(queue) \in Enqueued /\ Tail(queue) \in Seq(Enqueued)
    BY <1>6 DEF DrainSends, LineTyped
  <2> QED
    BY <1>6, <2>1 DEF DrainSends, LineTyped
<1> QED
  BY <1>1, <1>2, <1>3, <1>4, <1>5, <1>6 DEF Next, TurnStep, Replies, UserStep

(* Every variable of the pipeline keeps its type, for any number of turns,  *)
(* messages, rebuilt agents and disturbances.                               *)
THEOREM TypeCorrect == Spec => []TypeOK
<1>1. ASSUME Init PROVE TypeInv
  <2>1. Flags /\ AgentTyped /\ HistoryTyped
    BY <1>1 DEF Init, Flags, AgentTyped, HistoryTyped, NoAgent, NoTurn, NoReset
  <2>2. TurnTyped
    BY <1>1, Bounds DEF Init, TurnTyped, NoTurn
  <2>3. LineTyped
    <3>1. queue = <<>> /\ enqueued = 0 /\ drain.pc = "off"
      BY <1>1 DEF Init, Off
    <3> QED
      BY <3>1, Bounds DEF LineTyped
  <2> QED
    BY <2>1, <2>2, <2>3 DEF TypeInv
<1>2. IInv /\ TypeInv /\ [Next]_vars => TypeInv'
  BY FlagsNext, TurnNext, HistoryNext, LineNext DEF TypeInv
<1>3. IInv /\ TypeInv => TypeOK
  <2>1. IInv /\ TurnTyped => over \in 0 .. begun
    BY Bounds DEF IInv, Guarded, OneAtATime, TurnTyped
  <2> QED
    BY <2>1 DEF TypeInv, Flags, AgentTyped, TurnTyped, HistoryTyped, LineTyped, TypeOK
<1> QED
  BY <1>1, <1>2, <1>3, IInvInit, IInvNext, PTL DEF Spec

-----------------------------------------------------------------------------
(* QueueKept.  The line of a session's queued messages: those sent, the one *)
(* a drain has in its hand, those that wait.  A drain only moves the borders *)
(* of the three parts.                                                      *)
Hand == IF drain.pc = "sending" THEN <<drain.head>> ELSE <<>>
Line == left.sent \o Hand \o queue

QueueTyped ==
  /\ queue \in Seq(Nat) /\ enqueued \in Nat
  /\ drain \in [pc : {"off", "polling", "sending"}, head : Nat]
  /\ left \in [sent : Seq(Nat), removed : SUBSET (1 .. enqueued)]

QueueInv == QueueTyped /\ QueueKept

(* The borders of the three parts move, the line stays.                     *)
LEMMA TakeFromQueue ==
  ASSUME NEW s \in Seq(Nat), NEW q \in Seq(Nat), q # <<>>
  PROVE  s \o <<Head(q)>> \o Tail(q) = s \o <<>> \o q
<1> DEFINE a == s \o <<Head(q)>> \o Tail(q)
           b == s \o <<>> \o q
<1>1. a \in Seq(Nat) /\ b \in Seq(Nat) /\ Len(a) = Len(b)
  OBVIOUS
<1>2. \A i \in 1 .. Len(a) : a[i] = b[i]
  OBVIOUS
<1> QED
  BY <1>1, <1>2

LEMMA HandSent ==
  ASSUME NEW s \in Seq(Nat), NEW h \in Nat, NEW q \in Seq(Nat)
  PROVE  Append(s, h) \o <<>> \o q = s \o <<h>> \o q
OBVIOUS

LEMMA HandPutBack ==
  ASSUME NEW s \in Seq(Nat), NEW h \in Nat, NEW q \in Seq(Nat)
  PROVE  s \o <<>> \o (<<h>> \o q) = s \o <<h>> \o q
OBVIOUS

LEMMA AppendBehind ==
  ASSUME NEW p \in Seq(Nat), NEW q \in Seq(Nat), NEW x \in Nat
  PROVE  p \o Append(q, x) = Append(p \o q, x)
OBVIOUS

(* What QueueKept says of a line l: n messages were queued, those of r have *)
(* been removed.                                                            *)
Kept(l, n, r) == InOrder(l) /\ {l[i] : i \in DOMAIN l} = (1 .. n) \ r

LEMMA KeptIsKept == QueueKept <=> Kept(Line, enqueued, left.removed)
BY DEF QueueKept, Kept, Line, Hand

(* The next message is the latest.                                          *)
LEMMA KeptAppend ==
  ASSUME NEW l \in Seq(Nat), NEW n \in Nat, NEW r \in SUBSET (1 .. n), Kept(l, n, r)
  PROVE  Kept(Append(l, n + 1), n + 1, r)
<1> DEFINE m == Append(l, n + 1)
<1>1. /\ m \in Seq(Nat) /\ Len(m) = Len(l) + 1 /\ m[Len(l) + 1] = n + 1
      /\ \A i \in 1 .. Len(l) : m[i] = l[i]
      /\ DOMAIN m = 1 .. Len(l) + 1 /\ DOMAIN l = 1 .. Len(l) /\ Len(l) \in Nat
  OBVIOUS
<1> HIDE DEF m
<1>2. \A i \in 1 .. Len(l) : l[i] \in (1 .. n) \ r
  BY <1>1 DEF Kept
<1>3. InOrder(m)
  <2>1. SUFFICES ASSUME NEW i \in 1 .. Len(l) + 1, NEW j \in 1 .. Len(l) + 1, i < j
                 PROVE  m[i] < m[j]
    BY <1>1 DEF InOrder
  <2>2. i \in 1 .. Len(l) /\ m[i] = l[i]
    BY <1>1, <2>1
  <2>3. CASE j = Len(l) + 1
    BY <1>1, <1>2, <2>2, <2>3
  <2>4. CASE j \in 1 .. Len(l)
    BY <1>1, <2>1, <2>2, <2>4 DEF Kept, InOrder
  <2> QED
    BY <1>1, <2>3, <2>4
<1>4. {m[i] : i \in DOMAIN m} = {l[i] : i \in DOMAIN l} \cup {n + 1}
  BY <1>1
<1>5. {l[i] : i \in DOMAIN l} = (1 .. n) \ r
  BY DEF Kept
<1>6. ((1 .. n) \ r) \cup {n + 1} = (1 .. n + 1) \ r
  OBVIOUS
<1> QED
  BY <1>3, <1>4, <1>5, <1>6 DEF Kept, m

(* The places of a line beside one that is taken out.                        *)
LEMMA PlacesBeside ==
  ASSUME NEW N \in Nat, NEW at \in 1 .. N, NEW k \in 1 .. N
  PROVE  /\ k < at => k \in 1 .. N - 1
         /\ k > at => k - 1 \in 1 .. N - 1
         /\ k # at => k < at \/ k > at
OBVIOUS

(* A message that is taken out of a line is not in it any more, and the      *)
(* others keep their order.                                                 *)
LEMMA KeptWithout ==
  ASSUME NEW l \in Seq(Nat), NEW N \in Nat, Len(l) = N, NEW at \in 1 .. N,
         NEW m \in Seq(Nat), Len(m) = N - 1,
         \A k \in 1 .. N : k < at => m[k] = l[k],
         \A k \in 1 .. N : k > at => m[k - 1] = l[k],
         NEW n \in Nat, NEW r, Kept(l, n, r)
  PROVE  Kept(m, n, r \cup {l[at]})
<1>1. DOMAIN l = 1 .. N /\ DOMAIN m = 1 .. N - 1 /\ \A k \in 1 .. N : l[k] \in Nat
  <2>1. DOMAIN l = 1 .. N
    OBVIOUS
  <2>2. DOMAIN m = 1 .. N - 1
    OBVIOUS
  <2>3. \A k \in 1 .. N : l[k] \in Nat
    OBVIOUS
  <2> QED
    BY <2>1, <2>2, <2>3
<1>2. InOrder(l) /\ {l[k] : k \in DOMAIN l} = (1 .. n) \ r
  BY DEF Kept
<1>3. \A j, k \in 1 .. N : j < k => l[j] < l[k]
  BY <1>1, <1>2 DEF InOrder
<1>4. \A k \in 1 .. N - 1 : k >= at => k + 1 \in 1 .. N /\ m[k] = l[k + 1]
  <2>1. SUFFICES ASSUME NEW k \in 1 .. N - 1, k >= at
                 PROVE  k + 1 \in 1 .. N /\ m[k] = l[k + 1]
    OBVIOUS
  <2>2. k + 1 \in 1 .. N /\ k + 1 > at /\ (k + 1) - 1 = k
    BY <2>1
  <2> QED
    BY <2>2
<1>5. InOrder(m)
  <2>1. SUFFICES ASSUME NEW j \in 1 .. N - 1, NEW k \in 1 .. N - 1, j < k PROVE m[j] < m[k]
    BY <1>1 DEF InOrder
  <2>2. CASE k < at
    BY <1>3, <1>4, <2>1, <2>2
  <2>3. CASE j < at /\ k >= at
    BY <1>3, <1>4, <2>1, <2>3
  <2>4. CASE j >= at
    <3>0. k >= at
      BY <2>1, <2>4
    <3>1. m[j] = l[j + 1] /\ j + 1 \in 1 .. N
      BY <1>4, <2>4
    <3>3. m[k] = l[k + 1] /\ k + 1 \in 1 .. N
      BY <1>4, <3>0
    <3>2. j + 1 < k + 1
      BY <2>1
    <3> QED
      BY <1>3, <3>1, <3>2, <3>3
  <2> QED
    BY <2>1, <2>2, <2>3, <2>4
<1>6. \A k \in 1 .. N : l[k] = l[at] => k = at
  <2>1. SUFFICES ASSUME NEW k \in 1 .. N, k # at PROVE l[k] # l[at]
    OBVIOUS
  <2>2. l[k] \in Nat /\ l[at] \in Nat /\ (l[k] < l[at] \/ l[at] < l[k])
    BY <1>1, <1>3, <2>1
  <2> QED
    BY <2>2
<1>7. ASSUME NEW k \in 1 .. N - 1 PROVE (\E j \in 1 .. N : l[j] = m[k]) /\ m[k] # l[at]
  <2>1. CASE k < at
    <3>1. k \in 1 .. N /\ m[k] = l[k] /\ k # at
      BY <2>1
    <3> QED
      BY <1>6, <3>1
  <2>2. CASE k >= at
    <3>1. k + 1 \in 1 .. N /\ m[k] = l[k + 1] /\ k + 1 # at
      BY <1>4, <2>2
    <3> QED
      BY <1>6, <3>1
  <2> QED
    BY <2>1, <2>2
<1>8. ASSUME NEW k \in 1 .. N, l[k] # l[at] PROVE \E j \in 1 .. N - 1 : m[j] = l[k]
  <2>1. CASE k < at
    <3>1. k \in 1 .. N - 1
      BY <2>1, PlacesBeside
    <3>2. m[k] = l[k]
      BY <2>1
    <3> QED
      BY <3>1, <3>2
  <2>2. CASE k > at
    <3>1. k - 1 \in 1 .. N - 1
      BY <2>2, PlacesBeside
    <3>2. m[k - 1] = l[k]
      BY <2>2
    <3> QED
      BY <3>1, <3>2
  <2>3. k # at
    BY <1>8
  <2>4. k < at \/ k > at
    BY <2>3, PlacesBeside
  <2> QED
    BY <2>1, <2>2, <2>4
<1> DEFINE in == {l[k] : k \in 1 .. N}
           out == {m[k] : k \in 1 .. N - 1}
<1>9. out \subseteq in \ {l[at]}
  <2>1. SUFFICES ASSUME NEW k \in 1 .. N - 1 PROVE m[k] \in in /\ m[k] # l[at]
    OBVIOUS
  <2>2. PICK j \in 1 .. N : l[j] = m[k]
    BY <1>7
  <2>3. m[k] # l[at]
    BY <1>7
  <2> QED
    BY <2>2, <2>3
<1>10. in \ {l[at]} \subseteq out
  <2>1. SUFFICES ASSUME NEW k \in 1 .. N, l[k] # l[at] PROVE l[k] \in out
    OBVIOUS
  <2>2. PICK j \in 1 .. N - 1 : m[j] = l[k]
    BY <1>8, <2>1
  <2> QED
    BY <2>2
<1>11. {m[k] : k \in DOMAIN m} = out /\ {l[k] : k \in DOMAIN l} = in
  BY <1>1
<1> HIDE DEF in, out
<1>12. {m[k] : k \in DOMAIN m} = (1 .. n) \ (r \cup {l[at]})
  BY <1>2, <1>9, <1>10, <1>11
<1> QED
  BY <1>5, <1>12 DEF Kept

(* The places of a concatenation.                                           *)
LEMMA Places ==
  ASSUME NEW s \in Seq(Nat), NEW t \in Seq(Nat)
  PROVE  /\ s \o t \in Seq(Nat) /\ Len(s \o t) = Len(s) + Len(t)
         /\ \A k \in 1 .. Len(s) : (s \o t)[k] = s[k]
         /\ \A k \in 1 .. Len(t) : (s \o t)[Len(s) + k] = t[k]
OBVIOUS

(* The same of a message in the waiting part.                               *)
LEMMA KeptRemove ==
  ASSUME NEW p \in Seq(Nat), NEW q \in Seq(Nat), NEW i \in 1 .. Len(q),
         NEW n \in Nat, NEW r, Kept(p \o q, n, r)
  PROVE  Kept(p \o (SubSeq(q, 1, i - 1) \o SubSeq(q, i + 1, Len(q))), n, r \cup {q[i]})
<1> DEFINE a == SubSeq(q, 1, i - 1)
           b == SubSeq(q, i + 1, Len(q))
           P == Len(p)
           Q == Len(q)
           ab == a \o b
           l == p \o q
           m == p \o ab
<1>1. P \in Nat /\ Q \in Nat /\ i \in 1 .. Q
  OBVIOUS
<1>2. /\ a \in Seq(Nat) /\ b \in Seq(Nat)
      /\ Len(a) = i - 1 /\ Len(b) = Q - i
      /\ \A k \in 1 .. i - 1 : a[k] = q[k]
      /\ \A k \in 1 .. Q - i : b[k] = q[k + i]
  <2>1. a \in Seq(Nat) /\ Len(a) = i - 1
    OBVIOUS
  <2>2. b \in Seq(Nat) /\ Len(b) = Q - i
    OBVIOUS
  <2>3. \A k \in 1 .. i - 1 : a[k] = q[k]
    OBVIOUS
  <2>4. \A k \in 1 .. Q - i : b[k] = q[k + i]
    OBVIOUS
  <2> QED
    BY <2>1, <2>2, <2>3, <2>4
<1>3. /\ l \in Seq(Nat) /\ Len(l) = P + Q
      /\ \A k \in 1 .. P : l[k] = p[k]
      /\ \A k \in 1 .. Q : l[P + k] = q[k]
  BY Places
<1>9. Kept(l, n, r)
  OBVIOUS
<1> HIDE DEF a, b, l
<1>4. /\ ab \in Seq(Nat) /\ Len(ab) = (i - 1) + (Q - i)
      /\ \A k \in 1 .. i - 1 : ab[k] = a[k]
      /\ \A k \in 1 .. Q - i : ab[(i - 1) + k] = b[k]
  <2> HIDE DEF Q
  <2>1. /\ ab \in Seq(Nat) /\ Len(ab) = Len(a) + Len(b)
        /\ \A k \in 1 .. Len(a) : ab[k] = a[k]
        /\ \A k \in 1 .. Len(b) : ab[Len(a) + k] = b[k]
    BY <1>2, Places
  <2> HIDE DEF ab
  <2> QED
    BY <1>2, <2>1
<1> HIDE DEF ab
<1>5. /\ m \in Seq(Nat) /\ Len(m) = P + ((i - 1) + (Q - i))
      /\ \A k \in 1 .. P : m[k] = p[k]
      /\ \A k \in 1 .. (i - 1) + (Q - i) : m[P + k] = ab[k]
  <2>1. /\ m \in Seq(Nat) /\ Len(m) = P + Len(ab)
        /\ \A k \in 1 .. P : m[k] = p[k]
        /\ \A k \in 1 .. Len(ab) : m[P + k] = ab[k]
    BY <1>4, Places
  <2> HIDE DEF m, P, Q
  <2> QED
    BY <1>4, <2>1
<1> HIDE DEF m, P, Q
<1>6. ASSUME NEW k \in 1 .. P + Q, k < P + i PROVE m[k] = l[k]
  <2>1. CASE k <= P
    <3>1. k \in 1 .. P
      BY <1>1, <2>1
    <3> QED
      BY <1>3, <1>5, <3>1
  <2>2. CASE k > P
    <3>1. PICK j \in 1 .. i - 1 : k = P + j
      <4>1. k - P \in 1 .. i - 1 /\ k = P + (k - P)
        BY <1>1, <1>6, <2>2
      <4> QED
        BY <4>1
    <3>2. j \in 1 .. Q /\ j \in 1 .. (i - 1) + (Q - i)
      BY <1>1, <3>1
    <3> QED
      BY <1>2, <1>3, <1>4, <1>5, <3>1, <3>2
  <2> QED
    BY <1>1, <2>1, <2>2
<1>7. ASSUME NEW k \in 1 .. P + Q, k > P + i PROVE m[k - 1] = l[k]
  <2>1. PICK j \in 1 .. Q - i : k = P + (i + j)
    <3>1. k - P - i \in 1 .. Q - i /\ k = P + (i + (k - P - i))
      BY <1>1, <1>7
    <3> QED
      BY <3>1
  <2>2. /\ k - 1 = P + ((i - 1) + j) /\ (i - 1) + j \in 1 .. (i - 1) + (Q - i)
        /\ i + j = j + i /\ i + j \in 1 .. Q
    BY <1>1, <2>1
  <2>3. m[k - 1] = ab[(i - 1) + j]
    BY <1>5, <2>2
  <2>4. ab[(i - 1) + j] = b[j] /\ b[j] = q[j + i]
    BY <1>2, <1>4, <2>1
  <2>5. l[k] = q[i + j]
    BY <1>3, <2>1, <2>2
  <2> QED
    BY <2>2, <2>3, <2>4, <2>5
<1>8. /\ P + Q \in Nat /\ P + i \in 1 .. P + Q /\ P + ((i - 1) + (Q - i)) = (P + Q) - 1
      /\ l[P + i] = q[i]
  <2>1. P + Q \in Nat /\ P + i \in 1 .. P + Q /\ P + ((i - 1) + (Q - i)) = (P + Q) - 1
    BY <1>1
  <2> QED
    BY <1>1, <1>3, <2>1
<1>10. Kept(m, n, r \cup {l[P + i]})
  <2> DEFINE N == P + Q
             at == P + i
  <2>1. /\ N \in Nat /\ Len(l) = N /\ at \in 1 .. N /\ Len(m) = N - 1
        /\ l \in Seq(Nat) /\ m \in Seq(Nat)
    BY <1>3, <1>5, <1>8
  <2>2. \A k \in 1 .. N : k < at => m[k] = l[k]
    BY <1>6
  <2>3. \A k \in 1 .. N : k > at => m[k - 1] = l[k]
    BY <1>7
  <2> HIDE DEF N, at
  <2>4. Kept(m, n, r \cup {l[at]})
    BY <1>9, <2>1, <2>2, <2>3, KeptWithout
  <2> QED
    BY <2>4 DEF at
<1> QED
  BY <1>8, <1>10 DEF m, ab, a, b

(* A step that moves the borders.                                           *)
LEMMA LineStays ==
  ASSUME QueueInv, QueueTyped', Line' = Line, enqueued' = enqueued, left'.removed = left.removed
  PROVE  QueueInv'
<1>1. Kept(Line, enqueued, left.removed)
  BY KeptIsKept DEF QueueInv
<1>2. Kept(Line', enqueued', left'.removed)
  BY <1>1
<1>3. QueueKept'
  BY <1>2 DEF QueueKept, Kept, Line, Hand
<1> QED
  BY <1>3 DEF QueueInv

(* A drain that has nothing in its hand comes and goes.                     *)
LEMMA DrainMoves ==
  ASSUME QueueInv, UNCHANGED <<queue, enqueued, left>>,
         \/ drain' = drain
         \/ drain.pc # "sending" /\ drain' \in {Off, [pc |-> "polling", head |-> 0]}
  PROVE  QueueInv'
<1>1. QueueTyped'
  BY DEF QueueInv, QueueTyped, Off
<1>2. Hand' = Hand
  <2>1. CASE drain' = drain
    BY <2>1 DEF Hand
  <2>2. CASE drain.pc # "sending" /\ drain'.pc # "sending"
    BY <2>2 DEF Hand
  <2> QED
    BY <2>1, <2>2 DEF Off
<1>3. Line' = Line
  BY <1>2 DEF Line
<1> QED
  BY <1>1, <1>3, LineStays

(* The subscriber of isLoading starts only a drain that is off.             *)
LEMMA TriggeredMoves ==
  ASSUME drain' = Triggered
  PROVE  \/ drain' = drain
         \/ drain.pc # "sending" /\ drain' \in {Off, [pc |-> "polling", head |-> 0]}
BY DEF Triggered

(* The end of a turn: what the drain had in its hand is sent or back in     *)
(* front.                                                                   *)
LEMMA ReturnKeeps ==
  ASSUME QueueInv, NEW consumed \in BOOLEAN, Return(consumed), enqueued' = enqueued
  PROVE  QueueInv'
<1>1. CASE drain.pc = "sending"
  <2> DEFINE s == left.sent
             h == drain.head
  <2>1. /\ s \in Seq(Nat) /\ h \in Nat /\ queue \in Seq(Nat)
        /\ left = [sent |-> s, removed |-> left.removed] /\ left.removed \in SUBSET (1 .. enqueued)
    BY DEF QueueInv, QueueTyped
  <2>2. Line = s \o <<h>> \o queue /\ drain' = Off
    BY <1>1 DEF Line, Hand, Return
  <2>3. CASE consumed
    <3>1. queue' = queue /\ left' = [sent |-> Append(s, h), removed |-> left.removed]
      BY <1>1, <2>1, <2>3 DEF Return
    <3>2. Line' = Append(s, h) \o <<>> \o queue
      BY <2>2, <3>1 DEF Line, Hand, Off
    <3>3. QueueTyped'
      BY <2>1, <2>2, <3>1 DEF QueueInv, QueueTyped, Off
    <3> QED
      BY <2>1, <2>2, <3>1, <3>2, <3>3, HandSent, LineStays
  <2>4. CASE ~consumed
    <3>1. queue' = <<h>> \o queue /\ left' = left
      BY <1>1, <2>4 DEF Return, PutBack
    <3>2. Line' = s \o <<>> \o (<<h>> \o queue)
      BY <2>2, <3>1 DEF Line, Hand, Off
    <3>3. QueueTyped'
      BY <2>1, <2>2, <3>1 DEF QueueInv, QueueTyped, Off
    <3> QED
      BY <2>1, <2>2, <3>1, <3>2, <3>3, HandPutBack, LineStays
  <2> QED
    BY <2>3, <2>4
<1>2. CASE drain.pc # "sending"
  <2>1. UNCHANGED <<queue, left>> /\ (drain' = drain \/ drain' = Triggered)
    BY <1>2 DEF Return
  <2> QED
    BY <2>1, TriggeredMoves, DrainMoves
<1> QED
  BY <1>1, <1>2

LEMMA QueueNext == ASSUME QueueInv, [Next]_vars PROVE QueueInv'
<1>1. CASE \/ ShowMessage \/ PickUpAgent \/ MakeAgent \/ RunPass \/ Rebuild \/ GoalGoesOn
           \/ CompactAfterTurn \/ PassAnswered \/ GoalCompacts \/ Crashes \/ FallBackToPrimary
           \/ SendMessage \/ ClearMessages \/ StartCompact \/ StartReset \/ ApplyCompact
           \/ FinishReset \/ UNCHANGED vars
  <2>1. UNCHANGED <<queue, enqueued, left, drain>>
    BY <1>1 DEF ShowMessage, PickUpAgent, MakeAgent, RunPass, Rebuild, GoalGoesOn,
       CompactAfterTurn, PassAnswered, GoalCompacts, Crashes, FallBackToPrimary, SendMessage,
       ClearMessages, StartCompact, StartReset, ApplyCompact, FinishReset, vars, session, aside
  <2> QED
    BY <2>1, DrainMoves
<1>2. CASE Answered \/ GoalEnds \/ GoalPassFails \/ CancelMessage \/ WatchdogFires \/ Help
  <2>1. UNCHANGED <<queue, enqueued, left>> /\ drain' = Triggered
    BY <1>2 DEF Answered, GoalEnds, GoalPassFails, CancelMessage, WatchdogFires, Help, Finalise,
       LoadingEnds
  <2> QED
    BY <2>1, TriggeredMoves, DrainMoves
<1>3. CASE SwitchSession \/ DrainEnds
  <2>1. /\ UNCHANGED <<queue, enqueued, left>>
        /\ \/ drain' = drain
           \/ drain.pc # "sending" /\ drain' \in {Off, [pc |-> "polling", head |-> 0]}
    BY <1>3 DEF SwitchSession, DrainEnds
  <2> QED
    BY <2>1, DrainMoves
<1>4. CASE Refused \/ EndAborted \/ EndFailed \/ TurnReturns
  <2>1. enqueued' = enqueued /\ \E consumed \in BOOLEAN : Return(consumed)
    BY <1>4 DEF Refused, EndAborted, EndFailed, TurnReturns
  <2> QED
    BY <2>1, ReturnKeeps
<1>5. CASE QueueMessage
  <2> DEFINE p == left.sent \o Hand
  <2>1. /\ queue \in Seq(Nat) /\ enqueued \in Nat /\ p \in Seq(Nat)
        /\ left.removed \in SUBSET (1 .. enqueued)
    BY DEF QueueInv, QueueTyped, Hand
  <2>2. /\ enqueued' = enqueued + 1 /\ queue' = Append(queue, enqueued + 1)
        /\ UNCHANGED <<drain, left>>
    BY <1>5 DEF QueueMessage
  <2>3. Line = p \o queue /\ Line' = p \o Append(queue, enqueued + 1)
    BY <2>2 DEF Line, Hand
  <2>4. QueueTyped'
    BY <2>1, <2>2 DEF QueueInv, QueueTyped
  <2>5. Kept(p \o queue, enqueued, left.removed)
    BY <2>3, KeptIsKept DEF QueueInv
  <2> HIDE DEF p
  <2>6. p \o queue \in Seq(Nat) /\ p \o Append(queue, enqueued + 1) = Append(p \o queue, enqueued + 1)
    BY <2>1, AppendBehind
  <2>7. Kept(Line', enqueued', left'.removed)
    BY <2>1, <2>2, <2>3, <2>5, <2>6, KeptAppend
  <2> QED
    BY <2>4, <2>7 DEF QueueInv, QueueKept, Kept, Line, Hand
<1>6. CASE RemoveQueued
  <2> DEFINE p == left.sent \o Hand
  <2>1. /\ queue \in Seq(Nat) /\ enqueued \in Nat /\ p \in Seq(Nat)
        /\ left = [sent |-> left.sent, removed |-> left.removed]
        /\ DOMAIN queue = 1 .. Len(queue)
    BY DEF QueueInv, QueueTyped, Hand
  <2>2. PICK i \in 1 .. Len(queue) :
          /\ queue' = SubSeq(queue, 1, i - 1) \o SubSeq(queue, i + 1, Len(queue))
          /\ left' = [left EXCEPT !.removed = @ \cup {queue[i]}]
    BY <1>6, <2>1 DEF RemoveQueued
  <2>3. /\ enqueued' = enqueued /\ drain' = drain
        /\ left'.sent = left.sent /\ left'.removed = left.removed \cup {queue[i]}
    BY <1>6, <2>1, <2>2 DEF RemoveQueued, aside
  <2>4. /\ Line = p \o queue
        /\ Line' = p \o (SubSeq(queue, 1, i - 1) \o SubSeq(queue, i + 1, Len(queue)))
    BY <2>2, <2>3 DEF Line, Hand
  <2>5. Kept(p \o queue, enqueued, left.removed)
    BY <2>4, KeptIsKept DEF QueueInv
  <2> HIDE DEF p
  <2>6. queue[i] \in 1 .. enqueued
    <3>1. Len(p) + i \in DOMAIN (p \o queue) /\ (p \o queue)[Len(p) + i] = queue[i]
      BY <2>1
    <3> QED
      BY <2>5, <3>1 DEF Kept
  <2>7. queue' \in Seq(Nat)
    <3>1. SubSeq(queue, 1, i - 1) \in Seq(Nat) /\ SubSeq(queue, i + 1, Len(queue)) \in Seq(Nat)
      BY <2>1
    <3> QED
      BY <2>2, <3>1
  <2>8. QueueTyped'
    BY <2>2, <2>3, <2>6, <2>7 DEF QueueInv, QueueTyped
  <2>9. Kept(Line', enqueued', left'.removed)
    <3>1. Kept(p \o (SubSeq(queue, 1, i - 1) \o SubSeq(queue, i + 1, Len(queue))), enqueued,
               left.removed \cup {queue[i]})
      BY <2>1, <2>5, KeptRemove
    <3> QED
      BY <2>3, <2>4, <3>1
  <2> QED
    BY <2>8, <2>9 DEF QueueInv, QueueKept, Kept, Line, Hand
<1>7. CASE DrainSends
  <2>1. queue \in Seq(Nat) /\ left.sent \in Seq(Nat)
    BY DEF QueueInv, QueueTyped
  <2>2. /\ UNCHANGED <<enqueued, left>> /\ drain.pc = "polling" /\ queue # <<>>
        /\ drain' = [pc |-> "sending", head |-> Head(queue)] /\ queue' = Tail(queue)
    BY <1>7 DEF DrainSends
  <2>3. Head(queue) \in Nat /\ Tail(queue) \in Seq(Nat)
    BY <2>1, <2>2
  <2>4. QueueTyped'
    BY <2>2, <2>3 DEF QueueInv, QueueTyped
  <2>5. Line = left.sent \o <<>> \o queue /\ Line' = left.sent \o <<Head(queue)>> \o Tail(queue)
    BY <2>2 DEF Line, Hand
  <2>6. Line' = Line
    BY <2>1, <2>2, <2>5, TakeFromQueue
  <2> QED
    BY <2>2, <2>4, <2>6, LineStays
<1> QED
  BY <1>1, <1>2, <1>3, <1>4, <1>5, <1>6, <1>7 DEF Next, TurnStep, Replies, UserStep

(* No queued message is lost or sent twice, and they are sent in the order  *)
(* they were queued, however turns end and are refused, sessions are        *)
(* switched and messages are removed: QueueKept, for any number of them.    *)
THEOREM QueueKeptHolds == Spec => []QueueKept
<1>1. Init => QueueInv
  BY DEF Init, QueueInv, QueueTyped, QueueKept, InOrder, Off
<1>2. QueueInv /\ [Next]_vars => QueueInv'
  BY QueueNext
<1>3. QueueInv => QueueKept
  BY DEF QueueInv
<1> QED
  BY <1>1, <1>2, <1>3, PTL DEF Spec

-----------------------------------------------------------------------------
(* NoAmnesia.  As long as nothing disturbs, the agent the store holds knows *)
(* what the session shows, and a turn that is awaited keeps the base its    *)
(* next agent would be built from.                                          *)
Remembers ==
  upset = {} =>
    /\ turn.cancelled => turn.pc = "running" /\ agent.st # "alive"
    /\ turn.pc \in {"ready", "running", "verifying"} /\ agent.st = "alive" => held
    /\ turn.pc = "hydrating" /\ turn.has /\ agent.st = "alive" => held
    /\ Awaited => turn.id \in msgs
    /\ turn.pc \in {"ready", "running", "verifying", "backoff"} /\ ~turn.halted
         => turn.base = msgs \ {turn.id}
    /\ held /\ agent.st = "alive" =>
         IF turn.pc \in {"idle", "preparing", "verifying", "tail", "compacted"}
         THEN agent.knows = msgs
         ELSE agent.knows \ {turn.id} = msgs \ {turn.id}

(* What the other invariants say of an undisturbed run.                     *)
LEMMA Undisturbed ==
  ASSUME IInv, Caught, upset = {}
  PROVE  /\ loading <=> Awaited
         /\ turn.current
         /\ compact.pc # "idle" => turn.pc = "idle"
         /\ reset.pc # "idle" => turn.pc # "preparing" /\ ~Awaited
         /\ turn.pc \in {"hydrating", "backoff"} => ~turn.halted
         /\ turn.pc = "running" /\ turn.halted => turn.cancelled \/ agent.st = "gone"
         /\ turn.pc \in {"ready", "running", "verifying"} /\ ~turn.halted
              => held \/ agent.st = "gone"
BY DEF IInv, Unlocked, Manned, Caught, Calm

LEMMA RemembersOwn ==
  ASSUME IInv, Caught, Remembers, TurnStep, upset \subseteq upset'
  PROVE  Remembers'
<1> SUFFICES ASSUME upset' = {} PROVE Remembers'
  BY DEF Remembers
<1>0. upset = {}
  OBVIOUS
<1> USE <1>0, Undisturbed
<1> USE DEF IInv, Shaped, Fields, StopKnown, Remembers, Awaited, Working, session, aside,
       Forget, KeepAll, CreateAgent, Finalise, NoTurn, NoAgent
<1>1. CASE Refused
  BY <1>1 DEF Refused, Return
<1>2. CASE ShowMessage
  BY <1>2 DEF ShowMessage
<1>3. CASE PickUpAgent
  BY <1>3 DEF PickUpAgent
<1>4. CASE MakeAgent
  BY <1>4 DEF MakeAgent
<1>5. CASE RunPass
  BY <1>5 DEF RunPass
<1>6. CASE Rebuild
  BY <1>6 DEF Rebuild
<1>7. CASE EndAborted
  BY <1>7 DEF EndAborted, StillCurrent, Return
<1>8. CASE GoalGoesOn
  BY <1>8 DEF GoalGoesOn
<1>9. CASE GoalEnds
  BY <1>9 DEF GoalEnds
<1>10. CASE CompactAfterTurn
  BY <1>10 DEF CompactAfterTurn
<1>11. CASE TurnReturns
  BY <1>11 DEF TurnReturns, Return
<1> QED
  BY <1>1, <1>2, <1>3, <1>4, <1>5, <1>6, <1>7, <1>8, <1>9, <1>10, <1>11 DEF TurnStep

LEMMA RemembersReply ==
  ASSUME IInv, Caught, Remembers, Replies, upset \subseteq upset'
  PROVE  Remembers'
<1> SUFFICES ASSUME upset' = {} PROVE Remembers'
  BY DEF Remembers
<1>0. upset = {}
  OBVIOUS
<1> USE <1>0, Undisturbed
<1> USE DEF IInv, Shaped, Fields, StopKnown, Remembers, Awaited, Working, session, aside,
       Answers, Forget, KeepAll, CreateAgent, Finalise, Happens, Happen, NoTurn, NoAgent
<1>1. CASE Answered
  BY <1>1 DEF Answered
<1>2. CASE PassAnswered
  BY <1>2 DEF PassAnswered
<1>3. CASE GoalPassFails
  BY <1>3 DEF GoalPassFails
<1>4. CASE GoalCompacts
  BY <1>4 DEF GoalCompacts
<1>5. CASE Crashes
  BY <1>5 DEF Crashes
<1>6. CASE FallBackToPrimary
  BY <1>6 DEF FallBackToPrimary
<1>7. CASE EndFailed
  BY <1>7 DEF EndFailed, StillCurrent, ForgetFailed, Return
<1> QED
  BY <1>1, <1>2, <1>3, <1>4, <1>5, <1>6, <1>7 DEF Replies

LEMMA RemembersElse ==
  ASSUME IInv, Caught, Remembers, upset \subseteq upset',
         \/ UserStep \/ WatchdogFires \/ DrainSends \/ DrainEnds \/ ApplyCompact
         \/ FinishReset \/ UNCHANGED vars
  PROVE  Remembers'
<1> SUFFICES ASSUME upset' = {} PROVE Remembers'
  BY DEF Remembers
<1>0. upset = {}
  OBVIOUS
<1> USE <1>0, Undisturbed
<1> USE DEF IInv, Shaped, Fields, StopKnown, Remembers, Awaited, Working, session, aside,
       Dispose, LeaveAgent, Invalidate, Happens, Happen, NoTurn, NoAgent
<1>1. CASE SendMessage
  BY <1>1 DEF SendMessage, Begin, Guarded, OneAtATime, MayBegin
<1>2. CASE DrainSends
  BY <1>2 DEF DrainSends, Begin, Guarded, OneAtATime, MayBegin
<1>3. CASE QueueMessage \/ RemoveQueued \/ DrainEnds \/ StartCompact \/ StartReset
  <2>1. UNCHANGED <<turn, agent, held, msgs>>
    BY <1>3 DEF QueueMessage, RemoveQueued, DrainEnds, StartCompact, StartReset
  <2> QED
    BY <2>1
<1>4. CASE CancelMessage
  <2>1. turn.pc \in Working /\ ~turn.halted
    BY <1>4 DEF CancelMessage
  <2>2. /\ turn' = [turn EXCEPT !.stop = TRUE, !.halted = TRUE, !.cancelled = CancelSession]
        /\ held' = FALSE /\ msgs' = msgs
    BY <1>4, <2>1 DEF CancelMessage
  <2>3. turn'.pc = turn.pc /\ turn'.halted /\ turn'.cancelled = CancelSession
    BY <2>2
  <2>4. turn.pc \notin {"hydrating", "backoff"} /\ (turn.pc = "ready" => agent'.st = "gone")
    BY <1>4 DEF CancelMessage
  <2>5. agent'.st = "alive" => ~held /\ agent' = agent
    <3>1. Invalidate /\ "st" \in DOMAIN agent
      BY <1>4 DEF CancelMessage
    <3>2. [agent EXCEPT !.st = "detached"].st = "detached" /\ NoAgent.st = "gone"
      BY <3>1
    <3> QED
      BY <3>1, <3>2
  <2>6. turn.pc \in {"ready", "running", "verifying"} => agent'.st # "alive"
    BY <2>1, <2>5
  <2> QED
    BY <2>2, <2>3, <2>4, <2>6 DEF CancelSession
<1>5. CASE Help
  BY <1>5 DEF Help
<1>6. CASE SwitchSession
  BY <1>6 DEF SwitchSession
<1>7. CASE ClearMessages
  BY <1>7 DEF ClearMessages
<1>8. CASE WatchdogFires
  BY <1>8 DEF WatchdogFires
<1>9. CASE ApplyCompact
  BY <1>9 DEF ApplyCompact
<1>10. CASE FinishReset
  BY <1>10 DEF FinishReset
<1>11. CASE UNCHANGED vars
  BY <1>11 DEF vars
<1> QED
  BY <1>1, <1>2, <1>3, <1>4, <1>5, <1>6, <1>7, <1>8, <1>9, <1>10, <1>11 DEF UserStep

LEMMA RemembersInit == Init => Remembers
BY DEF Init, Remembers, Awaited, Working, NoTurn, NoAgent

LEMMA RemembersNext == IInv /\ Caught /\ Remembers /\ [Next]_vars => Remembers'
<1> SUFFICES ASSUME IInv, Caught, Remembers, [Next]_vars PROVE Remembers'
  OBVIOUS
<1>0. upset \subseteq upset'
  BY UpsetGrows
<1> QED
  BY <1>0, RemembersOwn, RemembersReply, RemembersElse DEF Next

(* A turn runs on an agent that knows every other turn of the session and   *)
(* none that is gone, after cancels, errors, crashes, rebuilt agents,       *)
(* compactions, resets, cleared and switched sessions: NoAmnesia.           *)
THEOREM NoAmnesiaHolds == Spec => []NoAmnesia
<1>1. IInv /\ Caught /\ Remembers => NoAmnesia
  BY DEF Remembers, NoAmnesia
<1> QED
  BY <1>1, IInvInit, IInvNext, CaughtInit, CaughtNext, RemembersInit, RemembersNext, PTL DEF Spec
================================================================================
