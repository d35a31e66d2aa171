------------------------------ MODULE TurnPipeline ------------------------------
(***************************************************************************)
(* The turns of one session as the store runs them: sendMessage.ts from    *)
(* its single-execution guard to its finally block, with the recovery      *)
(* chain for crashed workers, and what agentStore.ts lets the user do      *)
(* beside a turn: stop it, queue more messages, run /compact or /help,     *)
(* reset or clear the session, look at another session.                    *)
(*                                                                         *)
(* Between two awaits the event loop runs nothing else, so an action is    *)
(* the code from one await to the next.  Of an agent the model keeps       *)
(* whether it is alive and which turns its log holds.                      *)
(***************************************************************************)
EXTENDS Integers, Sequences, FiniteSets

CONSTANTS
  MaxRebuilds,  \* CRASH_RECOVERY_MAX_WORKER_RETRIES
  MaxQueued,    \* MAX_QUEUED_TURNS
  MaxTurns,     \* bound of the model: turns begun
  MaxEnqueues,  \* bound of the model: messages put into the queue
  MaxAsides,    \* bound of the model: runs of /compact and resets
  Allowed,      \* the disturbances that may happen
  MaxUpsets     \* bound of the model: how many of them happen

(* "help":  /help or /commands during a turn;                              *)
(* "compact":  a message is sent while /compact waits for its summary;     *)
(* "reset":  a message is sent while a reset waits for the files;          *)
(* "late stop":  stop is pressed where nothing looks for it any more:      *)
(* between a crash and the next attempt, while the session is hydrated,    *)
(* before an agent that is only detached is asked, or the worker crashes   *)
(* before it answers the cancel;                                           *)
(* "goal error":  a pass of a goal fails;                                  *)
(* "clear":  the session is cleared while a turn prepares itself.          *)
Disturbances == {"help", "compact", "reset", "late stop", "goal error", "clear"}

ASSUME PipelineConstants ==
  /\ {MaxRebuilds, MaxQueued, MaxTurns, MaxEnqueues, MaxAsides, MaxUpsets} \subseteq Nat
  /\ Allowed \subseteq Disturbances

Turns == 1 .. MaxTurns
Enqueued == 1 .. MaxEnqueues

VARIABLES
  loading,   \* isLoading, and loadingSessionId is this session
  inFlight,  \* turnInFlight
  held,      \* the store's _agent is not null
  agent,     \* the agent of the store or the turn: its state, the turns in its log
  turn,      \* the running call of sendMessage
  begun,     \* how many turns ever began
  msgs,      \* the turns whose user message is in sessionMessages
  queue,     \* queuedMessages of the session
  drain,     \* drainQueuedTurn of the session, and the message it took
  enqueued,  \* how many messages were ever queued
  here,      \* activeSessionId is this session
  compact,   \* /compact in flight: the messages it summarises
  reset,     \* resetToMessage in flight: what it will keep
  asides,    \* how many of these two were ever begun
  over,      \* history: how many turns ended
  killed,    \* history: a turn ended by its agent's end that nobody stopped
  left,      \* history: queued messages that were sent, in order, or removed
  upset      \* history: the disturbances that happened

vars == <<loading, inFlight, held, agent, turn, begun, msgs, queue, drain, enqueued, here,
          compact, reset, asides, over, killed, left, upset>>

aside == <<compact, reset, asides>>

session == <<queue, drain, enqueued, here, aside, left, upset>>

NoAgent == [st |-> "gone", knows |-> {}]
NoTurn == [pc |-> "idle", id |-> 0, has |-> FALSE, stop |-> FALSE, cancelled |-> FALSE,
           halted |-> FALSE, goal |-> FALSE, base |-> {}, rebuilds |-> 0, main |-> FALSE, fell |-> FALSE,
           current |-> TRUE]
Off == [pc |-> "off", head |-> 0]
NoCompact == [pc |-> "idle", base |-> {}]
NoReset == [pc |-> "idle", keep |-> {}]

Init ==
  /\ loading = FALSE /\ inFlight = FALSE /\ held = FALSE /\ agent = NoAgent
  /\ turn = NoTurn /\ begun = 0 /\ msgs = {}
  /\ queue = <<>> /\ drain = Off /\ enqueued = 0 /\ here = TRUE
  /\ compact = NoCompact /\ reset = NoReset /\ asides = 0
  /\ over = 0 /\ killed = FALSE
  /\ left = [sent |-> <<>>, removed |-> {}] /\ upset = {}

Happen(ds) ==
  /\ ds \subseteq Allowed \ upset
  /\ upset' = upset \cup ds
  /\ Cardinality(upset') <= MaxUpsets
Happens(d) == Happen({d})

(* Beginning a turn disturbs whatever waits for a reply.                   *)
Overlap ==
  Happen({d \in {"compact"} : compact.pc # "idle"} \cup {d \in {"reset"} : reset.pc # "idle"})

-----------------------------------------------------------------------------
(* The subscriber of isLoading starts a drain when a turn ends.            *)
Triggered ==
  IF loading /\ queue # <<>> /\ drain.pc = "off" THEN [pc |-> "polling", head |-> 0] ELSE drain

(* isLoading := false                                                      *)
LoadingEnds == loading' = FALSE /\ drain' = Triggered

(* invalidateAgentHandle: an agent with app agents in flight is detached   *)
(* instead and destroys itself later.                                      *)
Invalidate ==
  /\ held' = FALSE
  /\ IF held
     THEN agent' = NoAgent \/ agent' = [agent EXCEPT !.st = "detached"]
     ELSE UNCHANGED agent

(* disposeAgentHandle, and _agent := null.                                 *)
Dispose ==
  /\ held' = FALSE
  /\ agent' = IF held THEN NoAgent ELSE agent

(* The same at the end of a turn: nobody asks the agent again.             *)
Forget == held' = FALSE /\ agent' = NoAgent

(* A turn that is not the current one any more leaves them alone.          *)
KeepAll == UNCHANGED <<loading, held>> /\ agent' = IF held THEN agent ELSE NoAgent

(* createAgent with these messages; the store holds it.                    *)
CreateAgent(knows) == held' = TRUE /\ agent' = [st |-> "alive", knows |-> knows]

Working == {"shown", "hydrating", "ready", "running", "verifying", "backoff"}

-----------------------------------------------------------------------------
(* Sending and queueing.                                                   *)

(* Broken variant: only isLoading is looked at.                            *)
MayBeginLoadingOnly == ~loading

(* The single-execution guard.                                             *)
MayBegin == ~loading /\ ~inFlight

Begin ==
  /\ MayBegin /\ begun < MaxTurns
  /\ inFlight' = TRUE
  /\ begun' = begun + 1
  /\ turn' = [NoTurn EXCEPT !.pc = "preparing", !.id = begun + 1]
  /\ Overlap

(* From the input box, or an automatic repair.                             *)
SendMessage ==
  /\ here /\ Begin
  /\ UNCHANGED <<loading, held, agent, msgs, queue, drain, enqueued, here, aside, over,
                 killed, left>>

(* During a turn the input box queues what is entered.                     *)
QueueMessage ==
  /\ loading /\ here /\ enqueued < MaxEnqueues
  /\ Len(queue) < MaxQueued
  /\ enqueued' = enqueued + 1
  /\ queue' = Append(queue, enqueued + 1)
  /\ UNCHANGED <<loading, inFlight, held, agent, turn, begun, msgs, drain, here, aside,
                 over, killed, left, upset>>

RemoveQueued ==
  /\ \E i \in DOMAIN queue :
       /\ queue' = SubSeq(queue, 1, i - 1) \o SubSeq(queue, i + 1, Len(queue))
       /\ left' = [left EXCEPT !.removed = @ \cup {queue[i]}]
  /\ UNCHANGED <<loading, inFlight, held, agent, turn, begun, msgs, drain, enqueued, here,
                 aside, over, killed, upset>>

(* One look of drainQueuedTurn at the store, every 250 ms: it takes the    *)
(* first message and calls sendMessage with it.                            *)
DrainSends ==
  /\ drain.pc = "polling" /\ queue # <<>> /\ here
  /\ Begin
  /\ drain' = [pc |-> "sending", head |-> Head(queue)]
  /\ queue' = Tail(queue)
  /\ UNCHANGED <<loading, held, agent, msgs, enqueued, here, aside, over, killed, left>>

(* The queue was emptied, or five minutes are over.                        *)
DrainEnds ==
  /\ drain.pc = "polling" /\ (queue = <<>> \/ ~MayBegin \/ ~here)
  /\ drain' = Off
  /\ UNCHANGED <<loading, inFlight, held, agent, turn, begun, msgs, queue, enqueued, here,
                 aside, over, killed, left, upset>>

(* Broken variant: a refused message goes to the end of the queue.         *)
PutBackLast(m) == Append(queue, m)
PutBack(m) == <<m>> \o queue

(* The finally block, and the end of the drain that sent the message.      *)
Return(consumed) ==
  /\ inFlight' = FALSE
  /\ turn' = NoTurn
  /\ over' = over + 1
  /\ IF drain.pc = "sending"
     THEN /\ drain' = Off
          /\ queue' = IF consumed THEN queue ELSE PutBack(drain.head)
          /\ left' = IF consumed THEN [left EXCEPT !.sent = Append(@, drain.head)] ELSE left
     ELSE /\ drain' = IF loading /\ ~loading' THEN Triggered ELSE drain
          /\ UNCHANGED <<queue, left>>

-----------------------------------------------------------------------------
(* A turn, await by await.                                                 *)

(* No workspace could be made, the history could not be loaded, a command  *)
(* could not be expanded: the message was not taken.                       *)
Refused ==
  /\ turn.pc = "preparing"
  /\ UNCHANGED loading
  /\ Return(FALSE)
  /\ UNCHANGED <<held, agent, begun, msgs, enqueued, here, aside, killed, upset>>

(* The user's message is shown; from here on the turn can be stopped.      *)
ShowMessage ==
  /\ turn.pc = "preparing"
  /\ msgs' = msgs \cup {turn.id}
  /\ loading' = TRUE
  /\ \E goal \in BOOLEAN : turn' = [turn EXCEPT !.pc = "shown", !.goal = goal]
  /\ UNCHANGED <<inFlight, held, agent, begun, over, killed, session>>

(* Broken variant: no look at _stopRequestedSeq between the awaits.        *)
GoOnStopped == TRUE
GoOn == ~turn.stop

(* The awaits for memory, tools and routes: a stop is noticed after each   *)
(* of them; then the agent of the store is picked up.                      *)
PickUpAgent ==
  /\ turn.pc = "shown" /\ GoOn
  /\ turn' = [turn EXCEPT !.pc = "hydrating", !.has = held]
  /\ UNCHANGED <<loading, inFlight, held, agent, begun, msgs, over, killed, session>>

(* The session is hydrated; an agent that was picked up is used again      *)
(* unless it crashed or its settings changed.                              *)
MakeAgent ==
  /\ turn.pc = "hydrating"
  /\ LET base == msgs \ {turn.id}
     IN  /\ turn' = [turn EXCEPT !.pc = "ready", !.base = base]
         /\ \/ /\ turn.has /\ agent.st # "crashed"
               /\ UNCHANGED <<held, agent>>
            \/ CreateAgent(base)
  /\ UNCHANGED <<loading, inFlight, begun, msgs, over, killed, session>>

(* Chat of the agent: a destroyed one rejects at once.                     *)
RunPass ==
  /\ turn.pc = "ready" /\ agent.st # "gone"
  /\ turn' = [turn EXCEPT !.pc = "running", !.cancelled = FALSE]
  /\ UNCHANGED <<loading, inFlight, held, agent, begun, msgs, over, killed, session>>

(* The agent answers; of a plain turn this is the end.                     *)
Answers ==
  /\ turn.pc = "running" /\ agent.st \in {"alive", "detached"} /\ ~turn.cancelled
  /\ agent' = [agent EXCEPT !.knows = @ \cup {turn.id}]

(* A turn is finalised, and the store's agent dropped when it was the      *)
(* emergency one of the main thread.                                       *)
Finalise ==
  /\ held' = (held /\ ~turn.main)
  /\ LoadingEnds
  /\ turn' = [NoTurn EXCEPT !.pc = "tail", !.id = turn.id, !.base = msgs,
                            !.halted = turn.halted]

Answered ==
  /\ Answers /\ ~turn.goal
  /\ Finalise
  /\ UNCHANGED <<inFlight, begun, msgs, queue, enqueued, here, aside, over, killed, left,
                 upset>>

(* A pass of a goal is verified by commands and a sub-agent.               *)
PassAnswered ==
  /\ Answers /\ turn.goal
  /\ turn' = [turn EXCEPT !.pc = "verifying"]
  /\ UNCHANGED <<loading, inFlight, held, begun, msgs, over, killed, session>>

(* Not satisfied: another pass on the same agent, unless the user stopped  *)
(* the goal.                                                               *)
GoalGoesOn ==
  /\ turn.pc = "verifying" /\ ~turn.stop
  /\ turn' = [turn EXCEPT !.pc = "ready", !.rebuilds = 0]
  /\ UNCHANGED <<loading, inFlight, held, agent, begun, msgs, over, killed, session>>

(* Every fifth round the session is compacted and gets a new agent.        *)
GoalCompacts ==
  /\ turn.pc = "verifying" /\ here
  /\ CreateAgent(msgs)
  /\ IF turn.halted /\ ~turn.stop THEN Happens("late stop") ELSE UNCHANGED upset
  /\ UNCHANGED <<loading, inFlight, turn, begun, msgs, queue, drain, enqueued, here, aside,
                 over, killed, left>>

(* Satisfied, out of rounds, stopped, or the agent was destroyed: in every *)
(* case the turn is finalised as an answered one.                          *)
GoalEnds ==
  /\ turn.goal
  /\ Finalise
  /\ \/ turn.pc = "verifying" /\ UNCHANGED killed
     \/ /\ turn.pc \in {"ready", "running"} /\ (turn.cancelled \/ agent.st = "gone")
        /\ killed' = (killed \/ ~turn.halted)
  /\ UNCHANGED <<inFlight, agent, begun, msgs, queue, enqueued, here, aside, over, left,
                 upset>>

(* A pass that fails ends the goal the same way: the agent is kept.        *)
GoalPassFails ==
  /\ turn.pc = "running" /\ turn.goal
  /\ agent.st \in {"alive", "detached"} /\ ~turn.cancelled
  /\ Happens("goal error")
  /\ Finalise
  /\ UNCHANGED <<inFlight, agent, begun, msgs, queue, enqueued, here, aside, over, killed,
                 left>>

(* The worker crashes, which the main thread's agent cannot; the turn is   *)
(* run again also when it was about to acknowledge a cancel.               *)
Crashes ==
  /\ turn.pc = "running" /\ agent.st \in {"alive", "detached"} /\ ~turn.main
  /\ agent' = [agent EXCEPT !.st = "crashed"]
  /\ turn' = [turn EXCEPT !.pc = "backoff"]
  /\ IF turn.halted THEN Happens("late stop") ELSE UNCHANGED upset
  /\ UNCHANGED <<loading, inFlight, held, begun, msgs, queue, drain, enqueued, here, aside,
                 over, killed, left>>

(* After the delay: a new worker, and after the last of them an agent on   *)
(* the main thread, on the history the turn began with.                    *)
Rebuild ==
  /\ turn.pc = "backoff"
  /\ CreateAgent(turn.base)
  /\ turn' = [turn EXCEPT !.pc = "ready", !.rebuilds = @ + 1,
                          !.main = turn.rebuilds = MaxRebuilds]
  /\ UNCHANGED <<loading, inFlight, begun, msgs, over, killed, session>>

(* The provider of the fast model fails: once more with the primary one.   *)
FallBackToPrimary ==
  /\ turn.pc = "running" /\ agent.st \in {"alive", "detached"} /\ ~turn.cancelled
  /\ ~turn.goal /\ ~turn.fell
  /\ CreateAgent(turn.base)
  /\ turn' = [turn EXCEPT !.pc = "ready", !.rebuilds = 0, !.main = FALSE, !.fell = TRUE]
  /\ UNCHANGED <<loading, inFlight, begun, msgs, over, killed, session>>

(* The turn has a stop or a destroyed agent to report.                     *)
Aborts ==
  \/ turn.pc = "shown" /\ turn.stop
  \/ turn.pc = "ready" /\ (turn.stop \/ (agent.st = "gone" /\ ~turn.goal))
  \/ turn.pc = "running" /\ ~turn.goal /\ (turn.cancelled \/ agent.st = "gone")

(* Broken variant: a turn that nobody watches leaves isLoading set.        *)
StillCurrentInView == turn.current /\ here

(* The turn still has the number _turnSeq, which a cleared session resets. *)
StillCurrent == turn.current

(* The quiet end of a stopped turn or of one whose agent was destroyed.    *)
EndAborted ==
  /\ Aborts
  /\ IF StillCurrent THEN loading' = FALSE /\ Forget ELSE KeepAll
  /\ killed' = (killed \/ ~turn.halted)
  /\ Return(TRUE)
  /\ UNCHANGED <<begun, msgs, enqueued, here, aside, upset>>

(* Broken variant: the agent that lacks the failed turn is kept.           *)
ForgetNothing == UNCHANGED <<held, agent>>
ForgetFailed == Forget

(* Any other error is shown, and the agent invalidated: its log lacks the  *)
(* turn.                                                                   *)
EndFailed ==
  /\ turn.pc = "running" /\ ~turn.goal /\ agent.st \in {"alive", "detached"} /\ ~turn.cancelled
  /\ IF StillCurrent THEN loading' = FALSE /\ ForgetFailed ELSE KeepAll
  /\ Return(TRUE)
  /\ UNCHANGED <<begun, msgs, enqueued, here, aside, killed, upset>>

(* After the answer a compaction may be due: it replaces the agent when    *)
(* the session is in view and the messages are still those it summarised.  *)
CompactAfterTurn ==
  /\ turn.pc = "tail" /\ ~loading /\ turn.base \subseteq msgs
  /\ turn' = [turn EXCEPT !.pc = "compacted"]
  /\ IF here THEN CreateAgent(msgs) ELSE UNCHANGED <<held, agent>>
  /\ UNCHANGED <<loading, inFlight, begun, msgs, over, killed, session>>

TurnReturns ==
  /\ turn.pc \in {"tail", "compacted"}
  /\ Return(TRUE)
  /\ KeepAll
  /\ UNCHANGED <<begun, msgs, enqueued, here, aside, killed, upset>>

-----------------------------------------------------------------------------
(* What the user does beside a turn.                                       *)

(* Broken variant: a detached agent is not told.                           *)
CancelNothing == FALSE
CancelSession == held /\ turn.pc = "running"

(* The stop button.                                                        *)
CancelMessage ==
  /\ loading
  /\ turn' = IF turn.pc = "idle" THEN turn
             ELSE [turn EXCEPT !.stop = TRUE, !.halted = TRUE, !.cancelled = CancelSession]
  /\ Invalidate
  /\ IF turn.pc \in {"hydrating", "backoff"} \/ (turn.pc = "ready" /\ agent'.st # "gone")
     THEN Happens("late stop") ELSE UNCHANGED upset
  /\ LoadingEnds
  /\ UNCHANGED <<inFlight, begun, msgs, queue, enqueued, here, aside, over, killed, left>>

(* 330 s without an event of the turn, and the store's agent, if there is  *)
(* one, has nothing in flight.                                             *)
WatchdogFires ==
  /\ loading /\ turn.pc \in Working /\ (turn.pc = "running" => ~held)
  /\ Dispose
  /\ LoadingEnds
  /\ turn' = [turn EXCEPT !.halted = TRUE]
  /\ IF turn.pc = "verifying" THEN UNCHANGED upset ELSE Happens("late stop")
  /\ UNCHANGED <<inFlight, begun, msgs, queue, enqueued, here, aside, over, killed, left>>

(* /help shows its message and clears isLoading.                           *)
Help ==
  /\ loading /\ Happens("help")
  /\ LoadingEnds
  /\ UNCHANGED <<inFlight, held, agent, turn, begun, msgs, queue, enqueued, here, aside,
                 over, killed, left>>

(* Broken variant: the agent goes although its turn is loading.            *)
LeaveAgentAlways == Dispose
LeaveAgent == IF loading THEN UNCHANGED <<held, agent>> ELSE Dispose

(* Another session is selected, or this one again, which starts a drain.   *)
SwitchSession ==
  /\ here' = ~here
  /\ LeaveAgent
  /\ drain' = IF here' /\ ~loading /\ queue # <<>> /\ drain.pc = "off"
              THEN [pc |-> "polling", head |-> 0] ELSE drain
  /\ UNCHANGED <<loading, inFlight, turn, begun, msgs, queue, enqueued, aside, over,
                 killed, left, upset>>

(* clearMessages, refused while loading.                                   *)
ClearMessages ==
  /\ here /\ ~loading
  /\ Dispose
  /\ msgs' = {}
  /\ IF turn.pc = "preparing"
     THEN turn' = [turn EXCEPT !.current = FALSE] /\ Happens("clear")
     ELSE msgs # {} /\ UNCHANGED <<turn, upset>>
  /\ UNCHANGED <<loading, inFlight, begun, over, killed, queue, drain, enqueued, here, aside,
                 left>>

(* /compact is refused during a turn; then it waits for a summary.         *)
StartCompact ==
  /\ here /\ ~loading /\ ~inFlight /\ compact.pc = "idle" /\ msgs # {}
  /\ asides < MaxAsides /\ asides' = asides + 1
  /\ compact' = [pc |-> "busy", base |-> msgs]
  /\ UNCHANGED <<loading, inFlight, held, agent, turn, begun, msgs, queue, drain, enqueued,
                 here, reset, over, killed, left, upset>>

(* The checkpoint goes in when the messages it was made from are still     *)
(* there, and the agent of the session is destroyed.                       *)
ApplyCompact ==
  /\ compact.pc = "busy"
  /\ compact' = NoCompact
  /\ \/ UNCHANGED <<held, agent>>
     \/ compact.base \subseteq msgs /\ here /\ Invalidate
  /\ UNCHANGED <<loading, inFlight, turn, begun, msgs, queue, drain, enqueued, here, reset,
                 asides, over, killed, left, upset>>

(* resetToMessage waits until the files are restored, then cuts the        *)
(* messages it read before.                                                *)
StartReset ==
  /\ here /\ ~loading /\ reset.pc = "idle"
  /\ asides < MaxAsides /\ asides' = asides + 1
  /\ \E m \in msgs : reset' = [pc |-> "busy", keep |-> {x \in msgs : x < m}]
  /\ IF inFlight /\ turn.pc = "preparing" THEN Happens("reset") ELSE UNCHANGED upset
  /\ UNCHANGED <<loading, inFlight, held, agent, turn, begun, msgs, queue, drain, enqueued,
                 here, compact, over, killed, left>>

FinishReset ==
  /\ reset.pc = "busy"
  /\ reset' = NoReset
  /\ \/ UNCHANGED <<held, agent, msgs>>
     \/ msgs' = reset.keep /\ Dispose
  /\ UNCHANGED <<loading, inFlight, turn, begun, queue, drain, enqueued, here, compact,
                 asides, over, killed, left, upset>>

-----------------------------------------------------------------------------
TurnStep ==
  \/ Refused \/ ShowMessage \/ PickUpAgent \/ MakeAgent \/ RunPass \/ Rebuild
  \/ EndAborted \/ GoalGoesOn \/ GoalEnds \/ CompactAfterTurn \/ TurnReturns

Replies ==
  \/ Answered \/ PassAnswered \/ GoalPassFails \/ GoalCompacts \/ Crashes
  \/ FallBackToPrimary \/ EndFailed

UserStep ==
  \/ SendMessage \/ QueueMessage \/ RemoveQueued \/ CancelMessage \/ Help \/ SwitchSession
  \/ ClearMessages \/ StartCompact \/ StartReset

Next ==
  TurnStep \/ Replies \/ UserStep \/ WatchdogFires
  \/ DrainSends \/ DrainEnds \/ ApplyCompact \/ FinishReset

(* The event loop runs the code between two awaits; what a turn awaits     *)
(* before its agent answers is bounded by the code, the answer is not.     *)
Fairness == WF_vars(TurnStep)

Spec == Init /\ [][Next]_vars /\ Fairness

-----------------------------------------------------------------------------
Calm(kinds) == upset \cap kinds = {}

TypeOK ==
  /\ {loading, inFlight, held, here, killed} \subseteq BOOLEAN
  /\ agent.st \in {"gone", "alive", "crashed", "detached"}
  /\ agent.knows \subseteq Turns
  /\ turn.id \in 0 .. begun /\ turn.rebuilds \in 0 .. MaxRebuilds + 1
  /\ begun \in 0 .. MaxTurns /\ over \in 0 .. begun /\ msgs \subseteq Turns
  /\ queue \in Seq(Enqueued) /\ enqueued \in 0 .. MaxEnqueues

(* One execution at a time: every turn that began has ended, except the    *)
(* one that holds the guard.                                               *)
OneAtATime ==
  /\ begun - over = (IF inFlight THEN 1 ELSE 0)
  /\ inFlight <=> turn.pc # "idle"

(* A turn runs on an agent whose log holds every other turn of the session *)
(* and no turn that is gone: after cancels, errors, crashes, compactions,  *)
(* cleared sessions, resets and switches.                                  *)
NoAmnesia ==
  upset = {} /\ turn.pc = "running" /\ agent.st = "alive"
  => agent.knows \ {turn.id} = msgs \ {turn.id}

(* The input box is locked, and the stop button shown, exactly as long as  *)
(* a turn works for the user that nobody stopped.                          *)
Stoppable ==
  Calm({"help", "clear"}) => (loading <=> turn.pc \in Working /\ ~turn.halted)

(* Only the user and the watchdog end a turn by destroying its agent: not  *)
(* a compaction, a reset or a session change beside it.                    *)
NotKilled == Calm({"help", "compact", "reset"}) => ~killed

(* A queued message is waiting, being sent, sent or removed, and messages  *)
(* are sent in the order they were queued.                                 *)
InOrder(s) == \A i, j \in DOMAIN s : i < j => s[i] < s[j]
QueueKept ==
  LET hand == IF drain.pc = "sending" THEN <<drain.head>> ELSE <<>>
      all == left.sent \o hand \o queue
  IN  /\ InOrder(all)
      /\ {all[i] : i \in DOMAIN all} = (1 .. enqueued) \ left.removed

(* A stopped turn asks the model nothing more.                             *)
AsksNoMore ==
  Calm({"late stop", "compact"}) /\ turn.halted
  => ~(turn.pc # "running" /\ turn'.pc = "running")
StopHolds == [][AsksNoMore]_vars

(* A turn that was stopped gives the guard back, though the provider never *)
(* answers.                                                                *)
Halted == turn.halted /\ Calm({"late stop", "compact"})
StopSettles == Halted ~> ~Halted

=============================================================================
