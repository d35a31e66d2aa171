-------------------------------- MODULE ChatIdle --------------------------------
(***************************************************************************)
(* The idle backstop of a chat turn: chatIdleWatchdog.ts and the timer     *)
(* handleChat of agentRuntimeLoop.ts binds to it.  One module-level pair   *)
(* of counters, bound to one turn at a time, counts every fetch of the     *)
(* worker and every tool or main-thread request that pauses the timer;     *)
(* the timer ends the turn when it fires while both counters are zero.     *)
(*                                                                         *)
(* A fetch belongs to the turn (its own or a sub-agent's) or to an app     *)
(* agent, which runs in the same worker beside the turns.  A cancelled     *)
(* turn may leave fetches and tools behind that end later.                 *)
(*                                                                         *)
(* Elapsed time is not modelled: a timer that is armed may fire.           *)
(***************************************************************************)
EXTENDS Naturals, FiniteSets

CONSTANTS
  MaxTurns,  \* bound of the model: how many turns are run
  Activity   \* bound of the model: names for what is in flight

ASSUME ConstantsAssumption ==
  /\ MaxTurns \in Nat \ {0}
  /\ IsFiniteSet(Activity)

Turns == 1 .. MaxTurns
AppAgent == 0

VARIABLES
  turns,     \* how many turns have been bound
  bound,     \* the turn armChatIdle and clearChatIdle belong to, 0 for null
  depth,     \* chatIdlePauseDepth
  count,     \* inflightFetchCount
  armed,     \* the bound turn's idleTimer is set
  waiting,   \* permissionWaitActive
  fetches,   \* activities that are fetches in flight
  pauses,    \* activities that are tools or requests in flight
  by,        \* the turn each activity belongs to
  shared,    \* history: turns in which an activity not their own was in flight
  harmed,    \* history: turns ended by the timer with an activity in flight
  waited     \* history: a permission wait fell into the bound turn

vars == <<turns, bound, depth, count, armed, waiting, fetches, pauses, by, shared, harmed, waited>>

Free == Activity \ (fetches \cup pauses)
Own(t) == {a \in fetches \cup pauses : by[a] = t}

Less(n) == IF n > 0 THEN n - 1 ELSE 0

Init ==
  /\ turns = 0 /\ bound = 0
  /\ depth = 0 /\ count = 0
  /\ armed = FALSE /\ waiting = FALSE
  /\ fetches = {} /\ pauses = {} /\ by = [a \in Activity |-> AppAgent]
  /\ shared = {} /\ harmed = {} /\ waited = FALSE

(* armIdle of the bound turn: no timer while a permission is waited for.   *)
Arm == armed' = ~waiting

(* pulseChatIdle.                                                          *)
Pulse == IF bound # 0 /\ depth = 0 THEN Arm ELSE UNCHANGED armed

-----------------------------------------------------------------------------
(* handleChat binds the watchdog to its turn and arms the timer.           *)
Bind ==
  /\ bound = 0 /\ turns < MaxTurns
  /\ turns' = turns + 1 /\ bound' = turns + 1
  /\ depth' = 0 /\ count' = 0
  /\ Arm
  /\ waited' = waiting
  /\ shared' = shared \cup (IF fetches \cup pauses = {} THEN {} ELSE {bound'})
  /\ UNCHANGED <<waiting, fetches, pauses, by, harmed>>

(* The turn ends, well or not, or is cancelled: the finally block.         *)
Unbind ==
  /\ bound' = 0 /\ depth' = 0 /\ count' = 0
  /\ armed' = FALSE

TurnEnds ==
  /\ bound # 0
  /\ Unbind
  /\ UNCHANGED <<turns, waiting, fetches, pauses, by, shared, harmed, waited>>

(* The wrapped fetch is called.                                            *)
StartFetch(a) ==
  /\ a \in Free
  /\ \E owner \in {bound, AppAgent} :
       /\ by' = [by EXCEPT ![a] = owner]
       /\ shared' = shared \cup ({bound} \ {owner})
  /\ fetches' = fetches \cup {a}
  /\ count' = count + 1
  /\ Pulse
  /\ UNCHANGED <<turns, bound, depth, waiting, pauses, harmed, waited>>

(* Headers or a chunk of the body arrive.                                  *)
FetchBytes(a) ==
  /\ a \in fetches
  /\ Pulse
  /\ UNCHANGED <<turns, bound, depth, count, waiting, fetches, pauses, by, shared, harmed, waited>>

(* Broken variant: a release after the turn is not counted.                *)
EndFetchWhileBound(a) ==
  /\ a \in fetches
  /\ fetches' = fetches \ {a}
  /\ count' = IF bound # 0 THEN Less(count) ELSE count
  /\ UNCHANGED <<turns, bound, depth, armed, waiting, pauses, by, shared, harmed, waited>>

(* The body is done, fails or is cancelled, or the fetch fails: release.   *)
EndFetch(a) ==
  /\ a \in fetches
  /\ fetches' = fetches \ {a}
  /\ count' = Less(count)
  /\ UNCHANGED <<turns, bound, depth, armed, waiting, pauses, by, shared, harmed, waited>>

(* pauseChatIdle: a tool of the turn starts, or the turn asks the main     *)
(* thread for a bootstrap refresh or a compaction commit.                  *)
PauseChatIdle(a) ==
  /\ bound # 0 /\ a \in Free
  /\ by' = [by EXCEPT ![a] = bound]
  /\ pauses' = pauses \cup {a}
  /\ depth' = depth + 1
  /\ armed' = FALSE
  /\ UNCHANGED <<turns, bound, count, waiting, fetches, shared, harmed, waited>>

(* Broken variant: the timer waits for the next byte or event.             *)
ResumeUnarmed(a) ==
  /\ a \in pauses
  /\ pauses' = pauses \ {a}
  /\ depth' = Less(depth)
  /\ UNCHANGED <<turns, bound, count, armed, waiting, fetches, by, shared, harmed, waited>>

(* resumeChatIdle: the tool or the request settles.                        *)
ResumeChatIdle(a) ==
  /\ a \in pauses
  /\ pauses' = pauses \ {a}
  /\ depth' = Less(depth)
  /\ IF depth' = 0 /\ bound # 0 THEN Arm ELSE UNCHANGED armed
  /\ UNCHANGED <<turns, bound, count, waiting, fetches, by, shared, harmed, waited>>

(* A stream event of the turn arms the timer, paused or not.               *)
StreamEvent ==
  /\ bound # 0
  /\ Arm
  /\ UNCHANGED <<turns, bound, depth, count, waiting, fetches, pauses, by, shared, harmed, waited>>

(* setPermissionWaitActive: nothing is done about the timer.               *)
PermissionWait ==
  /\ waiting' = ~waiting
  /\ waited' = (waited \/ waiting')
  /\ UNCHANGED <<turns, bound, depth, count, armed, fetches, pauses, by, shared, harmed>>

(* Broken variant: an in-flight fetch does not hold the timer off.         *)
IdleFiresUnlessPaused ==
  /\ armed /\ ~waiting /\ depth = 0
  /\ harmed' = harmed \cup (IF Own(bound) # {} THEN {bound} ELSE {})
  /\ Unbind
  /\ UNCHANGED <<turns, waiting, fetches, pauses, by, shared, waited>>

(* The timer fires with nothing counted: onChatIdleFired ends the turn.    *)
IdleFires ==
  /\ armed /\ ~waiting /\ depth = 0 /\ count = 0
  /\ harmed' = harmed \cup (IF Own(bound) # {} THEN {bound} ELSE {})
  /\ Unbind
  /\ UNCHANGED <<turns, waiting, fetches, pauses, by, shared, waited>>

(* It fires in a permission wait: it is off until somebody arms it.  (When *)
(* something is counted it is armed again at once, which changes nothing.) *)
IdleLapses ==
  /\ armed /\ waiting
  /\ armed' = FALSE
  /\ UNCHANGED <<turns, bound, depth, count, waiting, fetches, pauses, by, shared, harmed, waited>>

-----------------------------------------------------------------------------
Next ==
  \/ Bind \/ TurnEnds \/ StreamEvent \/ PermissionWait \/ IdleFires \/ IdleLapses
  \/ \E a \in Activity : StartFetch(a) \/ FetchBytes(a) \/ EndFetch(a)
                         \/ PauseChatIdle(a) \/ ResumeChatIdle(a)

Spec == Init /\ [][Next]_vars

(* A timer that stays armed fires.                                         *)
TimerSpec == Spec /\ WF_vars(IdleFires)

-----------------------------------------------------------------------------
(* Every variable keeps its type; the timer is armed only for a bound turn *)
(* and an activity is a fetch or a pause, not both.                        *)
TypeOK ==
  /\ turns \in 0 .. MaxTurns /\ bound \in {0, turns}
  /\ depth \in Nat /\ count \in Nat
  /\ armed \in BOOLEAN /\ (armed => bound # 0)
  /\ waiting \in BOOLEAN /\ waited \in BOOLEAN
  /\ fetches \subseteq Activity /\ pauses \subseteq Activity
  /\ fetches \cap pauses = {}
  /\ by \in [Activity -> Turns \cup {AppAgent}]
  /\ shared \subseteq Turns /\ harmed \subseteq Turns

(* chatIdleWatchdog.ts:4-8: the backstop must not end a turn while a fetch *)
(* is in flight, only when nothing is; so no turn was ended by the timer   *)
(* while a fetch, a tool or a request of its own was in flight.            *)
AbortOnlyIdle == harmed = {}

(* What the counters do achieve: a turn that has the worker for itself,    *)
(* with no app agent's fetch in flight and nothing left behind by an       *)
(* earlier turn, is not ended while something of its own is in flight.     *)
AloneNeverHarmed == harmed \subseteq shared

(* The counters never count what is not there: neither the reset at each   *)
(* bind, nor what ends after its turn, nor an app agent leaves a count     *)
(* behind that would hold the backstop off for good.                       *)
NoPhantoms ==
  /\ count <= Cardinality(fetches)
  /\ depth <= Cardinality(pauses)

(* A turn that hangs with nothing in flight, and in which no permission    *)
(* was waited for, does not stay so: the timer ends it, whatever strays    *)
(* from other turns and app agents did to the counters before              *)
(* (agentRuntimeLoop.ts:1717-1720, the last-resort hang detector).         *)
Hung == bound # 0 /\ fetches = {} /\ pauses = {} /\ ~waited
HungTurnEnds == []<>~Hung
=============================================================================
