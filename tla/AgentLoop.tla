------------------------------- MODULE AgentLoop -------------------------------
(***************************************************************************)
(* One session's agent loop: Agent.chat of                                 *)
(* packages/@codepapr/core/src/agent/Agent.ts, run for a sequence of chats *)
(* over one append-only message log.                                       *)
(*                                                                         *)
(* Between two awaits JavaScript runs to completion, so a cancel (Abort)   *)
(* can only arrive while the loop awaits something: the model, the         *)
(* compaction handler, a back-off timer, a tool, or the spill of a long    *)
(* tool result to disk.  The steps with pc = "round" and pc = "send" are   *)
(* synchronous code and are not interruptible.                             *)
(*                                                                         *)
(* Abstracted: token counts (whether the context is over budget and        *)
(* whether a compaction shrank it enough are free choices), message text   *)
(* (only "is there any" matters), streaming events, cache statistics.      *)
(***************************************************************************)
EXTENDS Naturals, Sequences, FiniteSets

CONSTANTS
  MaxChats,          \* bound of the model: how many times chat() is called
  MaxRounds,         \* maxToolRounds
  MaxContinuations,  \* MAX_CONTINUATIONS_PER_ROUND
  MaxEmptyRetries,   \* MAX_EMPTY_COMPLETION_RETRIES_PER_ROUND
  MaxCompactions,    \* MAX_COMPACTIONS_PER_CHAT
  MaxIneffective,    \* MAX_INEFFECTIVE_COMPACTIONS
  ChunkSize,         \* PARALLEL_TOOL_CHUNK_SIZE
  Batches            \* the tool-call batches a model reply may carry

(* "safe" calls are in PARALLEL_SAFE_TOOL_NAMES, "serial" ones are not and *)
(* "bad" ones carry arguments that did not parse.                          *)
CallKinds == {"safe", "serial", "bad"}

(* normalizeMaxToolRounds guarantees at least one round.                   *)
ASSUME ConstantsAssumption ==
  /\ MaxChats \in Nat \ {0}
  /\ MaxRounds \in Nat \ {0}
  /\ MaxContinuations \in Nat
  /\ MaxEmptyRetries \in Nat
  /\ MaxCompactions \in Nat
  /\ MaxIneffective \in Nat
  /\ ChunkSize \in Nat \ {0}
  /\ Batches \subseteq Seq(CallKinds)
  /\ <<>> \notin Batches

VARIABLES
  log,        \* the session's message log
  pc,         \* where chat() stands
  chat,       \* how many chats have been started
  round,      \* round of the current chat, from 0
  aborted,    \* the chat's AbortSignal
  outcome,    \* how the last chat ended: "none", "returned" or "threw"
  answer,     \* the content chat() would return is not empty
  cont,       \* continuationAttempt of the round
  empties,    \* emptyAttempt of the round
  merged,     \* mergedContent of the round is not empty
  comp,       \* the compaction counters of the chat
  batch,      \* the tool calls being executed
  res,        \* the state of each of them
  landed,     \* how many of their results are in the log
  live,       \* tool implementations that are still running
  signalled,  \* those whose AbortSignal has fired
  unretried   \* history: a recovered request has not been sent again yet

toolVars == <<batch, res, landed>>
implVars == <<live, signalled>>
roundVars == <<cont, empties, merged>>
vars == <<log, pc, chat, round, aborted, outcome, answer, cont, empties, merged,
          comp, batch, res, landed, live, signalled, unretried>>

-----------------------------------------------------------------------------
(* Messages.  A tool call is identified by its chat, its round and its     *)
(* place in the batch.                                                     *)

CallId == Nat \X Nat \X Nat

UserMsg(body) == [role |-> "user", body |-> body, calls |-> <<>>, call |-> <<0, 0, 0>>]
AssistantMsg(ids) == [role |-> "assistant", body |-> "text", calls |-> ids, call |-> <<0, 0, 0>>]
ToolMsg(id) == [role |-> "tool", body |-> "text", calls |-> <<>>, call |-> id]
CheckpointMsg == [role |-> "checkpoint", body |-> "text", calls |-> <<>>, call |-> <<0, 0, 0>>]

Body == {"text", "image"}  \* does the message carry an image part

Message == [role : {"user", "assistant", "tool", "checkpoint"}, body : Body,
            calls : Seq(CallId), call : CallId]

(* Position i holds an assistant message and its k-th call is answered     *)
(* exactly k places further.                                               *)
AnswersFollow(l, i) ==
  \A k \in 1 .. Len(l[i].calls) : i + k \in DOMAIN l /\ l[i + k] = ToolMsg(l[i].calls[k])

(* The tool message at j answers a call of an assistant message before it. *)
HasOwner(l, j) ==
  \E i \in DOMAIN l : /\ l[i].role = "assistant"
                      /\ j - i \in 1 .. Len(l[i].calls)
                      /\ l[j] = ToolMsg(l[i].calls[j - i])

(* The wire shape every provider demands: assistant(tool_calls) is followed *)
(* at once by one result for each call, in order, and there is no result   *)
(* without its call.                                                       *)
Paired(l) ==
  /\ \A i \in DOMAIN l : l[i].role = "assistant" => AnswersFollow(l, i)
  /\ \A j \in DOMAIN l : l[j].role = "tool" => HasOwner(l, j)

-----------------------------------------------------------------------------
(* Compaction: a checkpoint in front of a verbatim tail.  The boundary is  *)
(* a user message, or, when the last round is folded, one of its assistant *)
(* turns except the first.                                                 *)

RoundTurns(l, b) ==
  {i \in 1 .. b : l[i].role = "assistant" /\ \A j \in i .. b : l[j].role # "user"}

CutPoints(l) ==
  {b \in 2 .. Len(l) :
     \/ l[b].role = "user"
     \/ /\ l[b].role = "assistant"
        /\ \A j \in b .. Len(l) : l[j].role # "user"
        /\ Cardinality(RoundTurns(l, b)) > 1}

(* Broken variant: the tail starts behind the boundary.                    *)
CompactedPastBoundary(l, b) == <<CheckpointMsg>> \o SubSeq(l, b + 1, Len(l))

Compacted(l, b) == <<CheckpointMsg>> \o SubSeq(l, b, Len(l))

FreshCounters ==
  [tries |-> 0, wasted |-> 0, coolUntil |-> 0, emergencies |-> 0]

(* Broken variant: attempts are not counted against the limit.             *)
CircuitOpenIneffectiveOnly == comp.wasted >= MaxIneffective

(* compactionBlockReason and the one-round cool-down after a failure.      *)
CircuitOpen == comp.wasted >= MaxIneffective \/ comp.tries >= MaxCompactions
CoolingDown == round < comp.coolUntil

(* recordCompactionOutcome.                                                *)
RecordOutcome(c, shrunk) ==
  [c EXCEPT !.tries = @ + 1, !.wasted = IF shrunk THEN 0 ELSE @ + 1]

HasImages(l) == \E i \in DOMAIN l : l[i].role = "user" /\ l[i].body = "image"
StripImages(l) == [i \in DOMAIN l |-> IF l[i].role = "user" THEN [l[i] EXCEPT !.body = "text"]
                                                           ELSE l[i]]

-----------------------------------------------------------------------------
Init ==
  /\ log = <<>> /\ pc = "idle" /\ chat = 0 /\ round = 0
  /\ aborted = FALSE /\ outcome = "none" /\ answer = FALSE
  /\ cont = 0 /\ empties = 0 /\ merged = FALSE
  /\ comp = FreshCounters
  /\ batch = <<>> /\ res = <<>> /\ landed = 0
  /\ live = {} /\ signalled = {}
  /\ unretried = FALSE

(* The end of chat(): the finally block, then the value or the error.      *)
Settle(how) ==
  /\ pc' = "settled"
  /\ outcome' = how

(* chat() is called: the user message enters the log and every counter of  *)
(* the chat is reset.  The caller's signal may already be aborted.         *)
StartChat ==
  /\ pc \in {"idle", "settled"}
  /\ chat < MaxChats
  /\ chat' = chat + 1
  /\ \E body \in Body : log' = Append(log, UserMsg(body))
  /\ aborted' \in BOOLEAN
  /\ pc' = "round" /\ round' = 0
  /\ outcome' = "none" /\ answer' = FALSE
  /\ cont' = 0 /\ empties' = 0 /\ merged' = FALSE
  /\ comp' = FreshCounters
  /\ unretried' = FALSE
  /\ UNCHANGED <<toolVars, implVars>>

(* The head of roundLoop finds the signal aborted or the rounds used up.   *)
EndRounds ==
  /\ pc = "round"
  /\ aborted \/ round >= MaxRounds
  /\ Settle("returned")
  /\ UNCHANGED <<log, chat, round, aborted, answer, roundVars, comp, toolVars, implVars, unretried>>

(* The head of roundLoop: over budget, circuit closed, not cooling down.   *)
BeginCompaction ==
  /\ pc = "round" /\ ~aborted /\ round < MaxRounds
  /\ ~CircuitOpen /\ ~CoolingDown
  /\ pc' = "compacting"
  /\ UNCHANGED <<log, chat, round, aborted, outcome, answer, roundVars, comp, toolVars, implVars, unretried>>

(* The head of roundLoop: within budget, or over it with no compaction to  *)
(* be had (the request is sent anyway).                                    *)
BeginRound ==
  /\ pc = "round" /\ ~aborted /\ round < MaxRounds
  /\ pc' = "send"
  /\ UNCHANGED <<log, chat, round, aborted, outcome, answer, roundVars, comp, toolVars, implVars, unretried>>

(* The round-start handler returned a compacted log.                       *)
CompactionSucceeds ==
  /\ pc = "compacting"
  /\ \E b \in CutPoints(log) : log' = Compacted(log, b)
  /\ \E shrunk \in BOOLEAN :
       comp' = [RecordOutcome(comp, shrunk) EXCEPT !.coolUntil = 0]
  /\ pc' = "send"
  /\ UNCHANGED <<chat, round, aborted, outcome, answer, roundVars, toolVars, implVars, unretried>>

(* The round-start handler returned null (nothing to compact, commit       *)
(* refused, or cancelled).                                                 *)
CompactionYieldsNothing ==
  /\ pc = "compacting"
  /\ comp' = [comp EXCEPT !.tries = @ + 1, !.coolUntil = round + 2]
  /\ pc' = "send"
  /\ UNCHANGED <<log, chat, round, aborted, outcome, answer, roundVars, toolVars, implVars, unretried>>

(* The round-start handler threw: nothing catches it.                      *)
CompactionThrows ==
  /\ pc = "compacting"
  /\ Settle("threw")
  /\ UNCHANGED <<log, chat, round, aborted, answer, roundVars, comp, toolVars, implVars, unretried>>

(* The head of the inner loop: give up if aborted.                         *)
StopBeforeSend ==
  /\ pc = "send" /\ aborted
  /\ Settle("returned")
  /\ UNCHANGED <<log, chat, round, aborted, answer, roundVars, comp, toolVars, implVars, unretried>>

(* Build the request and await the provider.                               *)
Send ==
  /\ pc = "send" /\ ~aborted
  /\ pc' = "awaiting"
  /\ unretried' = FALSE
  /\ UNCHANGED <<log, chat, round, aborted, outcome, answer, roundVars, comp, toolVars, implVars>>

-----------------------------------------------------------------------------
(* What the provider may answer.                                           *)

(* A final answer: visible content, no tool calls.                         *)
ReplyText ==
  /\ pc = "awaiting"
  /\ log' = Append(log, AssistantMsg(<<>>))
  /\ answer' = TRUE
  /\ Settle("returned")
  /\ UNCHANGED <<chat, round, aborted, roundVars, comp, toolVars, implVars, unretried>>

(* A batch of tool calls, with or without text.                            *)
ReplyCalls ==
  /\ pc = "awaiting"
  /\ \E b \in Batches :
       /\ batch' = b
       /\ res' = [k \in DOMAIN b |-> "todo"]
       /\ log' = Append(log, AssistantMsg([k \in DOMAIN b |-> <<chat, round, k>>]))
  /\ landed' = 0
  /\ \E text \in BOOLEAN : answer' = (merged \/ text)
  /\ pc' = "tools"
  /\ UNCHANGED <<chat, round, aborted, outcome, roundVars, comp, implVars, unretried>>

(* finish_reason = length: merge the fragment and ask for the rest.        *)
ReplyTruncated ==
  /\ pc = "awaiting"
  /\ cont < MaxContinuations
  /\ cont' = cont + 1
  /\ \E text \in BOOLEAN : merged' = (merged \/ text)
  /\ pc' = "send"
  /\ UNCHANGED <<log, chat, round, aborted, outcome, answer, empties, comp, toolVars, implVars, unretried>>

(* finish_reason = length once too often: end with what was merged.        *)
ReplyTruncatedAgain ==
  /\ pc = "awaiting"
  /\ cont >= MaxContinuations
  /\ \E text \in BOOLEAN : merged' = (merged \/ text)
  /\ answer' = merged'
  /\ log' = Append(log, AssistantMsg(<<>>))
  /\ Settle("returned")
  /\ UNCHANGED <<chat, round, aborted, cont, empties, comp, toolVars, implVars, unretried>>

(* Broken variant: the retries are not counted.                            *)
ReplyEmptyUncounted ==
  /\ pc = "awaiting"
  /\ empties < MaxEmptyRetries
  /\ IF aborted THEN Settle("threw") ELSE pc' = "sleeping" /\ UNCHANGED outcome
  /\ UNCHANGED <<log, chat, round, aborted, answer, roundVars, comp, toolVars, implVars, unretried>>

(* Neither content nor calls: back off and retry.                          *)
ReplyEmpty ==
  /\ pc = "awaiting"
  /\ empties < MaxEmptyRetries
  /\ empties' = empties + 1
  /\ IF aborted THEN Settle("threw") ELSE pc' = "sleeping" /\ UNCHANGED outcome
  /\ UNCHANGED <<log, chat, round, aborted, answer, cont, merged, comp, toolVars, implVars, unretried>>

(* The provider's context is exceeded for the first time in this chat.     *)
Overflow ==
  /\ pc = "awaiting"
  /\ comp.emergencies = 0
  /\ comp' = [comp EXCEPT !.emergencies = 1]
  /\ pc' = "emergency"
  /\ UNCHANGED <<log, chat, round, aborted, outcome, answer, roundVars, toolVars, implVars, unretried>>

NextRound ==
  /\ round' = round + 1
  /\ cont' = 0 /\ empties' = 0 /\ merged' = FALSE
  /\ pc' = "round"

(* tryEmergencyCompact recovered: the round loop continues.                *)
EmergencySucceeds ==
  /\ pc = "emergency"
  /\ \E b \in CutPoints(log) : log' = Compacted(log, b)
  /\ \E shrunk \in BOOLEAN : comp' = [RecordOutcome(comp, shrunk) EXCEPT !.coolUntil = 0]
  /\ NextRound
  /\ unretried' = TRUE
  /\ UNCHANGED <<chat, aborted, outcome, answer, toolVars, implVars>>

(* tryEmergencyCompact got nothing, or swallowed an error.                 *)
EmergencyFails ==
  /\ pc = "emergency"
  /\ \E n \in {0, 1} : comp' = [comp EXCEPT !.tries = @ + n]
  /\ Settle("threw")
  /\ UNCHANGED <<log, chat, round, aborted, answer, roundVars, toolVars, implVars, unretried>>

(* Broken variant: the last message is popped instead.                     *)
ImageRejectedPop ==
  /\ pc = "awaiting"
  /\ HasImages(log)
  /\ log' = SubSeq(log, 1, Len(log) - 1)
  /\ NextRound
  /\ UNCHANGED <<chat, aborted, outcome, answer, comp, toolVars, implVars, unretried>>

(* The provider rejects an image: strip every image, the text stays.       *)
ImageRejected ==
  /\ pc = "awaiting"
  /\ HasImages(log)
  /\ log' = StripImages(log)
  /\ NextRound
  /\ UNCHANGED <<chat, aborted, outcome, answer, comp, toolVars, implVars, unretried>>

(* Any error the loop does not recover from: a second overflow, an image   *)
(* error with no image left, too many empty completions, no choices, a     *)
(* network error, or the AbortError of an aborted request.                 *)
ReplyFails ==
  /\ pc = "awaiting"
  /\ Settle("threw")
  /\ UNCHANGED <<log, chat, round, aborted, answer, roundVars, comp, toolVars, implVars, unretried>>

(* The back-off timer fires.                                               *)
Wake ==
  /\ pc = "sleeping"
  /\ pc' = "send"
  /\ UNCHANGED <<log, chat, round, aborted, outcome, answer, roundVars, comp, toolVars, implVars, unretried>>

-----------------------------------------------------------------------------
(* Tool execution.  res[k] is "todo", "run", or how call k settled.        *)

Id(k) == <<chat, round, k>>
Running == {k \in DOMAIN res : res[k] = "run"}
Todo == {k \in DOMAIN res : res[k] = "todo"}
Asked == \E k \in DOMAIN res : res[k] = "question"

(* Broken variant: a chunk is cut by length alone.                         *)
NextSegmentByLength ==
  LET first == Cardinality(DOMAIN res \ Todo) + 1
  IN  {k \in first .. Len(batch) : k < first + ChunkSize}

(* The next segment: one serial call, or the next chunk of a run of safe   *)
(* calls.                                                                  *)
NextSegment ==
  LET first == Cardinality(DOMAIN res \ Todo) + 1
  IN  {k \in first .. Len(batch) :
         \/ k = first
         \/ k < first + ChunkSize /\ \A j \in first .. k : batch[j] = "safe"}

(* Broken variant: the signal is not looked at between segments.           *)
StartCallsUnchecked ==
  /\ pc = "tools" /\ Running = {} /\ Todo # {} /\ ~Asked
  /\ res' = [k \in DOMAIN res |->
               IF k \notin NextSegment THEN res[k]
               ELSE IF batch[k] = "bad" THEN "err" ELSE "run"]
  /\ live' = live \cup {Id(k) : k \in {j \in NextSegment : batch[j] # "bad"}}
  /\ UNCHANGED <<log, pc, chat, round, aborted, outcome, answer, roundVars, comp, batch, landed,
                 signalled, unretried>>

(* Start the next segment.  A call whose arguments did not parse settles   *)
(* at once with an error and runs nothing.                                 *)
StartCalls ==
  /\ pc = "tools" /\ Running = {} /\ Todo # {} /\ ~aborted /\ ~Asked
  /\ res' = [k \in DOMAIN res |->
               IF k \notin NextSegment THEN res[k]
               ELSE IF batch[k] = "bad" THEN "err" ELSE "run"]
  /\ live' = live \cup {Id(k) : k \in {j \in NextSegment : batch[j] # "bad"}}
  /\ UNCHANGED <<log, pc, chat, round, aborted, outcome, answer, roundVars, comp, batch, landed,
                 signalled, unretried>>

(* Call k answers: a result, a result with images, an error, or, for a     *)
(* serial tool, a question to the user.                                    *)
CallAnswers(k) ==
  /\ pc = "tools" /\ k \in Running
  /\ \E o \in {"ok", "img", "err"} \cup (IF batch[k] = "serial" THEN {"question"} ELSE {}) :
       res' = [res EXCEPT ![k] = o]
  /\ live' = live \ {Id(k)}
  /\ UNCHANGED <<log, pc, chat, round, aborted, outcome, answer, roundVars, comp, batch, landed,
                 signalled, unretried>>

(* Broken variant: the promise is abandoned, the implementation not told.  *)
CallTimesOutSilently(k) ==
  /\ pc = "tools" /\ k \in Running
  /\ res' = [res EXCEPT ![k] = "err"]
  /\ UNCHANGED <<log, pc, chat, round, aborted, outcome, answer, roundVars, comp, batch, landed,
                 implVars, unretried>>

(* withTimeout gives call k up: it settles with an error, its              *)
(* implementation is told to stop and may still run for a while.           *)
CallTimesOut(k) ==
  /\ pc = "tools" /\ k \in Running
  /\ res' = [res EXCEPT ![k] = "err"]
  /\ signalled' = signalled \cup {Id(k)}
  /\ UNCHANGED <<log, pc, chat, round, aborted, outcome, answer, roundVars, comp, batch, landed,
                 live, unretried>>

(* An implementation that was told to stop comes to its end.               *)
ImplStops ==
  /\ \E id \in live \cap signalled :
       /\ live' = live \ {id}
       /\ signalled' = signalled \ {id}
  /\ UNCHANGED <<log, pc, chat, round, aborted, outcome, answer, roundVars, comp, toolVars, unretried>>

(* Broken variant: skipped calls are only expected after a question.       *)
BeginLandingNotOnAbort ==
  /\ pc = "tools" /\ Running = {}
  /\ Todo = {} \/ Asked
  /\ pc' = "landing"
  /\ UNCHANGED <<log, chat, round, aborted, outcome, answer, roundVars, comp, toolVars, implVars, unretried>>

(* Every call settled, or an abort or a question stops the batch.          *)
BeginLanding ==
  /\ pc = "tools" /\ Running = {}
  /\ Todo = {} \/ aborted \/ Asked
  /\ pc' = "landing"
  /\ UNCHANGED <<log, chat, round, aborted, outcome, answer, roundVars, comp, toolVars, implVars, unretried>>

(* Broken variant: a tool's image lands right behind its result.           *)
LandResultWithImage ==
  /\ pc = "landing" /\ landed < Len(batch)
  /\ log' = Append(log, ToolMsg(Id(landed + 1)))
            \o (IF res[landed + 1] = "img" THEN <<UserMsg("image")>> ELSE <<>>)
  /\ landed' = landed + 1
  /\ UNCHANGED <<pc, chat, round, aborted, outcome, answer, roundVars, comp, batch, res, implVars, unretried>>

(* The next result, or the placeholder of a skipped call, enters the log.  *)
LandResult ==
  /\ pc = "landing" /\ landed < Len(batch)
  /\ log' = Append(log, ToolMsg(Id(landed + 1)))
  /\ landed' = landed + 1
  /\ UNCHANGED <<pc, chat, round, aborted, outcome, answer, roundVars, comp, batch, res, implVars, unretried>>

(* After all results, the images tools returned enter the log as user      *)
(* messages; a question ends the chat, otherwise the next round begins.    *)
ImageMsgs == [i \in 1 .. Cardinality({k \in DOMAIN res : res[k] = "img"}) |-> UserMsg("image")]

FinishBatch ==
  /\ pc = "landing" /\ landed = Len(batch)
  /\ log' = log \o ImageMsgs
  /\ batch' = <<>> /\ res' = <<>> /\ landed' = 0
  /\ IF Asked THEN Settle("returned") /\ UNCHANGED <<round, roundVars>>
              ELSE NextRound /\ UNCHANGED outcome
  /\ UNCHANGED <<chat, aborted, answer, comp, implVars, unretried>>

-----------------------------------------------------------------------------
(* The user cancels, or the worker's idle timer fires.  Every running call *)
(* settles with an error at once and its implementation is told to stop;   *)
(* a back-off sleep throws.                                                *)
Abort ==
  /\ \/ pc \in {"compacting", "awaiting", "emergency", "sleeping", "landing"}
     \/ pc = "tools" /\ Running # {}
  /\ ~aborted
  /\ aborted' = TRUE
  /\ res' = [k \in DOMAIN res |-> IF res[k] = "run" THEN "err" ELSE res[k]]
  /\ signalled' = signalled \cup {Id(k) : k \in Running}
  /\ IF pc = "sleeping" THEN Settle("threw") ELSE UNCHANGED <<pc, outcome>>
  /\ UNCHANGED <<log, chat, round, answer, roundVars, comp, batch, landed, live, unretried>>

-----------------------------------------------------------------------------
SyncStep == EndRounds \/ BeginCompaction \/ BeginRound \/ StopBeforeSend \/ Send
            \/ StartCalls \/ BeginLanding \/ LandResult \/ FinishBatch

HandlerStep == CompactionSucceeds \/ CompactionYieldsNothing \/ CompactionThrows
               \/ EmergencySucceeds \/ EmergencyFails

ProviderStep == ReplyText \/ ReplyCalls \/ ReplyTruncated \/ ReplyTruncatedAgain \/ ReplyEmpty
                \/ Overflow \/ ImageRejected \/ ReplyFails

ToolStep == \E k \in DOMAIN res : CallAnswers(k) \/ CallTimesOut(k)

Next == StartChat \/ SyncStep \/ HandlerStep \/ ProviderStep \/ ToolStep \/ Wake \/ ImplStops \/ Abort

Spec == Init /\ [][Next]_vars

(* What an aborted wait does: the handler gives null, the provider and the *)
(* emergency compaction end in the AbortError.                             *)
Unwind == aborted /\ (CompactionYieldsNothing \/ EmergencyFails \/ ReplyFails)

(* Synchronous code runs on by itself, and every wait reacts to the abort  *)
(* signal; nothing is assumed of a provider, a tool or a handler that has  *)
(* not been aborted.                                                       *)
CancelFairness == WF_vars(SyncStep) /\ WF_vars(Unwind)
CancelSpec == Spec /\ CancelFairness

(* In addition every wait ends: the provider and the handler answer, a     *)
(* tool answers or times out, timers fire.                                 *)
AnswerFairness == WF_vars(HandlerStep) /\ WF_vars(ProviderStep) /\ WF_vars(ToolStep) /\ WF_vars(Wake)

-----------------------------------------------------------------------------
(* Properties.                                                             *)

Counters == [tries : Nat, wasted : Nat, coolUntil : Nat, emergencies : Nat]

(* Every variable of the loop has its type, and the bookkeeping of a batch *)
(* describes the assistant message that ends the log's settled part.       *)
TypeOK ==
  /\ log \in Seq(Message)
  /\ pc \in {"idle", "round", "compacting", "send", "awaiting", "sleeping", "emergency",
             "tools", "landing", "settled"}
  /\ chat \in Nat /\ round \in Nat
  /\ aborted \in BOOLEAN /\ answer \in BOOLEAN /\ unretried \in BOOLEAN
  /\ outcome \in {"none", "returned", "threw"}
  /\ cont \in Nat /\ empties \in Nat /\ merged \in BOOLEAN
  /\ comp \in Counters
  /\ batch \in Seq(CallKinds)
  /\ res \in [1 .. Len(batch) -> {"todo", "run", "ok", "img", "err", "question"}]
  /\ landed \in Nat
  /\ live \subseteq CallId /\ signalled \subseteq CallId

(* Agent.ts 1396-1399 and 1441-1444: whenever no batch is being worked on  *)
(* (so: in every request, after every end of a chat, cancelled, failed or  *)
(* not, and at the start of the next one) each tool call in the log is     *)
(* followed at once by its results in order, and no result stands alone.   *)
WireShape == pc \notin {"tools", "landing"} => Paired(log)

(* A request never ends with an assistant message (a checkpoint is one on  *)
(* the wire): the model is always asked to answer a user or a tool, also   *)
(* after a compaction, a stripped image or a cancelled predecessor.        *)
AsksForAnswer == pc = "awaiting" => log # <<>> /\ log[Len(log)].role \in {"user", "tool"}

(* Only calls of the parallel-safe list overlap, never more than a chunk   *)
(* of them, and nothing runs past a question (Agent.ts 1272-1277).         *)
Exclusive ==
  /\ Cardinality(Running) > 1 => \A k \in Running : batch[k] = "safe"
  /\ Cardinality(Running) <= ChunkSize
  /\ \A k \in DOMAIN res : res[k] = "question" => \A j \in DOMAIN res : j > k => res[j] = "todo"

(* A tool implementation that outlives its call, after a time-out or a     *)
(* cancel, has been told to stop (Agent.ts 1292-1295), in this chat or in  *)
(* a later one.                                                            *)
OrphansSignalled == \A id \in live : id \in signalled \/ \E k \in Running : id = Id(k)

(* The circuit breaker: one chat never tries the compaction handler more   *)
(* often than MAX_COMPACTIONS_PER_CHAT plus the one emergency attempt, and *)
(* never runs more than MAX_INEFFECTIVE_COMPACTIONS plus that one without  *)
(* effect in a row.                                                        *)
CompactionsBounded ==
  /\ comp.tries <= MaxCompactions + 1
  /\ comp.wasted <= MaxIneffective + 1

(* After the abort signal no tool implementation is started.               *)
NoStartAfterAbort == [][aborted /\ aborted' => live' \subseteq live]_vars

(* The log of a session only grows, except where a compaction or an image  *)
(* rejection replaces it as a whole; no other step touches a logged        *)
(* message (AppendOnlyLog.ts 4-8).                                         *)
AppendOnly ==
  [][\/ Len(log') >= Len(log) /\ SubSeq(log', 1, Len(log)) = log
     \/ CompactionSucceeds \/ EmergencySucceeds
     \/ ImageRejected /\ Len(log') = Len(log)]_vars

(* A cancelled chat settles, whatever the provider, the tools and the      *)
(* compaction handler do.                                                  *)
CancelSettles == aborted ~> pc = "settled"

(* A chat whose waits all end settles: retries, continuations, rounds,     *)
(* emergency compactions and image rejections are all bounded.             *)
ChatSettles == AnswerFairness => (pc = "round" ~> pc = "settled")

(* Agent.ts 740-743: tryEmergencyCompact returns true and the caller       *)
(* "continue roundLoop" retries the request of the same round; so a chat   *)
(* that was not cancelled never ends well with the recovered request       *)
(* unsent.                                                                 *)
RecoveryIsRetried == outcome = "returned" /\ ~aborted => ~unretried

(* Agent.ts 965: as long as the model can be reached a round produces a    *)
(* result and never ends silently; so a chat that ended well, was not      *)
(* cancelled, asks no question and did not use up its rounds has an        *)
(* answer.                                                                 *)
NeverSilent ==
  outcome = "returned" /\ ~aborted /\ round < MaxRounds /\ log[Len(log)].role = "assistant" => answer
=============================================================================
