-------------------------------- MODULE LogSync --------------------------------
(***************************************************************************)
(* The two copies of a session's message log: the mirror the main thread   *)
(* keeps (WorkerBackedAgent.ts) and the log the agent worker runs its      *)
(* turns on (agentRuntimeLoop.ts).  The threads share nothing; they talk   *)
(* over two FIFO channels.  A chat brings the worker's log up to date,     *)
(* incrementally when a prefix hash agrees and in full when it does not; a *)
(* result brings the turn's messages back.  A turn may be cancelled, fail, *)
(* or lose its worker at any point.                                        *)
(*                                                                         *)
(* Abstracted: a message is the set of identities it covers (more than one *)
(* for a checkpoint), who wrote it and whether it carries an image; a      *)
(* cascading hash of a prefix is the prefix itself.  Elapsed time is not   *)
(* modelled: a timer that is armed may fire.  On a cancel the aborted loop *)
(* runs to its end before the worker takes its next message, because every *)
(* wait of the loop reacts to the abort signal at once.                    *)
(***************************************************************************)
EXTENDS Integers, Sequences, FiniteSets

CONSTANTS
  MaxChats,  \* bound of the model: how many times chat() is called
  MaxTail,   \* bound of the model: messages of a turn behind its user message
  Overlap    \* may chat() be called before a cancelled predecessor settled

ASSUME ConstantsAssumption ==
  /\ MaxChats \in Nat \ {0}
  /\ MaxTail \in Nat
  /\ Overlap \in BOOLEAN

Chats == 1 .. MaxChats

VARIABLES
  mirror,     \* main: logStore
  synced,     \* main: workerSyncedLength, -1 while unknown
  status,     \* main: how the promise of each chat stands
  active,     \* main: activeRequestId, 0 for null
  timer,      \* main: the request the cancel timer will give up, 0 when off
  agent,      \* main: "up", "crashed" or "destroyed"
  stopping,   \* main: requests whose cancel has been posted
  toWorker,   \* channel
  toMain,     \* channel
  alive,      \* the worker still takes messages
  cached,     \* worker: sessionLogs has an entry for the session
  wlog,       \* worker: that log
  task,       \* worker: where handleChat stands for each request
  base,       \* worker: the log a turn started on; its length is startIndex
  rewritten,  \* worker: the turn saw a context-compacted event
  view        \* history: the mirror when it was last sent for a request

mainVars == <<mirror, synced, status, active, timer, agent, stopping>>
workerVars == <<alive, cached, wlog, task, base, rewritten>>
vars == <<mainVars, toWorker, toMain, workerVars, view>>

-----------------------------------------------------------------------------
(* Log entries.  <<t, n>> is the n-th message of turn t, the first one is  *)
(* the user's.                                                             *)

Ids == Chats \X (1 .. 1 + MaxTail)

Entry == [covers : SUBSET Ids, by : Chats, form : {"text", "image", "checkpoint"}]

Covered(l) == UNION {l[i].covers : i \in DOMAIN l}
Of(t, l) == {id \in Covered(l) : id[1] = t}

NewEntry(t, form) == [covers |-> {<<t, Cardinality(Of(t, wlog)) + 1>>}, by |-> t, form |-> form]

HasImages(l) == \E i \in DOMAIN l : l[i].form = "image"
StripImages(l) == [i \in DOMAIN l |-> IF l[i].form = "image" THEN [l[i] EXCEPT !.form = "text"]
                                                             ELSE l[i]]

(* Where a compaction may cut: at a user message, or inside the last turn  *)
(* behind its first answer.                                                *)
CutPoints(t, l) ==
  {b \in 2 .. Len(l) : \/ \E u \in Chats : l[b].covers = {<<u, 1>>}
                       \/ \E n \in 3 .. 1 + MaxTail : l[b].covers = {<<t, n>>}}

Compacted(t, l, b) ==
  <<[covers |-> Covered(SubSeq(l, 1, b - 1)), by |-> t, form |-> "checkpoint"]>>
  \o SubSeq(l, b, Len(l))

Prefix(l, n) == SubSeq(l, 1, n)
Behind(l, n) == SubSeq(l, n + 1, Len(l))

-----------------------------------------------------------------------------
Init ==
  /\ mirror = <<>> /\ synced = -1
  /\ status = [r \in Chats |-> "unsent"]
  /\ active = 0 /\ timer = 0 /\ agent = "up" /\ stopping = {}
  /\ toWorker = <<>> /\ toMain = <<>>
  /\ alive = TRUE /\ cached = FALSE /\ wlog = <<>>
  /\ task = [r \in Chats |-> "none"]
  /\ base = [r \in Chats |-> <<>>]
  /\ rewritten = [r \in Chats |-> FALSE]
  /\ view = [r \in Chats |-> <<>>]

Pending == {r \in Chats : status[r] = "pending"}

(* The promises of the requests in R are rejected.                         *)
Reject(R, how) == status' = [r \in Chats |-> IF r \in R \cap Pending THEN how ELSE status[r]]

(* postToWorker drops the message once the worker was given up.            *)
Post(m) == toWorker' = IF agent = "up" THEN Append(toWorker, m) ELSE toWorker

(* chat(): the session's caller waits for the previous turn to settle, or, *)
(* with Overlap, only until it has asked for its cancellation.             *)
Chat(r) ==
  /\ agent = "up"
  /\ status[r] = "unsent" /\ \A q \in Chats : q < r => status[q] # "unsent"
  /\ IF Overlap THEN Pending \subseteq stopping ELSE Pending = {}
  /\ status' = [status EXCEPT ![r] = "pending"]
  /\ active' = r
  /\ view' = [view EXCEPT ![r] = mirror]
  /\ Post(IF synced >= 0 /\ synced <= Len(mirror)
          THEN [type |-> "incremental", r |-> r, from |-> synced, msgs |-> Behind(mirror, synced),
                prefix |-> Prefix(mirror, synced)]
          ELSE [type |-> "full", r |-> r, msgs |-> mirror])
  /\ UNCHANGED <<mirror, synced, timer, agent, stopping, toMain, workerVars>>

(* Broken variant: the worker is trusted to acknowledge.                   *)
CancelSessionUntimed ==
  /\ agent = "up" /\ active \in Pending \ stopping
  /\ Post([type |-> "cancel", r |-> active])
  /\ stopping' = stopping \cup {active}
  /\ UNCHANGED <<mirror, synced, status, active, timer, agent, toMain, workerVars, view>>

(* cancelSession() (bound of the model: a request is cancelled once).      *)
CancelSession ==
  /\ agent = "up" /\ active \in Pending \ stopping
  /\ Post([type |-> "cancel", r |-> active])
  /\ stopping' = stopping \cup {active}
  /\ timer' = active
  /\ UNCHANGED <<mirror, synced, status, active, agent, toMain, workerVars, view>>

(* The worker did not acknowledge a cancel in time and is terminated.      *)
CancelTimeout ==
  /\ timer # 0
  /\ Reject({timer}, "cancelled")
  /\ agent' = IF agent = "up" THEN "crashed" ELSE agent
  /\ active' = 0 /\ timer' = 0
  /\ alive' = FALSE /\ toWorker' = <<>>
  /\ UNCHANGED <<mirror, synced, stopping, toMain, cached, wlog, task, base, rewritten, view>>

(* handleCrash: an error event, or a heartbeat that went unanswered.       *)
Crash ==
  /\ agent = "up"
  /\ Reject(Pending, "crashed")
  /\ agent' = "crashed"
  /\ active' = 0
  /\ alive' = FALSE /\ toWorker' = <<>>
  /\ UNCHANGED <<mirror, synced, timer, stopping, toMain, cached, wlog, task, base, rewritten, view>>

(* Broken variant: the pending chats are forgotten, not rejected.          *)
DestroyForgets ==
  /\ agent # "destroyed"
  /\ agent' = "destroyed"
  /\ active' = 0 /\ timer' = 0
  /\ alive' = FALSE /\ toWorker' = <<>>
  /\ UNCHANGED <<mirror, synced, status, stopping, toMain, cached, wlog, task, base, rewritten, view>>

(* destroy().                                                              *)
Destroy ==
  /\ agent # "destroyed"
  /\ Reject(Pending, "destroyed")
  /\ agent' = "destroyed"
  /\ active' = 0 /\ timer' = 0
  /\ alive' = FALSE /\ toWorker' = <<>>
  /\ UNCHANGED <<mirror, synced, stopping, toMain, cached, wlog, task, base, rewritten, view>>

-----------------------------------------------------------------------------
(* handleRuntimeMessage.                                                   *)

Head0(type) == toMain # <<>> /\ Head(toMain).type = type

(* Broken variant: whichever request is active is forgotten.               *)
SettleAny(r, how) ==
  /\ status' = [status EXCEPT ![r] = how]
  /\ active' = 0
  /\ timer' = 0

Settle(r, how) ==
  /\ status' = [status EXCEPT ![r] = how]
  /\ active' = IF active = r THEN 0 ELSE active
  /\ timer' = 0

(* Any message but an acknowledgement shows that the worker is alive: an   *)
(* armed cancel timer may be armed again, for the request active by then.  *)
Rearm == timer' \in {timer} \cup (IF timer # 0 /\ active \in Pending THEN {active} ELSE {})

OnCancelled ==
  /\ Head0("cancelled")
  /\ LET r == Head(toMain).r
     IN  IF r \in Pending THEN Settle(r, "cancelled") ELSE UNCHANGED <<status, active, timer>>
  /\ toMain' = Tail(toMain)
  /\ UNCHANGED <<mirror, synced, agent, stopping, toWorker, workerVars, view>>

OnMismatch ==
  /\ Head0("mismatch")
  /\ Rearm
  /\ LET r == Head(toMain).r
     IN  /\ Post([type |-> "sync", r |-> r, msgs |-> mirror])
         /\ view' = [view EXCEPT ![r] = mirror]
  /\ toMain' = Tail(toMain)
  /\ UNCHANGED <<mirror, synced, status, active, agent, stopping, workerVars>>

(* Broken variant: a result is taken even if its request is settled.       *)
OnResultUnguarded ==
  /\ Head0("result")
  /\ LET m == Head(toMain)
     IN  /\ Settle(m.r, IF m.r \in Pending THEN "resolved" ELSE status[m.r])
         /\ mirror' = IF m.compacted THEN m.full ELSE mirror \o m.delta
         /\ synced' = m.length
  /\ toMain' = Tail(toMain)
  /\ UNCHANGED <<agent, stopping, toWorker, workerVars, view>>

OnResult ==
  /\ Head0("result")
  /\ LET m == Head(toMain)
     IN  IF m.r \in Pending
         THEN /\ Settle(m.r, "resolved")
              /\ mirror' = IF m.compacted THEN m.full ELSE mirror \o m.delta
              /\ synced' = m.length
         ELSE Rearm /\ UNCHANGED <<mirror, synced, status, active>>
  /\ toMain' = Tail(toMain)
  /\ UNCHANGED <<agent, stopping, toWorker, workerVars, view>>

OnError ==
  /\ Head0("error")
  /\ LET r == Head(toMain).r
     IN  IF r \in Pending THEN Settle(r, "failed") ELSE Rearm /\ UNCHANGED <<status, active>>
  /\ toMain' = Tail(toMain)
  /\ UNCHANGED <<mirror, synced, agent, stopping, toWorker, workerVars, view>>

MainReceives == OnCancelled \/ OnMismatch \/ OnResult \/ OnError

-----------------------------------------------------------------------------
(* The worker.                                                             *)

Taken(type) == alive /\ toWorker # <<>> /\ Head(toWorker).type = type

(* handleChat goes on with log l: agent.chat appends the user message.     *)
Run(r, l) ==
  /\ task' = [task EXCEPT ![r] = "running"]
  /\ base' = [base EXCEPT ![r] = l]
  /\ cached' = TRUE
  /\ \E form \in {"text", "image"} :
       wlog' = Append(l, [covers |-> {<<r, 1>>}, by |-> r, form |-> form])

(* Broken variant: only the lengths are compared.                          *)
PrefixVerifiedByLength(m) == cached /\ Len(wlog) >= m.from

PrefixVerified(m) == cached /\ Len(wlog) >= m.from /\ Prefix(wlog, m.from) = m.prefix

TakeFull ==
  /\ Taken("full")
  /\ Run(Head(toWorker).r, Head(toWorker).msgs)
  /\ toWorker' = Tail(toWorker)
  /\ UNCHANGED <<mainVars, toMain, alive, rewritten, view>>

TakeIncremental ==
  /\ Taken("incremental")
  /\ LET m == Head(toWorker)
     IN  PrefixVerified(m) /\ Run(m.r, Prefix(wlog, m.from) \o m.msgs)
  /\ toWorker' = Tail(toWorker)
  /\ UNCHANGED <<mainVars, toMain, alive, rewritten, view>>

AskFullSync ==
  /\ Taken("incremental")
  /\ LET m == Head(toWorker)
     IN  /\ ~PrefixVerified(m)
         /\ task' = [task EXCEPT ![m.r] = "syncing"]
         /\ toMain' = Append(toMain, [type |-> "mismatch", r |-> m.r])
  /\ toWorker' = Tail(toWorker)
  /\ UNCHANGED <<mainVars, alive, cached, wlog, base, rewritten, view>>

TakeSync ==
  /\ Taken("sync")
  /\ LET m == Head(toWorker)
     IN  IF task[m.r] = "syncing" THEN Run(m.r, m.msgs) ELSE UNCHANGED <<task, base, cached, wlog>>
  /\ toWorker' = Tail(toWorker)
  /\ UNCHANGED <<mainVars, toMain, alive, rewritten, view>>

Running(r) == alive /\ task[r] = "running"
MayGrow(r) == Cardinality(Of(r, wlog)) <= MaxTail

ResultOf(r, l) ==
  [type |-> "result", r |-> r, delta |-> Behind(l, Len(base[r])), length |-> Len(l),
   compacted |-> rewritten[r], full |-> IF rewritten[r] THEN l ELSE <<>>]

(* The turn logs a message of its own.                                     *)
TurnAppends(r) ==
  /\ Running(r) /\ MayGrow(r)
  /\ \E form \in {"text", "image"} : wlog' = Append(wlog, NewEntry(r, form))
  /\ UNCHANGED <<mainVars, toWorker, toMain, alive, cached, task, base, rewritten, view>>

(* A compaction (bound of the model: one a turn) and its                   *)
(* context-compacted event.                                                *)
TurnCompacts(r) ==
  /\ Running(r) /\ ~rewritten[r]
  /\ \E b \in CutPoints(r, wlog) : wlog' = Compacted(r, wlog, b)
  /\ rewritten' = [rewritten EXCEPT ![r] = TRUE]
  /\ UNCHANGED <<mainVars, toWorker, toMain, alive, cached, task, base, view>>

(* The provider refused an image: all images leave the worker's log.       *)
TurnStripsImages(r) ==
  /\ Running(r) /\ HasImages(wlog)
  /\ wlog' = StripImages(wlog)
  /\ UNCHANGED <<mainVars, toWorker, toMain, alive, cached, task, base, rewritten, view>>

TurnEnds(r) ==
  /\ Running(r)
  /\ task' = [task EXCEPT ![r] = "done"]
  /\ toMain' = Append(toMain, ResultOf(r, wlog))
  /\ UNCHANGED <<mainVars, toWorker, alive, cached, wlog, base, rewritten, view>>

(* Broken variant: the abort outruns the idle error, and an AbortError is  *)
(* not reported.                                                           *)
TurnFailsAsAbort(r) ==
  /\ Running(r)
  /\ task' = [task EXCEPT ![r] = "done"]
  /\ UNCHANGED <<mainVars, toWorker, toMain, alive, cached, wlog, base, rewritten, view>>

(* The chat throws, or the idle timer gives it up and the aborted loop     *)
(* still logs the placeholder of a skipped call.                           *)
TurnFails(r) ==
  /\ Running(r)
  /\ task' = [task EXCEPT ![r] = "done"]
  /\ wlog' \in {wlog} \cup (IF MayGrow(r) THEN {Append(wlog, NewEntry(r, "text"))} ELSE {})
  /\ toMain' = Append(toMain, [type |-> "error", r |-> r])
  /\ UNCHANGED <<mainVars, toWorker, alive, cached, base, rewritten, view>>

(* cancel-session.  A running turn is aborted: it may still log a          *)
(* placeholder, and it ends in an AbortError, which nobody reports, or     *)
(* normally.                                                               *)
TakeCancel ==
  /\ Taken("cancel")
  /\ LET r == Head(toWorker).r
         ack == Append(toMain, [type |-> "cancelled", r |-> r])
     IN  IF task[r] = "running"
         THEN /\ wlog' \in {wlog} \cup (IF MayGrow(r) THEN {Append(wlog, NewEntry(r, "text"))} ELSE {})
              /\ toMain' \in {ack, Append(ack, ResultOf(r, wlog'))}
              /\ task' = [task EXCEPT ![r] = "done"]
         ELSE /\ toMain' = ack
              /\ task' = [task EXCEPT ![r] = IF @ = "syncing" THEN "done" ELSE @]
              /\ UNCHANGED wlog
  /\ toWorker' = Tail(toWorker)
  /\ UNCHANGED <<mainVars, alive, cached, base, rewritten, view>>

(* The worker hangs or dies without a word.                                *)
WorkerDies ==
  /\ alive
  /\ alive' = FALSE
  /\ UNCHANGED <<mainVars, toWorker, toMain, cached, wlog, task, base, rewritten, view>>

-----------------------------------------------------------------------------
WorkerTakes == TakeFull \/ TakeIncremental \/ AskFullSync \/ TakeSync \/ TakeCancel
TurnSteps == \E r \in Chats : TurnAppends(r) \/ TurnCompacts(r) \/ TurnStripsImages(r)
TurnSettles == \E r \in Chats : TurnEnds(r) \/ TurnFails(r)

Next == \/ \E r \in Chats : Chat(r)
        \/ CancelSession \/ CancelTimeout \/ Crash \/ Destroy
        \/ MainReceives \/ WorkerTakes \/ TurnSteps \/ TurnSettles \/ WorkerDies

Spec == Init /\ [][Next]_vars

(* A hung worker is noticed by the heartbeat while a request is pending    *)
(* (bound to a page that is not hidden); the cancel timer fires; messages  *)
(* are delivered.                                                          *)
CancelSpec == Spec /\ WF_vars(MainReceives) /\ WF_vars(CancelTimeout)

(* In addition the worker works, or its silence is noticed.                *)
SettleFairness == /\ WF_vars(WorkerTakes) /\ WF_vars(TurnSettles)
                  /\ WF_vars(Crash /\ ~alive /\ Pending # {})

-----------------------------------------------------------------------------
Outcome == {"resolved", "cancelled", "failed", "crashed", "destroyed"}
Log == Seq(Entry)

ToWorker ==
  [type : {"incremental"}, r : Chats, from : Nat, msgs : Log, prefix : Log]
  \cup [type : {"full", "sync"}, r : Chats, msgs : Log]
  \cup [type : {"cancel"}, r : Chats]

ToMain ==
  [type : {"cancelled", "mismatch", "error"}, r : Chats]
  \cup [type : {"result"}, r : Chats, delta : Log, length : Nat, compacted : BOOLEAN, full : Log]

(* Every variable keeps its type; the request the cancel button reaches is *)
(* a pending one, or none (activeRequestId).                               *)
TypeOK ==
  /\ mirror \in Log /\ wlog \in Log
  /\ synced \in Nat \cup {-1}
  /\ status \in [Chats -> {"unsent", "pending"} \cup Outcome]
  /\ active \in Pending \cup {0} /\ timer \in Chats \cup {0}
  /\ agent \in {"up", "crashed", "destroyed"}
  /\ stopping \in SUBSET Chats
  /\ toWorker \in Seq(ToWorker) /\ toMain \in Seq(ToMain)
  /\ alive \in BOOLEAN /\ cached \in BOOLEAN
  /\ task \in [Chats -> {"none", "syncing", "running", "done"}]
  /\ base \in [Chats -> Log] /\ view \in [Chats -> Log]
  /\ rewritten \in [Chats -> BOOLEAN]

(* A turn runs on exactly the log the main thread showed when it asked for *)
(* it, whichever way the log reached the worker and whatever an earlier    *)
(* turn left in the worker's copy: handleChat's reconciliation.            *)
RunsOnMirror == \A r \in Chats : task[r] = "running" => base[r] = view[r]

(* Nothing a turn wrote that was cancelled, failed or lost its worker is   *)
(* in the main log, or in the log another turn runs on: the promise of     *)
(* "delta only lands through result".                                      *)
NoTrace ==
  \A r \in Chats : status[r] \in Outcome \ {"resolved"} =>
    /\ Of(r, mirror) = {}
    /\ \A q \in Chats \ {r} : Of(r, base[q]) = {}

(* While the latest chat is pending it is the one a cancel reaches: the    *)
(* late end of an earlier turn does not disarm the stop button.            *)
CancelReaches ==
  \A r \in Pending :
    agent = "up" /\ (\A q \in Chats : q > r => status[q] = "unsent") => active = r

(* No promise is left pending on a worker that was given up: "the caller's *)
(* await would hang forever" (destroy, WorkerBackedAgent.ts:707-709).      *)
NoneStranded == agent # "up" => Pending = {}

(* At rest after a resolved turn the worker's copy agrees with the main    *)
(* log as far as workerSyncedLength says: "the main log is only appended   *)
(* to by results, its prefix is necessarily the worker's"                  *)
(* (chat, WorkerBackedAgent.ts:761-762).                                   *)
AtRest == agent = "up" /\ Pending = {} /\ toWorker = <<>> /\ toMain = <<>> /\ alive
LastResolved == \E r \in Chats : /\ status[r] = "resolved"
                                 /\ \A q \in Chats : q > r => status[q] = "unsent"
PrefixAgrees ==
  AtRest /\ LastResolved => cached /\ Prefix(wlog, synced) = Prefix(mirror, synced)

(* The session's turns are transactions on the main log.                   *)
TL == INSTANCE TurnLog WITH
  Turn <- Chats, history <- [i \in DOMAIN mirror |-> mirror[i].covers], open <- Pending
Transactions == TL!Spec

(* A cancelled chat is settled, by the worker's answer or by the timer.    *)
CancelSettles == \A r \in Chats : r \in stopping ~> status[r] # "pending"

(* Every chat is settled, also when the worker hangs or its copy of the    *)
(* log has to be replaced on the way.                                      *)
ChatSettles ==
  SettleFairness => \A r \in Chats : status[r] = "pending" ~> status[r] # "pending"
=============================================================================
