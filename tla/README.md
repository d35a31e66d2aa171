# CodePapr: a TLA+ verification project

CodePapr is a coding agent for the desktop: a TypeScript agent core
(`packages/@codepapr/core`) that talks to a language model and calls tools, a UI
(`packages/@codepapr/ui`) that runs one agent per session in a Web Worker, and a
Rust core (`crates/codepapr-core`) with the host services: files, shell, git
snapshots, the database, MCP and LSP. Most of it is I/O and presentation. What is
hard to get right, and hard to test, is the protocol state in between: a message
log that every provider checks for shape, a retry and compaction machinery
around it, a second copy of that log on another thread, a choice of what the
model is shown that a database and a cache keep, turns that await for seconds
between their checks, a queue of questions to the user, resets that overwrite his
files, and timers and cancels that may cut into any of it. That is what is
modelled here.

All paths below are under `src/`; `Agent.ts` is
`packages/@codepapr/core/src/agent/Agent.ts`, `WorkerBackedAgent.ts`,
`agentRuntimeLoop.ts`, `chatIdleWatchdog.ts` and `compactionHandler.ts` are in
`packages/@codepapr/ui/src/agent/`, `AppendOnlyLog.ts` is in
`packages/@codepapr/core/src/cache/`; the store is `agentStore.ts` and
`permissionStore.ts` in `packages/@codepapr/ui/src/store/` with
`sendMessage.ts`, `contextSurfaceStore.ts` and others in its `internals/`; the host
(`db/mod.rs`, `snapshot/*.rs`) is in `crates/codepapr-core/src/`.

## 1. Inventory

| Component | State it keeps | Operations | Talks to |
|---|---|---|---|
| **Agent loop** (`Agent.ts`, `agentConfig.ts`, `compactionEngine.ts`) | round, continuation, empty-reply and compaction counters of a chat; the batch of tool calls; tool implementations still running | `chat`: rounds, request with retries, overflow and emergency compaction, image stripping, tool batches in chunks, question, cancel | the message log, the provider, tools, the compaction handler |
| **Message log** (`AppendOnlyLog.ts`) | messages, per-message hashes and wire sizes, three memos | append, pop, truncate, reset, load, hash, prefix hash, footprint | agent loop, both sides of log synchronisation |
| **Log synchronisation** (`WorkerBackedAgent.ts`, `agentRuntimeLoop.ts`, `agentWorkerProtocol.ts`) | main: mirror log, `workerSyncedLength`, pending requests, `activeRequestId`, cancel timer, heartbeat; worker: log per session, running chat | chat (incremental or full), sync request and answer, result, error, cancel, acknowledgement, crash, destroy | two FIFO message channels; the agent loop in the worker; the store on the main thread |
| **Chat idle backstop** (`chatIdleWatchdog.ts`, `armIdle` of `agentRuntimeLoop.ts`) | pause depth, fetches in flight, the bound turn's timer | bind, unbind, pulse, pause, resume, fire; a wrapped `fetch` | every fetch and tool of the worker, app agents included |
| **Cache prefix and session** (`ImmutablePrefix.ts`, `CachePartition.ts`, `VolatileScratch.ts`, `Session.ts`) | frozen prompt prefix; containers | build, validate | agent loop |
| **Compaction commit and context surface** (`contextSurfaceStore.ts`, `epochCompaction.ts`, `contextSurface.ts`, `projectStorage.ts`, the commit half of `sendMessage.ts`, `db/mod.rs`) | archived messages, generations of the surface, a row per compaction; in memory the messages, the surface cache, the compactions in flight, the queue of saves | save and maintain, hydrate with fallback to the parent generation, commit a checkpoint in one transaction, read back, mark failed, roll back | the worker waits for the commit; the database |
| **Turn pipeline** (`sendMessage.ts`, `agentStore.ts`, `messageMutators.ts`, `fallbackPolicy.ts`) | loading flags, the turn in flight, the session's agent, the queue of messages | send, stop, watchdog, crash recovery (new workers, then the main thread), `/compact`, `/help`, reset, clear, switch | log synchronisation, surface, goal runner |
| **Goal runner, todo list** (`GoalRunner.ts`, `todoList.ts`) | rounds of a goal; todo items | run until the condition holds; transitions | turn pipeline, agent loop |
| **Permission queue** (`permissionStore.ts`) | entries that wait for the user, closures of the calls that wait on them, what the watchdogs were told | request or join, approve, deny, abort, cancel | tools of every agent, the dialog, the host that keeps the grants |
| **Host RPC and task queue** (`host.rs`, `rpc.rs`, `tasks.rs`, `workspaceTaskQueue.ts`) | request table, task table | call, poll, restart | UI and Rust core |
| **Shell, background processes** (`shell/*.rs`) | process registry, cancel tokens | start, stop, reap, list | host RPC |
| **Snapshots and git** (`snapshot/*.rs`, `git_locks.rs`, the resets of `agentStore.ts`) | a shadow repository, one reference to the newest backup, a stack of resets that can be undone | record, restore with backup, undo, reset to a message | file system, git, turn pipeline |
| **MCP and LSP hosts** (`mcp_host.rs`, `mcp_sse.rs`, `lsp.rs`) | request tables over external processes | connect, call, time out | host RPC |
| **Providers**, **files and web**, **UI, editor, papr apps, CLI** | little protocol state | wire formats, I/O, presentation | agent loop, host |

What is hard in each, and what makes it correct:

* **Agent loop.** Six things restart a request (continuation, empty reply, rate
  limit back-off, overflow, rejected image, compaction), each on its own counter,
  and a cancel may arrive at every await. Correct when the log always pairs tool
  calls with their results (a provider answers anything else with a 400 for the
  rest of the session), when a request always ends in something to answer, when
  unsafe tools never overlap, when tools that outlive their call are told to
  stop, and when everything ends.
* **Message log.** Three memos are extended and dropped by different
  operations. Correct when none is stale.
* **Log synchronisation.** Two copies, two threads, two channels; turns fail,
  are cancelled, time out or lose their worker between any two messages. Correct
  when a turn is a transaction on the main log, when the worker runs it on what
  the main thread showed, and when every promise is settled.
* **Chat idle backstop.** Module-level counters are shared by turns, their
  leftovers and app agents. Correct when it never ends a turn that is at work
  and always ends one that hangs.
* **Context surface.** Archive, surface and audit row are written in steps, from a
  cache, by a save queue, a commit and a hydration that run beside each other; any
  call of the host may be refused, or take effect and be reported as failed; the
  worker stops waiting after 60 s. Correct when what the model is shown lacks
  nothing that was said and brings back nothing that was replaced, and the audit
  agrees with what is served.
* **Turn pipeline.** A turn awaits for seconds between its checks, and the user has
  other buttons to press meanwhile. Correct when turns of a session never run twice at once, each
  runs on an agent that knows exactly the session, the stop button is there when
  it is needed and does what it says, and no queued message is lost.
* **Permission queue.** Several tools wait on one entry, and the entry on the
  host. Correct when each gets the answer to its own question and nobody waits for
  an entry that is gone.
* **Snapshots.** Files are overwritten one by one, under rules that are files
  themselves, with one reference for the backups of everybody. Correct when what is
  overwritten can be had back, and a reset or an undo brings back what it names.
* **Host, shell, MCP.** Request tables and a process registry.

`PROJECT.json` lists every hazard at its line, with the properties that cover it.

## 2. Plan

| Stage | Modules | Composes | What it adds |
|---|---|---|---|
| 1, done | `AgentLoop`, `AgentLoopProofs` | | the loop over one log |
| 2, done | `AppendOnlyLog`, `AppendOnlyLogProofs`, `TurnLog`, `LogSync` | `LogSync` implements `TurnLog` | the log and its two copies |
| 3, done | `ChatIdle`, `ChatIdleProofs` | | the idle backstop |
| 4, done | `ContextSurface`, `ContextSurfaceProofs` | | three writers of one surface, lost replies, restart |
| 5, done | `TurnPipeline`, `TurnPipelineProofs` | the agents of `LogSync` as alive, crashed, detached or gone | the recovery chain, everything beside a turn |
| 6, done | `PermissionQueue`, `PermissionQueueProofs` | | joined calls, answers under way |
| 7, done | `SnapshotRestore`, `SnapshotRestoreProofs` | the engines of the host with the store's stack | restore and undo as a whole |
| 8, open | `BackgroundShell` | | an exit is reported once, no process is lost |
| 9, open | `HostRpc`, `McpHost` | | no lost reply |

The interfaces between the modules are named actions. `LogSync` takes from
`AgentLoop` that a turn appends, compacts, strips images and settles (`TurnAppends`,
`TurnCompacts`, `TurnStripsImages`, `TurnEnds`, `TurnFails`), and `AgentLoop`'s
`ChatSettles` is what its fairness of `TurnSettles` rests on. `TurnPipeline` takes from `LogSync`
that a chat answers, fails, is cancelled or crashes, and leaves no trace
when it does not answer (`NoTrace`); that a checkpoint replaces messages without
losing any is `ContextSurface`'s `NothingLost`. `SnapshotRestore` is what happens
inside the await of `TurnPipeline`'s `StartReset` and `FinishReset`. `ChatIdle` takes
its pauses from the waits that `PermissionQueue`'s `WaitPublished` is about.

Every invariant and every action property of the runs is stated by a theorem (section 7),
but for `OrphansExcluded`, which is false. What the plan has left are the modules of
stages 8 and 9.

## 3. Modules

### `AgentLoop` — `Agent.chat`

JavaScript runs to completion between two awaits. `pc` names the await the loop
stands at (`compacting`, `awaiting` the provider, `sleeping` in a back-off,
`emergency`, `tools`, `landing` a result that may be spilled to disk) or the
synchronous code in between (`round`, `send`), so an `Abort` can cut in only at
an await.

| Actions | Code |
|---|---|
| `StartChat`, `EndRounds` | entry of `chat`, the round limit |
| `BeginCompaction`, `BeginRound`, `CompactionSucceeds/YieldsNothing/Throws` | the budget check of a round, circuit breaker, cool-down, the handler's outcomes |
| `StopBeforeSend`, `Send`, `Wake` | cancel check, request, back-off |
| `ReplyText/Calls/Truncated/TruncatedAgain/Empty/Fails` | the kinds of answer and their retries |
| `Overflow`, `EmergencySucceeds/Fails`, `ImageRejected` | recovery of a refused request |
| `StartCalls`, `CallAnswers`, `CallTimesOut`, `ImplStops` | `executeOne` under `withTimeout`, in chunks of parallel-safe calls |
| `BeginLanding`, `LandResult`, `FinishBatch` | results in call order, placeholders for skipped calls, images after all results, question |
| `Abort` | the abort signal at each await |

`log` is `Session`'s message log, `comp` the compaction counters, `batch`, `res`
and `landed` the local state of a batch, `live` and `signalled` the tool
implementations that run and those whose signal fired. Abstracted: token counts
(over budget or not, shrunk enough or not are free choices), text (only whether
there is any), streaming, statistics. The bootstrap message and the checkpoint a
compaction puts in front are one `CheckpointMsg`.

Unreachable in this build and left out: `emergency-compact` and
`reject-request` at the start of a round and on a continuation (no caller passes
`providerContextLimit`), and a failing `CachePartition.validate`.

### `AppendOnlyLog`

One action per operation of the class; the hash of a prefix is the prefix, so
that "equal hashes" means "equal prefixes". `answer` records the last hash
handed out and the prefix it was asked for. A failing `loadFromSnapshot` is left
out: its only callers drop the log.

### `LogSync` and `TurnLog`

`LogSync` has the main thread's state (`mirror`, `synced`, `status` of every
promise, `active`, `timer`, `agent`), the worker's (`cached`, `wlog`, `task`,
`base`, `rewritten`) and two FIFO channels. One action per handler: `Chat`,
`CancelSession`, `CancelTimeout`, `Crash`, `Destroy`, `OnCancelled`,
`OnMismatch`, `OnResult`, `OnError` on the main thread; `TakeFull`,
`TakeIncremental`, `AskFullSync`, `TakeSync`, `TakeCancel` and the turn's own
`TurnAppends`, `TurnCompacts`, `TurnStripsImages`, `TurnEnds`, `TurnFails` in
the worker. `WorkerDies` is the environment: a worker that hangs says nothing. A
log entry is the set of messages it covers, who wrote it and its form; a
checkpoint covers several. After a cancel the aborted loop runs to its end before the
worker takes its next message: every wait of the loop rejects at once on abort,
so only microtasks lie in between.

`Overlap` says whether a chat may be sent before a cancelled predecessor is
settled, which the comments of `WorkerBackedAgent.ts` expect; the store does not
(`sendMessage.ts:172`). Each property is claimed for the setting it is meant for.

`TurnLog` is the abstract specification: the turns of a session are transactions
on one log. A turn either adds its messages as a whole, perhaps folding a prefix
into a checkpoint that still covers it, or leaves no trace. `LogSync` implements
it with `history` as what the mirror's entries cover and `open` as the pending
requests (`Transactions`).

### `ChatIdle`

The two module-level counters of `chatIdleWatchdog.ts`, the turn they are bound
to and its timer; a fetch or a pause is one of a set of interchangeable
activities that remembers whose it is. An activity may outlive its turn, and app
agents, which run in the same worker with the same wrapped fetch, may fetch at
any time. App agents have no tool hook, so they never pause. The expiry of a
timer that finds something counted arms it again at once and changes nothing.
`shared` remembers the turns in which somebody else's activity was in flight:
for all others the backstop keeps its promise (`AloneNeverHarmed`).

### `ContextSurface`

What one session's model is shown. A surface generation is a list of message ids
with the compaction that made it and its parent; a checkpoint and its compaction
share a name. Three activities share one event loop:

| Actions | Code |
|---|---|
| `SaveArchive`, `Maintain`, `MaintainLoaded`, `Maintained` | one job of the save queue (`enqueueProjectStateSave`), then `maintainContextSurface` on the captured messages |
| `SendMessage`, `Hydrate`, `HydrateLoaded`, `FallBackToParent`, `ParentIncomplete`, `TakeParent`, `DiscardAll`, `RebuildGenerationZero`, `TakeRebuilt`, `AddMessage`, `TurnEnds` | a turn: its wait for the saves, `hydrateSessionContext`, the messages it adds |
| `Plan`, `AbandonPlan`, `InsertPlanned`, `InsertMidLoop`, `ReadSource`, `CommitTransaction`, `CommitReturned`, `CommitTimesOut`, `Verify`, `TakeVerdict`, `MarkFailed`, `RollBack` | the three ways to a checkpoint (`/compact`, after a turn, in the middle of one), `commitCheckpointOrdered`, `commit_context_compaction`, `handleCheckpointCommitFailure` |
| `Reset`, `Restart` | `resetToMessage` once the files are back; the application is closed and opened |

A call of the host takes effect when it is issued, unless it is refused; its reply
is taken in a later step. `upset` remembers which *disturbances* happened: a call
that was refused or lost (done, but reported as failed), what lets a turn begin
before a compaction is settled (`Overlaps`), a reset, a restart. A property names in
`Calm` the disturbances it is not claimed for. Each of them was found by
exploring all pairs, and section 6 says which of them contradict a comment.
`bad` is what the last hydration lost and what it revived, computed from the ids the
agent was given and from `covers`, what each checkpoint stands for.

Abstracted: contents and token counts; when a compaction is due (a free choice);
messages the model does not see. Refusals of the writes inside hydration's
own fallback are left out.

### `TurnPipeline`

The turns of one session, from the guard of `sendMessage` to its `finally`, one
action for the code between two awaits: `SendMessage`/`DrainSends` (guard),
`Refused`, `ShowMessage`, `PickUpAgent`, `MakeAgent` (hydrate, create or reuse),
`RunPass`, the replies (`Answered`, `PassAnswered`, `GoalPassFails`, `Crashes`,
`FallBackToPrimary`, `EndFailed`), `Rebuild` after a back-off, the goal's
`GoalGoesOn`, `GoalCompacts`, `GoalEnds`, then `EndAborted` or `CompactAfterTurn` and
`TurnReturns`. Beside them run the message queue with its drain (`QueueMessage`,
`RemoveQueued`, `DrainSends`, `DrainEnds`) and what the user does: `CancelMessage`,
`Help`, `SwitchSession`, `ClearMessages`, `StartCompact`/`ApplyCompact`,
`StartReset`/`FinishReset`; and `WatchdogFires`.

Of an agent the model keeps whether it is alive, crashed, detached (its app agents
are still at work) or gone, and which turns its log holds. A goal is a turn of
several passes whose condition is a free choice. `upset` as above; the
disturbances are listed before `Disturbances` in the module.

### `PermissionQueue`

`requestExternalAccess` and `requestDangerousCommand` (`Request`, `Join`,
`RequestAborted`), `respondToExternalAccess` (`Deny`, `ApproveCommand`, `ApprovePath`,
and `GrantReturns` after its await), the abort listener of an owner and of a
joined call (`AbortOwner`, `AbortJoined`), `cancelExternalAccessRequests` with and
without `onlyUntracked`. An entry is named after the call that made it; the chained
closures of the code are `Reached`, the calls whose `entry` it is. `answered` is what
the user said to the entry the dialog showed, which is not what the
code looks at: `respond` takes the first of the queue.

### `SnapshotRestore`

The disk, the shadow repository (`head`, `backup`, that is BACKUP_REF) and the stack of
undoable resets. `Edit` is the user or a process writing a file, at any time.
Two sets of rules say which files count. `.gitignore` is a file whose contents are the
ignored files, so that a restore changes the rules its own second step applies;
every walk obeys it (`Visible`, `Ignored`), and so does git's status. `Excluded` are the files
that `EXCLUDE_RULES` hide from git's status, unless HEAD holds them, and from nothing else.

`SendMessage` is a message with its checkpoint. `Checkpoints` are the commits
`snapshot_create` may return: HEAD again, when git's status is empty (`NoChanges`), or what
was walked, less the files that could not be added or were too large (`Walked`). Each
message also keeps the visible files it was sent with, which is what a reset promises. A
commit is its tree.

A restore, of whichever of the callers (`ToolReset`, `ToolUndo`, `ResetToMessage`,
`UndoFiles`), is `Begin`, which backs the visible files up, and then `Restore` or
`Interrupted`, which leaves any part of the work done; `saved` is what was visible
when the last backup was made. What the store does after the host's reply is one step
with the host's second half, except for an undo: `undoConversationReset` reads the
stack (`UndoReset`), has the files restored by reference or, when that fails, by name
(`UndoFiles`, `UndoDone`), reads images and only then writes the messages and the stack
it has read, less its top (`UndoReturns`); it may be refused or end anywhere in between
(`UndoFails`), the stack left as it is. Resets, tools and dismissals go on meanwhile.

### MC modules

`MCAgentLoop` defines the tool batches of the runs. `MCAppendOnlyLog`,
`MCChatIdle`, `MCContextSurface`, `MCPermissionQueue` and `MCSnapshotRestore` define
symmetry in values that are only compared (no cfg uses it where liveness is
checked); `MCContextSurface`, `MCTurnPipeline` and `MCSnapshotRestore` also say
which disturbances may happen, and the last one which files and rules there are;
`MCLogSync` adds nothing. Every module keeps broken
variants of some operations next to the true ones, marked "Broken variant" and
used by no specification: each is a plausible bug that one property catches
(`mutants` in `PROJECT.json`).

## 4. Runs

| Run | Question | Instance | Distinct states |
|---|---|---|---|
| `agent_session` | Is the log a request is built from well formed, and does it end in something to answer? Does it only grow? Are all retries together bounded, does a chat settle, and a cancelled one without help? | 2 chats of 2 rounds, one empty-reply retry, one compaction, one ineffective one, no continuation, one batch of an asking and an unparsable call | 414,393 |
| `agent_tools` | Do unsafe calls overlap, does anything start after an abort, is every orphan told? | 1 chat, one continuation, 3 batches of up to 4 calls, chunks of 2 | 103,859 |
| `append_only_log` | Is a memo ever stale, a hash ever wrong? | 2 messages, length up to 4 | 2,076 |
| `logsync_overlap` | Does a turn run on what the main thread showed, does an abandoned one leave a trace, does the stop button reach the newest? | 3 chats that may overlap, 1 message behind the user's | 2,675,245 |
| `logsync_settles` | Are turns transactions, also those that rewrite the log, and is every promise settled? | 2 chats, 2 messages behind the user's | 201,181 |
| `chat_idle` | Do the counters count what is not there, is a turn at work ended, is a hung turn ended? | 2 turns, 3 activities | 32,246 |
| `context_surface` | Does a turn lack something, does something replaced come back, is the cache behind the tables, does a generation take in a checkpoint that failed? | 2 compactions, 3 messages, 2 waiting saves, every pair of 13 disturbances, twice the same included | 1,939,226 |
| `surface_orphans` (violation) | Does a completed generation take in the checkpoint of a compaction nobody committed? | 3 compactions, 4 messages, 2 restarts | stops at the counterexample |
| `surface_settles` | Is every compaction settled and every turn given its messages? | as `context_surface` with any one disturbance, no symmetry | 163,391 |
| `turn_pipeline` | One turn at a time, on an agent that knows the session, with a stop button that works, and no queued message lost? | 2 turns, 2 queued messages, 1 rebuild before the main thread, one `/compact` or reset, any one disturbance | 841,920 |
| `permissions` | Is every waiting tool served, with the answer to its own question, and do the watchdogs know? | 4 calls for 2 paths and 1 command | 125,199 |
| `snapshot_restore` | Is what a restore overwrites in its backup, also when it stops half-way, and does a reset or an undo bring back what it promised? | a file that may be ignored, an excluded one in 2 versions, 2 messages, 2 edits, 3 restores, 2 undos, any one disturbance | 2,529,357 |

`TypeOK` of every module that states one was checked with the same configurations.

**Why the bounds are enough.** Two chats show what one leaves behind for the next;
the third chat of `logsync_overlap` is needed for a turn that follows a failed
one that followed a resolved one (the worker's copy is then longer than, or
diverged from, a non-empty mirror). Two messages behind the user's let a
compaction cut inside the running turn. Two rounds are a compaction inside a round
and a round after it; two chats of two rounds let a cool-down end. Every limit of the loop is
checked at 1 (continuations in `agent_tools`; all of them together, 999,000 states,
were explored once and found nothing), where "reached" and "not reached" both happen and all combinations
of counters are small; the theorems cover the other values. A batch of four
against chunks of two has a full chunk, a partial one and a boundary between
kinds. Two messages and length four give the log a prefix, an extension and a
different continuation of the same length. Three activities are one of the
turn, one left behind and one of an app agent. Larger instances of `LogSync` (3
chats with 2 messages) exceed 18 million states and were not run to the end.

Two compactions are one that goes wrong and one that meets what it left, or two
that overlap; three messages leave one before, one between and one behind
their checkpoints; two waiting saves let a commit wait behind a job that was captured
before its checkpoint. Pairs of disturbances are needed because a lost commit and a
refused read-back, or a refused save and a restart, only do harm together.
Larger instances were explored once and found no violation of the five properties:
two compactions with three disturbances (26 million states), three compactions with
pairs of disturbances (15.5 million), and three compactions with four messages and
any two restarts or refused or lost calls (1.5 million). Two turns
are one that leaves something behind and one that meets it (a stale agent, a flag);
two queued messages have an order; one rebuild makes the next attempt that
of the main thread. Four calls let one entry have two joined calls and another one wait
behind it. Two messages and two undos let one reset be undone after another one.
Of the two files one is hidden by `.gitignore` and one by the exclude rules; the
second has two versions, so that a checkpoint may hold an old one, or none. Two edits
make a change between two messages and one after them; three restores are a reset,
one that covers its backup, and the undo, or an undo that is interrupted and tried again.

Deadlock checking is off where the system may stop: all chats are done, the
agent is destroyed, nobody asks any more, a bound is used up. `append_only_log` and
`chat_idle` never stop and keep it on.

## 5. Fairness

* `AgentLoop!CancelSpec`, the specification of `agent_session`: synchronous code
  runs on (`SyncStep`), and a wait that was aborted unwinds (`Unwind`), because
  `withTimeout`, the provider's fetch and `sleepAbortable` all listen to the
  signal. Nothing is assumed of a provider, a tool or a handler that was not
  aborted; this is all `CancelSettles` needs.
* `AnswerFairness`, the premise of `AgentLoop!ChatSettles`: in addition every
  wait ends. Tools and sleeps have timers; the provider has its stream idle timer
  and the idle backstop; a handler's commit has a time-out of 60 s.
* `LogSync!CancelSpec`, the specification of `logsync_settles`: messages are
  delivered and the cancel timer fires. The worker is assumed to do nothing; this
  is all `CancelSettles` needs.
* `SettleFairness`, the premise of `LogSync!ChatSettles`: in addition a worker
  that is alive takes its messages and its turn settles (`AgentLoop`'s property),
  and one that is not is noticed by the heartbeat while a request is pending
  (`startHeartbeat`). The heartbeat is suspended while the page is hidden, so
  `ChatSettles` says nothing of a page that stays hidden for ever.
* `ChatIdle!TimerSpec`: a timer that stays armed fires.
* `ContextSurface`: the event loop runs the save queue, the hydration and each
  commit on (`SaveStep`, `HydrateStep`, `CommitStep(c)`), and every call of the host is
  answered or rejected, whichever. Nothing is assumed of the user, of the worker
  or of a planned compaction's summary.
* `TurnPipeline`: what a turn does between its awaits goes on, and its awaits other
  than that for the model are bounded in time (`TurnStep`). Nothing is assumed of
  the provider, the goal's verification or the user: `StopSettles` says that a stopped
  turn ends although nobody answers.
* `PermissionQueue` and `SnapshotRestore` state no liveness: the user need not answer,
  and a restore that is interrupted need not be tried again.

## 6. Where code and comments disagree

The code does something else than a comment says in these places. The run
`surface_orphans` shows one of them (under *Context surface*). None of the others makes a
run fail: each is either a statement kept in its module that no run checks, or a
disturbance that a property excludes with `Calm`. To see the
counterexample add the named statement to the configuration as an INVARIANT, or
take the named kind out of the property's premise.

*Agent loop, log synchronisation, idle backstop.*

* `AgentLoop!RecoveryIsRetried` (`MCAgentLoopSession.cfg`): after an emergency
  compaction the request is not retried in "the same round" but in the next; at the
  round limit it is never sent again, and the chat returns as if it had gone well
  (`Agent.ts:1088`, `742-743`).
* `AgentLoop!NeverSilent` (same cfg): a round "never ends silently", but one whose
  segments are all cut off before visible text does (`Agent.ts:1178`, `965`).
* `LogSync!PrefixAgrees` (both LogSync cfgs): "the main log is only appended to, its
  prefix necessarily agrees with the worker's"; after a rejected image it does not,
  and every next turn pays for a full sync that brings the image back
  (`agentRuntimeLoop.ts:1776`, `Agent.ts:1129`, `WorkerBackedAgent.ts:761-762`).
* `LogSync!NoneStranded` where chats overlap (`MCLogSyncOverlap.cfg`): the cancel timer
  terminates the worker and rejects one request; another one pending on it is left
  for ever, which `destroy` warns of (`WorkerBackedAgent.ts:646`, `707-709`).
* `ChatIdle!AbortOnlyIdle` (`MCChatIdle.cfg`): the backstop "must not abort while a
  fetch is in flight"; binding resets a counter that an app agent's fetch lowers
  later, so the turn's own fetch is no longer counted (`chatIdleWatchdog.ts:29`, `4-8`).

*Context surface* (`ContextSurface`, `MCContextSurface.cfg`).

* "maintain refused", "maintain lost" (`NothingLost`): when the save of a maintained
  surface fails, the job of the queue still counts as done. The next turn
  hydrates without the messages it was about, which `sendMessage.ts:1363-1367` waits
  for the queue to prevent (`contextSurfaceStore.ts:187-192`).
* "commit lost" with "load refused" (`CacheNotBehind`): a commit landed, its reply and its
  read-back did not; `epochCompaction.ts:100-101` takes `committed` false to mean
  that the checkpoint was rolled back. The registry that keeps maintenance away
  until a commit "is settled" (`contextSurfaceStore.ts:43-48`) is cleared before the
  read-back, not after it.
* "compact", "cancel", "late" (`Overlaps`; all properties of the run but
  `FailedNotServed`): `/compact` keeps no turn out while its commit is pending, a
  cancelled turn leaves its commit behind, and after 60 s the worker goes on without
  its commit while the main thread does not; a commit that lands beside the
  next turn replaces what this turn was given.
* "reset" (`NothingRevived`): a reset across a checkpoint leaves the generation
  that holds it; hydration falls back to the parent or to generation 0, as its
  comment says (364-370), also where the parent is not what the messages now are.
* An orphan checkpoint "is not adopted into the nodes" (`contextSurfaceStore.ts:149-153`),
  but `maintainContextSurface` looks at the latest checkpoint only. Run `surface_orphans`
  (`OrphansExcluded`): one crash leaves the checkpoint of a mid-loop compaction in the
  messages, the next that of a planned one; the save of the following message leaves the
  second out, and the nodes it writes into the committed generation begin with the first. A
  single crash is enough when a later mid-loop compaction keeps so much that its checkpoint
  comes before the orphan ("precedes", `findCheckpointInsertIndex`): maintenance drops
  the orphan, does not see that the checkpoint before it is in flight, and adopts that one.
  `AdoptedCommitted` is what is left: one crash at most and nothing inserted before
  another checkpoint.
* The same orphan is adopted when the surface is rebuilt from the messages
  (`DiscardAll`), where nobody looks whether a checkpoint was committed (a reset or an
  overlap), and when an orphan of a crash has the same generation number as the one
  another compaction made after it: `matchesActive` takes the number for proof (line 162;
  an archive that was not written and crashes).
* "commit lost" with "load refused" (`Learned`; `NothingRevived`, `AdoptedCommitted`):
  nobody learns that the commit landed, the checkpoint is rolled back, and what it replaced
  comes back into the next turn.
* "precedes" with "load refused", "maintain refused" or "maintain lost" (`NothingRevived`):
  a restart leaves an orphan; the next turn's mid-loop compaction inserts its checkpoint
  before it; the save drops the orphan and adopts the other checkpoint, whose commit is
  still pending. The commit is refused and the checkpoint rolled back, and as every later
  save fails the surface still names it. Hydration finds the nodes incomplete and falls
  back to the parent generation, whose messages a committed compaction had replaced:
  they come back beside its checkpoint. The proof of the theorem found this case, which
  needs more disturbances than the runs allow; the last conjunct of the premise excludes it.
* After a commit in the middle of a turn a crash rebuilds the agent from
  `retryBaseMessages`, the history before the turn, which "must not bring compacted
  content back" (`sendMessage.ts:1541-1543`). The model does not run a turn a second
  time and says nothing of it.

*Turn pipeline* (`TurnPipeline`, `MCTurnPipeline.cfg`).

* "late stop" (`StopHolds`, `StopSettles`): a user's stop "ends the chain at once"
  (`sendMessage.ts:1883`), but not during the back-off of a crash, while the session is
  hydrated and no agent exists, before a detached agent was asked, or when
  the worker crashes before it acknowledges: the turn goes on, without a stop button. The
  watchdog's stop is not counted in `_stopRequestedSeq` and does not abort a goal.
* "help" (`Stoppable`, `NotKilled`): `/help` and `/commands` reset isLoading during a turn
  (`messageMutators.ts:49-51` warns of exactly this for `/compact`); then a change of
  session destroys the agent at work.
* "compact" (`NotKilled`): a message sent while `/compact` waits for its summary loses its
  agent when the summary comes, though "`/compact` happens between two turns"
  (`sendMessage.ts:601-606`).
* "reset" (`NotKilled`, `NoAmnesia`): the same while a reset waits for the files; the new
  message is cut too.
* "goal error" (`NoAmnesia`): a pass of a goal that fails is finalised like one that was
  answered and keeps the agent, whose log "lacks the turn" (`sendMessage.ts:2611-2613`).
  A crash in a later round of a goal rebuilds from the history before the first; the model
  checks what an agent knows of *other* turns, so no property sees this one.
* "clear" (`Stoppable`): clearing the session sets `_turnSeq` to 0 (`agentStore.ts:1612`); a turn
  that is still preparing itself is never the current one again and, when it
  fails, leaves the input box locked.
* The queue is drained "when the turn ends" (`types.ts:528-529`), but a drain holds
  `drainingSessions` for the whole turn it started, so the end of this turn is not
  noticed: of two queued messages the second waits for another turn of the user's, or for
  the session to be selected again. `QueueKept` says that it is not lost, and no property that
  it is sent.
* The fall-back to the primary model makes a new agent and does not destroy the old one
  (`FallBackToPrimary`): a leak that no property is about.

*Permission queue* (`PermissionQueue`, `MCPermissionQueue.cfg`).

* "orphans" (`Served`): an abort of the call an entry was made for removes the entry and
  rejects this call only; calls that joined it are left waiting, though the abort
  "does not affect the queued requests of others" (`permissionStore.ts:283-297`).
* "gone" (`Served`): after the awaited grant `pendingQueue.shift()` (388, 393) removes
  whatever is first. When the approved entry left the queue meanwhile, it is another
  one, whose calls are neither shown to the user nor settled; their own abort listener
  no longer finds it. `AnswersTheirs` holds all the same: nobody gets a wrong answer.

*Snapshots* (`SnapshotRestore`, `MCSnapshotRestore.cfg`).

* "rules" (`NothingDestroyed`): the backup is "the real state of the disk before the
  destructive operation" (`restore_engine.rs:97-98`), without ignored files. When the
  target's `.gitignore` ignores fewer of them, the checkout brings it in first, and
  the removal of untracked files deletes what is not ignored any more; the preview "exactly
  as the execution" (7-9) does not list it.
* "race": the workspace's lock keeps git operations apart, not the editor and the
  agent's processes; a file written between backup and reset is lost.
* "emptied" (`RestoresExactly`): without a file to back up the backup is HEAD, which is
  documented (100); its undo brings HEAD's files back where there were none.
* A checkpoint is "the code state before this message is sent" (`agentStore.ts:1636`), and
  a restore makes the workspace "fully consistent with the target snapshot"
  (`restore_engine.rs:390`). The fast path of `create` (`snapshot_engine.rs:236-258`) asks
  git's status, which obeys `EXCLUDE_RULES` (7-32), whether anything changed; the walk of a
  snapshot and of a restore does not know these rules. A new file in `dist/` or `.vscode/`
  alone is no change: HEAD is used again without it, and a reset to the message deletes
  it. It is in the backup, so the undo of the reset returns it. The first checkpoint
  can even be the empty baseline, to which every reset is refused. `RestoresExactly`
  says how far this goes: only files under `Excluded` may be missing, and none is
  brought back in an older version.
* "skipped" (`RestoresExactly`): a file that cannot be added is left out of a checkpoint with
  a warning in the log (280-293), and one over 100 MB without (`ignore_resolver.rs:74-81`);
  any file may then be missing after a reset. A skipped `.gitignore` counts as "rules".
* An interrupted undo backs the half-restored files up under the same reference before
  it is tried again. `RestoresExactly` holds because the second attempt restores by name.
* `undoConversationReset` writes the stack it read before its awaits, less its top
  (`agentStore.ts:1748`, `1826`), and has no guard: a reset that ends in between loses its
  entry, and with it the messages it cut. A reset cuts the messages it read before
  its own await (1630, 1675): those an undo returned meanwhile are dropped. No property
  speaks of the messages; what a restore does to the files is right all the same.

## 7. Proofs

TLAPS proves, for every value of the constants that satisfies the assumptions
each module states (`ConstantsAssumption`, `MaxLenAssumption`, `SurfaceConstants`, `PipelineConstants`,
`PermissionConstants`, `SnapshotConstants`):

* `AgentLoopProofs`
  * `TypeCorrect`: `TypeOK` is inductive.
  * `WireShapeHolds`. `WireShape` speaks only of moments without an open batch,
    so it is not inductive: `WireInv` says what holds within one. While a batch
    is worked on the log is a well-formed log, then the assistant message with
    the calls of the batch, then the first `landed` results. Lemmas show that a
    well-formed log stays so when quiet messages or a complete block are
    appended, when it is cut at a point of `CutPoints`, and when images are
    stripped; `NextWire` has one step per action.
  * `CircuitBreakerHolds`. `BoundInv` ties the counters to the emergency
    attempt: the limits hold exactly until it is spent, and while the handler
    runs the breaker was closed when it was asked.
  * `AsksForAnswerHolds`. `AsksInv` extends it from the moment of the request to
    everything on the way to one; it leans on `WireInv`, because only a batch
    whose results have all landed ends in a tool message, and on the batches
    being non-empty.
  * `OrphansSignalledHolds`. `OrphanInv` adds that calls run only while a batch is
    worked on, so that the identity of a running call does not change under it.
  * `ExclusiveHolds`. `SegmentInv` says that a batch is worked off from its head: what was
    begun is a prefix, what runs lies within one chunk, and nothing behind a running call
    that may ask has been begun. The number of calls begun, by which the code finds its
    next segment, is then the place of the last one (`BegunIsPrefix`).
  * `NoStartAfterAbortHolds` and `AppendOnlyHolds`, from the actions and `TypeOK` alone.
* `AppendOnlyLogProofs`: `TypeOK`, `MemosFresh` and `AnswersRight` together are
  inductive (none is alone: a fresh memo is what makes an answer right, and the
  tables in step are what makes a memo extendable). `CascadeExtends` is the fact
  about the hash chain the rest leans on: going on from a prefix gives the same
  as starting over. The theorems `TablesInStep`, `MemosFreshHolds` and
  `AnswersRightHolds` follow.
* `LogSyncProofs`, for any number of chats and any length of a turn
  * `TypeCorrect`, and `ChannelsHold`: what the two channels may hold. `Channels` says that
    chats are sent in order (`InOrder`), that one message at most asks for a turn or
    carries the log for it, and none does when its result is on the way (`OneRequest`), how
    far the worker is with a chat a message is about (`Phases`), and what a worker that is
    alive will still find (`Working`: a chat begins behind the cancel of every
    earlier one).
  * `CancelAlwaysReaches`, from `Channels` alone: nobody but the newest chat holds
    activeRequestId, also where chats overlap.
  * `TurnRunsOnMirror`. `Content` adds that every request carries the log the main
    thread showed for it, in full or as a prefix that is checked and a rest (`Carried`).
  * `NoTurnLeavesTrace`. `Traceless` says of every log, in a variable or in a message,
    whose turns it holds: resolved ones, and the running one's own.
  * `NobodyStranded`. With `~Overlap` (a constant: a chat waits for its predecessor, as the
    user interface does) `Serial` says that one chat is pending at most, that the timer is
    its, and that none is pending with a worker that was given up. Where chats overlap the
    theorem is false (section 6), and the run of that configuration does not check it.
  * `TurnsAreTransactions`: the refinement of `TurnLog`, step by step. `Turns` says what a
    turn has made of the log it began with (`Continues`, or `Rewrites` with its first
    entries folded), and the same of the result on its way; then the arrival of the
    result is one commit of `TurnLog` and every other step a stutter or an abort.
* `ChatIdleProofs`: `TypeCorrect`; `NoPhantomsHolds`; and `AloneNeverHarmedHolds`,
  by `ExactInv`: while a turn has the worker for itself the counters are exactly
  the numbers of fetches and pauses in flight, so that a timer that finds both at
  zero finds nothing in flight.
* `ContextSurfaceProofs`
  * `FailedNotServedHolds`. The tables alone are not inductive,
    because a save and a commit write back a surface they read earlier. `IInv` says that
    the rows of the tables, the cache and every surface in somebody's hands (`Trusted`,
    and the save's, the turn's) are `Certified`: made by no compaction or by one whose row
    says completed; and no step takes "completed" back. The transaction needs one fact
    more, that a row becomes completed in the step in which its generation appears.
  * `CacheNotBehindHolds`. The invariant is `CacheInv`: as long as nothing overlaps, no reset
    happened and no commit landed unseen (`Learned`), the actors are `Alone` (one compaction
    at a time, inside its turn or between turns, and whoever waits for the save queue has
    all of it ahead, so that a commit and a hydration find it empty) and everyone who holds a
    surface that will go into the cache holds the `Latest`: no generation in the tables
    is later. The cache itself is behind only while a commit's outcome is unknown. Crashes
    and calls that were refused or lost are all inside the theorem; a load may be
    refused too, unless a commit's reply was lost.
  * `TypeCorrect`, by `TypeInv`: every list is `Listed`, with each id once and only messages
    that were added or compactions that were begun; a save under way has a job, and a
    pending commit a checkpoint to commit. What the helpers on lists give, entry by entry
    (`LatestIs`, `NodesAre`, `DroppedIs`, `InsertedIs`), is proved here and used by the
    three theorems that follow.
  * `AdoptedCommittedHolds`, by `OrphanInv`: on the property's conditions (`Sound`) everything
    is `Orderly`. In the lists of the running application there is one orphan at most, and
    only after a crash, and the checkpoint under way is the last (`Kept`); the last
    committed checkpoint of every list is that of the latest generation (`Headed`), which is
    why looking at one checkpoint is enough; the archive holds one orphan at most for the
    first crash to leave (`OneStored`), and waiting saves only grow (`Chained`). A surface in
    the tables or in anybody's hands says of its generation what the tables say
    (`Faithful`), holds committed checkpoints only (`Clean`) and is found complete
    (`Present`), so that no fallback is taken. `Fate` and `InHand` say what a commit can still
    do, and what it is about.
  * `NothingLostHolds`. `StandInv` needs no condition: in every list a checkpoint stands for
    exactly what is before it. `Owned`: what is registered as in flight belongs to
    a compaction that will clear it. `LostInv`: a turn that waits has the whole queue ahead,
    the queue ends with its messages, and once it is empty the cache's nodes stand for
    all of them (`Prompt`). Hydration, which serves those nodes or goes back to
    a parent or to the messages, then leaves nothing out.
  * `NothingRevivedHolds`, by `RevInv`: on the property's conditions (`Upright`) everything is
    `Ordered`. With `StandInv` what a commit replaced stands before its checkpoint in
    every list; the checkpoint of every commit is in every list and the last of them is
    that of the latest generation (`Led`), through renamed checkpoints too (`Named`). So
    a list of nodes revives nothing as long as none of them stands before that one
    (`Clear`), and every surface that may be served or written is of this kind (`Hands`,
    `Work`). Where no checkpoint was inserted before another the nodes also stay where they
    are (`Firm`, `Tip`), and hydration never falls back; where one was, `Prompt` says that
    it does not, which is why one of the two has to hold.
* `TurnPipelineProofs`
  * `OneAtATimeHolds`, `StoppableHolds`, `NotKilledHolds` from one `IInv`, with one
    lemma per group of actions. `Guarded` is the guard itself; `Unlocked` is `Stoppable`
    with what it rests on: a turn knows that it is the current one; `StopKnown`: only
    a halted turn has a stop to notice; `Manned`: a turn that is awaited has the lock, its
    agent, once picked up, is there, and no compaction or reset is under way. This is
    what the other buttons could break.
  * `StopHoldsAlways` from `IInv` and `Caught`: a halted turn is, at every place
    where it could still ask the model, either marked as stopped or without an agent
    that would answer.
  * `TypeCorrect`, by `TypeInv`: an agent is rebuilt on the main thread once and last, and
    a turn knows only turns that were begun.
  * `QueueKeptHolds`. The sent, the one in a drain's hand and the waiting messages are
    one `Line`; taking out, putting back and sending move its borders and leave it, an
    append and a removal keep it in order and complete (`KeptAppend`, `KeptRemove`).
  * `NoAmnesiaHolds` from `IInv`, `Caught` and `Remembers`: the agent the store holds
    knows what the session shows, less the turn under way, and a turn that may still be
    run again keeps as its base what its next agent has to know.
* `PermissionQueueProofs`: `ServedHolds`, `AnswersTheirsHolds`, `WaitPublishedHolds`. Besides
  the three and `TypeOK`, `IInv` has `ShowsFirst` (the dialog shows the head of the queue,
  so what the code answers is what the user saw) and `Granted` (an entry whose grant is
  awaited was approved, and as long as nothing left the queue under a grant it is the
  first). Most of the work is about sequences: the
  head of a queue after an append, a tail, a removal by place, or the removal of many.
* `SnapshotRestoreProofs`
  * `NothingDestroyedHolds`. `BackedUp` says that between the two halves of a restore
    every file a walk finds is in the backup as it is on the disk; `Ruled` that
    while the rules stay the same every commit was made under them, HEAD included, so
    that neither a checkout nor the removal of untracked files takes an ignored file.
  * `RestoresExactlyHolds`. `Ruled` also says of every message, those on the stack and
    of an undo in flight included, that its checkpoint is its files except for some
    under `Excluded`, or for any once a file was skipped (`RuledBy`, `Lacks`); the fast path
    keeps this because a HEAD without changes differs from the disk in such files
    only (`CheckpointLacks`). `Honest` says that the backup the reference names, and every
    one on a stack, is the files that were visible when it was made, and that an
    undo in flight has as its target what it promised.

Model-checked only:

* liveness (`ChatSettles` and `CancelSettles` of `AgentLoop` and of `LogSync`;
  `HungTurnEnds`; `CommitSettles`, `TurnStarts`; `StopSettles`), as the prover does not
  handle fairness;
* `OrphansExcluded`, which is false; `surface_orphans` shows it.

Two properties were corrected because they could not be proved. `AdoptedCommitted` was too
strong: its counterexamples need a disturbance twice or a third compaction,
and the module's disturbances were made repeatable because of them. `NothingRevived`
lacked the last conjunct of its premise (section 6).

## 8. Not modelled

* In `LogSync`: the bridge for tools, fetches and permissions, app agents and detach.
  They share the channels but do not touch the logs. A compaction lands at once
  there; the commit it waits for is `ContextSurface`'s.
* In `ChatIdle`: a turn touched by a permission wait is excluded from
  `HungTurnEnds`. `setPermissionWaitActive` leaves the timer alone, so a timer
  that fires within the wait is off until the next event arms it.
* In `ContextSurface`: refusals of the writes of hydration's own fallback, messages
  that are hidden from the model, degraded checkpoints' text.
* In `TurnPipeline`: images, memory and tool discovery (awaits without state of their
  own), several workspaces, changed settings other than "the agent is made anew", and
  the undo of a reset, which is `SnapshotRestore`'s. Of goals, the conditions and
  the limits by count and time; todo lists are edited by one tool at a time.
* In `PermissionQueue`: the policy itself (what is allowed without asking), kept by the
  host.
* In `SnapshotRestore`: lock files, diffs, branches, the list of snapshots, the guard of
  MEMORY.md, files too large to back up (the reset is refused). Making a checkpoint is
  one step. A commit stands for its tree: two commits of one tree have different names
  in the code, and then the undo takes its second path, with the same files. One undo is
  in flight at a time; a second one reads the same stack and, when it is the last to
  write, leaves the same stack. Two kinds of disturbance together are not in the
  checked instance; the theorems allow them.
* **Shell and background processes**: threads and operating-system processes; the
  registry (an exit reported once, `background.rs:133`) is the next module of the plan.
* **Host RPC, MCP, LSP**: request tables over external processes without retries on
  the host's side. `workspaceTaskQueue.ts`, which falls back to direct execution, is
  imported by nothing in the user interface.
* **Providers, wire formats, parsing, the editor, the project graph, apps, the CLI and
  translations** are most of the lines of the repository: computation, presentation
  and I/O without protocol state. The loop sees outcomes, all of which `AgentLoop`
  enumerates.
* Time: a timer that is armed may fire; no property depends on durations.
