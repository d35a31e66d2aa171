----------------------------- MODULE ContextSurface -----------------------------
(***************************************************************************)
(* Which messages of one session the model sees, and what a compaction     *)
(* does to that choice: contextSurfaceStore.ts on the main thread, the     *)
(* surface tables of codepapr-core/src/db/mod.rs, the save queue of        *)
(* projectSnapshot.ts, and the compaction commit of sendMessage.ts.        *)
(*                                                                         *)
(* A surface generation is a list of message ids.  A save rewrites the     *)
(* list of the generation it finds in the cache; a compaction appends a    *)
(* generation that starts with its checkpoint; a turn takes its history    *)
(* from the list.  The three run beside each other in one event loop: a    *)
(* call of the host takes effect when it is issued, unless it is refused,  *)
(* and its reply is taken in a later step.                                 *)
(*                                                                         *)
(* Only model-visible messages are modelled.  A compaction and its         *)
(* checkpoint message share one name, as every checkpoint has its own      *)
(* compactionId.                                                           *)
(***************************************************************************)
EXTENDS Integers, Sequences, FiniteSets

CONSTANTS
  Checkpoints,   \* the compactions that may be attempted
  NoCompaction,  \* the compactionId of a generation no compaction made
  Allowed,       \* the disturbances that may happen, again and again
  MaxUpsets,     \* bound of the model: how many of them happen
  MaxMsgs,       \* bound of the model: messages sent
  MaxJobs        \* bound of the model: a message is added when fewer saves wait

(* A call of the host is refused when it had no effect and lost when it    *)
(* had one but the caller sees an error.                                   *)
CallFaults == {"commit refused", "commit lost", "load refused", "maintain refused",
               "maintain lost", "archive refused", "fail refused"}

(* What lets a turn begin before a compaction is settled: /compact, which  *)
(* keeps no turn out; a turn cancelled while its worker waits for a        *)
(* commit; a worker that stopped waiting after 60 s.                       *)
Overlaps == {"compact", "cancel", "late"}

(* "precedes" is no fault: a mid-loop compaction keeps so much that its    *)
(* checkpoint comes before one that is in the messages already.            *)

ASSUME SurfaceConstants ==
  /\ NoCompaction \notin Checkpoints
  /\ Checkpoints \cap Int = {} /\ NoCompaction \notin Int
  /\ Allowed \subseteq CallFaults \cup Overlaps \cup {"restart", "reset", "precedes"}
  /\ {MaxUpsets, MaxMsgs, MaxJobs} \subseteq Nat

Plain == 1 .. MaxMsgs
NoGen == -1
Unset == 0     \* a checkpoint of a turn has no generation before its commit
Turn == 0      \* the turn's name among those who wait for the save queue

Messages == [id : Plain \cup Checkpoints, cid : Checkpoints \cup {NoCompaction}, gen : Nat]
Surface == [gen : Nat, parent : Nat \cup {NoGen}, cid : Checkpoints \cup {NoCompaction},
            nodes : Seq(Plain \cup Checkpoints)]
NoSurface == [gen |-> NoGen, parent |-> NoGen, cid |-> NoCompaction, nodes |-> <<>>]
Forgotten == [NoSurface EXCEPT !.gen = -2]

VARIABLES
  archive,   \* persisted: the messages table
  surfaces,  \* persisted: the rows of context_surfaces with their nodes
  rows,      \* persisted: status of each row of context_compactions
  live,      \* sessionMessages of the store
  cache,     \* surfaceCache: a surface, NoSurface for null, Forgotten for absent
  inFlight,  \* inFlightCompactionIds
  queue,     \* save jobs not finished, each with the messages it captured
  save,      \* the job at the head of the queue
  comp,      \* each compaction's call of commitCheckpointOrdered
  late,      \* compactions whose worker stopped waiting
  turn,      \* the turn: how far its hydration is and the history it got
  sent,      \* how many messages were ever added
  covers,    \* history: the messages each checkpoint stands for
  bad,       \* history: what the last hydration lost, and what it revived
  upset      \* history: the disturbances that happened

db == <<archive, surfaces, rows>>
vars == <<archive, surfaces, rows, live, cache, inFlight, queue, save, comp, late, turn,
          sent, covers, bad, upset>>

-----------------------------------------------------------------------------
IdsOf(ms) == [i \in DOMAIN ms |-> ms[i].id]
IdSet(ms) == {ms[i].id : i \in DOMAIN ms}

(* Position of the last checkpoint, 0 for none.                            *)
LatestCheckpoint(ms) ==
  LET at == {i \in DOMAIN ms : ms[i].id \in Checkpoints}
  IN  IF at = {} THEN 0 ELSE CHOOSE i \in at : \A j \in at : j <= i

(* The last checkpoint and everything after it.                            *)
ComputeSurfaceNodes(ms) ==
  LET k == LatestCheckpoint(ms) IN SubSeq(IdsOf(ms), IF k = 0 THEN 1 ELSE k, Len(ms))

(* The messages without the one of this id, as every id is there once.     *)
Without(ms, id) ==
  LET k == CHOOSE i \in DOMAIN ms : ms[i].id = id
  IN  IF id \in IdSet(ms) THEN SubSeq(ms, 1, k - 1) \o SubSeq(ms, k + 1, Len(ms)) ELSE ms

InsertCheckpoint(ms, c, gen, k) ==
  SubSeq(ms, 1, k) \o <<[id |-> c, cid |-> c, gen |-> gen]>> \o SubSeq(ms, k + 1, Len(ms))

Covered(ids) == (ids \cap Plain) \cup UNION {covers[c] : c \in ids \cap Checkpoints}
RangeOf(s) == {s[i] : i \in DOMAIN s}

(* loadContextSurface without and with a generation.                       *)
OneOf(S) == IF S = {} THEN NoSurface ELSE CHOOSE s \in S : TRUE
LoadLatest == OneOf({s \in surfaces : \A t \in surfaces : t.gen <= s.gen})
Load(g) == OneOf({s \in surfaces : s.gen = g})

(* save_context_surface: an existing generation gets new nodes and keeps   *)
(* its compaction and its parent.                                          *)
Saved(s) ==
  IF \E t \in surfaces : t.gen = s.gen
  THEN {IF t.gen = s.gen THEN [t EXCEPT !.nodes = s.nodes] ELSE t : t \in surfaces}
  ELSE surfaces \cup {s}

(* Broken variant: a surface that was written is not put into the cache.   *)
RememberNothing(s) == UNCHANGED cache

(* The surface a call wrote, or found written, is the cached one.          *)
Remember(s) == cache' = s

(* The n-th disturbance of its kind is <<d, n>>.                           *)
Happens(d) ==
  /\ d \in Allowed /\ Cardinality(upset) < MaxUpsets
  /\ upset' = upset \cup {<<d, Cardinality({u \in upset : u[1] = d}) + 1>>}

Idle == [pc |-> "idle", got |-> NoSurface, msgs |-> <<>>, gen |-> Unset, ahead |-> 0,
         head |-> NoCompaction, cut |-> NoCompaction]
Over == [Idle EXCEPT !.pc = "over"]

Init ==
  /\ archive = <<>> /\ surfaces = {} /\ rows = [c \in Checkpoints |-> "none"]
  /\ live = <<>> /\ cache = Forgotten /\ inFlight = {}
  /\ queue = <<>> /\ save = [pc |-> "idle", got |-> NoSurface]
  /\ comp = [c \in Checkpoints |-> Idle]
  /\ late = {}
  /\ turn = Idle
  /\ sent = 0 /\ covers = [c \in Checkpoints |-> {}]
  /\ bad = [lost |-> {}, revived |-> {}]
  /\ upset = {}

-----------------------------------------------------------------------------
(* The save queue: saveCurrentProjectState and enqueueProjectStateSave.    *)

Enqueue(ms) == queue' = Append(queue, ms)

(* Broken variant: a waiter does not notice the end of a job.              *)
LessNever(n) == n

(* A job is over: those who wait for the tail of the queue count it.       *)
Less(n) == IF n > 0 THEN n - 1 ELSE 0

JobDone ==
  /\ queue' = Tail(queue)
  /\ save' = [pc |-> "idle", got |-> NoSurface]
  /\ comp' = [c \in Checkpoints |-> [comp[c] EXCEPT !.ahead = Less(@)]]
  /\ turn' = [turn EXCEPT !.ahead = Less(@)]

(* saveMessageBatch of the captured messages; an error is reported and     *)
(* the job goes on.                                                        *)
SaveArchive ==
  /\ save.pc = "idle" /\ queue # <<>>
  /\ \/ archive' = Head(queue) /\ UNCHANGED upset
     \/ Happens("archive refused") /\ UNCHANGED archive
  /\ save' = [save EXCEPT !.pc = "archived"]
  /\ UNCHANGED <<surfaces, rows, live, cache, inFlight, queue, comp, turn, late, sent, covers, bad>>

(* Broken variant: every checkpoint found in the messages is adopted.      *)
ProjectionOfAll(s, ms) == ComputeSurfaceNodes(ms)

(* The nodes maintainContextSurface writes: the last checkpoint is left    *)
(* out when it is not the one the generation was made by (an orphan).      *)
MatchesActive(s, m) == m.cid = s.cid \/ (m.gen # Unset /\ m.gen = s.gen)

Projection(s, ms) ==
  LET k == LatestCheckpoint(ms)
  IN  IF k # 0 /\ s.gen # NoGen /\ ~MatchesActive(s, ms[k])
      THEN ComputeSurfaceNodes(Without(ms, ms[k].id))
      ELSE ComputeSurfaceNodes(ms)

(* A compaction in flight owns the surface until it is settled.            *)
Skipped(ms) == LatestCheckpoint(ms) # 0 /\ ms[LatestCheckpoint(ms)].cid \in inFlight

(* maintainContextSurface once the surface s is known.                     *)
MaintainWith(s) ==
  LET ms == Head(queue)
  IN  \/ /\ Skipped(ms)
         /\ JobDone
         /\ UNCHANGED <<surfaces, upset>>
      \/ /\ ~Skipped(ms)
         /\ \E new \in {[gen |-> IF s.gen = NoGen THEN 0 ELSE s.gen,
                        parent |-> s.parent, cid |-> s.cid, nodes |-> Projection(s, ms)]} :
              \/ /\ surfaces' = Saved(new)
                 /\ save' = [pc |-> "saved", got |-> new]
                 /\ UNCHANGED <<queue, comp, turn, upset>>
              \/ Happens("maintain lost") /\ surfaces' = Saved(new) /\ JobDone
              \/ Happens("maintain refused") /\ UNCHANGED surfaces /\ JobDone

Maintain ==
  /\ save.pc = "archived"
  /\ IF cache = Forgotten
     THEN /\ UNCHANGED surfaces
          /\ \/ /\ save' = [pc |-> "loaded", got |-> LoadLatest]
                /\ UNCHANGED <<queue, comp, turn, upset>>
             \/ Happens("load refused") /\ JobDone
     ELSE MaintainWith(cache)
  /\ UNCHANGED <<archive, rows, live, cache, inFlight, late, sent, covers, bad>>

MaintainLoaded ==
  /\ save.pc = "loaded"
  /\ cache' = save.got
  /\ MaintainWith(save.got)
  /\ UNCHANGED <<archive, rows, live, inFlight, late, sent, covers, bad>>

Maintained ==
  /\ save.pc = "saved"
  /\ Remember(save.got)
  /\ JobDone
  /\ UNCHANGED <<archive, surfaces, rows, live, inFlight, late, sent, covers, bad, upset>>

-----------------------------------------------------------------------------
(* Messages and turns.                                                     *)

NewMessage == [id |-> sent + 1, cid |-> NoCompaction, gen |-> Unset]

Planned == {c \in Checkpoints : comp[c].pc \notin {"idle", "over"} /\ comp[c].gen # Unset}

Pending(c) == comp[c].pc \notin {"idle", "over", "planned"}

(* The worker of the turn waits for the reply to these.                    *)
Asked == {c \in Checkpoints : Pending(c) /\ comp[c].gen = Unset} \ late

(* The turn begins another assistant message; a stream snapshot may save   *)
(* it before the turn ends.                                                *)
AddMessage ==
  /\ turn.pc = "running" /\ Asked = {}
  /\ sent < MaxMsgs /\ Len(queue) < MaxJobs
  /\ live' = Append(live, NewMessage)
  /\ sent' = sent + 1
  /\ Enqueue(live') \/ UNCHANGED queue
  /\ UNCHANGED <<db, cache, inFlight, save, comp, late, turn, covers, bad, upset>>

(* sendMessage: the user's message is shown and saved, then the turn waits *)
(* for the saves before it reads its history.                              *)
SendMessage ==
  /\ turn.pc = "idle"
  /\ IF Planned = {} THEN UNCHANGED upset ELSE Happens("compact")
  /\ sent < MaxMsgs /\ Len(queue) < MaxJobs
  /\ live' = Append(live, NewMessage)
  /\ sent' = sent + 1
  /\ Enqueue(live')
  /\ turn' = [Idle EXCEPT !.pc = "waiting", !.ahead = Len(queue')]
  /\ UNCHANGED <<db, cache, inFlight, save, comp, late, covers, bad>>

(* buildEffectiveContextMessages: the last checkpoint of the list and what *)
(* follows it.                                                             *)
Effective(nodes) ==
  LET at == {i \in DOMAIN nodes : nodes[i] \in Checkpoints}
  IN  IF at = {} THEN nodes
      ELSE SubSeq(nodes, CHOOSE i \in at : \A j \in at : j <= i, Len(nodes))

(* Checkpoints of the session whose compaction is committed and settled.   *)
Committed == {c \in IdSet(live) \cap Checkpoints : rows[c] = "completed" /\ comp[c].pc = "over"}

(* The agent is given these nodes.  lost: messages before the turn's own   *)
(* that neither they nor a checkpoint among them stands for; revived:      *)
(* those among them that a committed checkpoint already replaced.          *)
Got(nodes) ==
  LET given == RangeOf(Effective(nodes))
      heads == given \cap Checkpoints
  IN  /\ turn' = [Idle EXCEPT !.pc = "running",
                              !.head = IF heads = {} THEN NoCompaction ELSE CHOOSE c \in heads : TRUE]
      /\ bad' = [lost |-> ((IdSet(live) \cap Plain) \ {sent}) \ Covered(given),
                 revived |-> {m \in given \cap Plain : \E c \in Committed : m \in covers[c]}]

(* Every node of the surface is still a message of the session.            *)
Complete(s) == RangeOf(s.nodes) \subseteq IdSet(live)

(* hydrateSessionContext once the surface s is known.                      *)
HydrateWith(s) ==
  IF s.gen = NoGen \/ s.nodes = <<>>
  THEN Got(IdsOf(live))
  ELSE IF Complete(s)
       THEN Got(s.nodes)
       ELSE /\ UNCHANGED bad
            /\ turn' = IF s.parent # NoGen
                       THEN [turn EXCEPT !.pc = "parent", !.got = Load(s.parent), !.gen = s.gen]
                       ELSE [turn EXCEPT !.pc = "rebuild"]

Hydrate ==
  /\ turn.pc = "waiting" /\ turn.ahead = 0
  /\ IF cache = Forgotten
     THEN \/ /\ turn' = [turn EXCEPT !.pc = "loaded", !.got = LoadLatest]
             /\ UNCHANGED <<bad, upset>>
          \/ Happens("load refused") /\ Got(IdsOf(live))
     ELSE HydrateWith(cache) /\ UNCHANGED upset
  /\ UNCHANGED <<db, live, cache, inFlight, queue, save, comp, late, sent, covers>>

HydrateLoaded ==
  /\ turn.pc = "loaded"
  /\ cache' = turn.got
  /\ HydrateWith(turn.got)
  /\ UNCHANGED <<db, live, inFlight, queue, save, comp, late, sent, covers, upset>>

(* The parent generation is complete: the later ones are discarded.        *)
FallBackToParent ==
  /\ turn.pc = "parent"
  /\ turn.got.gen # NoGen /\ turn.got.nodes # <<>> /\ Complete(turn.got)
  /\ surfaces' = {s \in surfaces : s.gen < turn.gen}
  /\ turn' = [turn EXCEPT !.pc = "discarded"]
  /\ UNCHANGED <<archive, rows, live, cache, inFlight, queue, save, comp, late, sent, covers, bad, upset>>

ParentIncomplete ==
  /\ turn.pc = "parent"
  /\ ~(turn.got.gen # NoGen /\ turn.got.nodes # <<>> /\ Complete(turn.got))
  /\ turn' = [turn EXCEPT !.pc = "rebuild"]
  /\ UNCHANGED <<db, live, cache, inFlight, queue, save, comp, late, sent, covers, bad, upset>>

TakeParent ==
  /\ turn.pc = "discarded"
  /\ cache' = turn.got
  /\ Got(turn.got.nodes)
  /\ UNCHANGED <<db, live, inFlight, queue, save, comp, late, sent, covers, upset>>

(* Generation 0 is built again from the messages: everything is discarded, *)
(* then the new one saved.                                                 *)
DiscardAll ==
  /\ turn.pc = "rebuild"
  /\ surfaces' = {}
  /\ turn' = [turn EXCEPT !.pc = "emptied",
                          !.got = [NoSurface EXCEPT !.gen = 0, !.nodes = ComputeSurfaceNodes(live)]]
  /\ UNCHANGED <<archive, rows, live, cache, inFlight, queue, save, comp, late, sent, covers, bad, upset>>

RebuildGenerationZero ==
  /\ turn.pc = "emptied"
  /\ surfaces' = Saved(turn.got)
  /\ turn' = [turn EXCEPT !.pc = "rebuilt"]
  /\ UNCHANGED <<archive, rows, live, cache, inFlight, queue, save, comp, late, sent, covers, bad, upset>>

TakeRebuilt ==
  /\ turn.pc = "rebuilt"
  /\ cache' = turn.got
  /\ Got(IdsOf(live))
  /\ UNCHANGED <<db, live, inFlight, queue, save, comp, late, sent, covers, upset>>

(* The turn is over, or cancelled while its worker waits for a commit: the *)
(* session is saved.                                                       *)
TurnEnds ==
  /\ turn.pc = "running" /\ Len(queue) < MaxJobs
  /\ IF Asked = {} THEN UNCHANGED upset ELSE Happens("cancel")
  /\ turn' = Idle
  /\ late' = late \cup Asked
  /\ Enqueue(live)
  /\ UNCHANGED <<db, live, cache, inFlight, save, comp, sent, covers, bad>>

-----------------------------------------------------------------------------
(* Compactions.  A planned one (/compact, or after a turn) is computed     *)
(* from the messages of one moment and inserted later; one of a running    *)
(* turn (mid-loop) arrives from the worker.                                *)

(* The next generation is read from the cache, or loaded, before the       *)
(* summary is generated.                                                   *)
Plan(c) ==
  /\ turn.pc = "idle" /\ Planned = {}
  /\ comp[c].pc = "idle" /\ LatestCheckpoint(live) < Len(live)
  /\ LET s == IF cache = Forgotten THEN LoadLatest ELSE cache
     IN  /\ cache' = s
         /\ comp' = [comp EXCEPT ![c] = [Idle EXCEPT !.pc = "planned", !.msgs = live,
                                        !.gen = IF s.gen = NoGen THEN 1 ELSE s.gen + 1]]
  /\ UNCHANGED <<db, live, inFlight, queue, save, turn, late, sent, covers, bad, upset>>

(* No summary, or the messages it was computed from changed meanwhile.     *)
AbandonPlan(c) ==
  /\ comp[c].pc = "planned"
  /\ comp' = [comp EXCEPT ![c] = Over]
  /\ UNCHANGED <<db, live, cache, inFlight, queue, save, turn, late, sent, covers, bad, upset>>

(* isSafeCheckpointInsert.                                                 *)
SafeInsert(base, k) ==
  Len(live) >= Len(base) /\ SubSeq(live, 1, k) = SubSeq(base, 1, k)

(* commitCheckpointOrdered up to its first await: the checkpoint is in the *)
(* messages, registered, and handed to the save queue.                     *)
Insert(c, gen, k) ==
  /\ live' = InsertCheckpoint(live, c, gen, k)
  /\ covers' = [covers EXCEPT ![c] = Covered(IdSet(SubSeq(live, 1, k)))]
  /\ inFlight' = inFlight \cup {c}
  /\ Enqueue(live')
  /\ comp' = [comp EXCEPT ![c] = [Idle EXCEPT !.pc = "waiting", !.msgs = live', !.gen = gen,
                                             !.ahead = Len(queue')]]

InsertPlanned(c) ==
  /\ comp[c].pc = "planned"
  /\ \E k \in LatestCheckpoint(comp[c].msgs) + 1 .. Len(comp[c].msgs) :
       SafeInsert(comp[c].msgs, k) /\ Insert(c, comp[c].gen, k)
  /\ UNCHANGED <<db, cache, save, turn, late, sent, bad, upset>>

(* Does id, if it is in the messages, stand before position i?             *)
After(id, i) == \A j \in DOMAIN live : live[j].id = id => j < i

(* findCheckpointInsertIndex: right before the first message the worker    *)
(* keeps, or, when none of those is in the messages, behind the rounds of  *)
(* this turn it summarised.  Either way no checkpoint follows at once.     *)
BeforeRetained(k) == \A i \in DOMAIN live : i = k + 1 => live[i].id \in Plain

(* handleMidLoopCompactionCommit: what the worker summarised begins after  *)
(* the checkpoint its log starts with, and ends no earlier than at its     *)
(* last attempt.                                                           *)
InsertMidLoop(c) ==
  /\ turn.pc = "running" /\ comp[c].pc = "idle" /\ Asked = {}
  /\ \E k \in DOMAIN live :
       /\ \E i \in 1 .. k : live[i].id \in Plain /\ After(turn.head, i)
       /\ After(turn.cut, k + 1) /\ BeforeRetained(k)
       /\ IF k < LatestCheckpoint(live) THEN Happens("precedes") ELSE UNCHANGED upset
       /\ Insert(c, Unset, k)
  /\ turn' = [turn EXCEPT !.cut = c]
  /\ UNCHANGED <<db, cache, save, late, sent, bad>>

(* The saves before it are done: commitContextCheckpoint reads the latest  *)
(* generation past the cache.                                              *)
ReadSource(c) ==
  /\ comp[c].pc = "waiting" /\ comp[c].ahead = 0
  /\ \/ /\ comp' = [comp EXCEPT ![c].pc = "read", ![c].got = LoadLatest]
        /\ UNCHANGED upset
     \/ /\ Happens("load refused")
        /\ comp' = [comp EXCEPT ![c].pc = "rejected"]
  /\ UNCHANGED <<db, live, cache, inFlight, queue, save, turn, late, sent, covers, bad>>

(* The compaction that is committed is that of the last checkpoint.        *)
Requested(c) == comp[c].msgs[LatestCheckpoint(comp[c].msgs)].cid
SourceOf(s) == IF s.gen = NoGen THEN 0 ELSE s.gen

(* commit_context_compaction: a new compaction, made from the latest       *)
(* generation, whose own generation is not there yet.                      *)
Accepts(r, source) ==
  /\ r \in Checkpoints /\ rows[r] = "none"
  /\ SourceOf(LoadLatest) = source
  /\ \A s \in surfaces : s.gen # source + 1

Completed == {r \in Checkpoints : rows[r] = "completed"}

CommitTransaction(c) ==
  LET r == Requested(c)
      source == SourceOf(comp[c].got)
      new == [gen |-> source + 1, parent |-> source, cid |-> r,
              nodes |-> ComputeSurfaceNodes(comp[c].msgs)]
  IN  /\ comp[c].pc = "read"
      /\ cache' = comp[c].got
      /\ inFlight' = inFlight \cup {r}
      /\ \E how \in {"answered", "commit refused", "commit lost"} :
           /\ IF how = "answered" THEN UNCHANGED upset ELSE Happens(how)
           /\ IF how # "commit refused" /\ Accepts(r, source)
              THEN /\ surfaces' = surfaces \cup {new}
                   /\ rows' = [rows EXCEPT ![r] = "completed"]
              ELSE UNCHANGED <<surfaces, rows>>
           /\ comp' = [comp EXCEPT ![c].pc = IF how = "answered" /\ r \in Completed'
                                             THEN "returned" ELSE "rejected",
                                   ![c].got = new]
      /\ UNCHANGED <<archive, live, queue, save, turn, late, sent, covers, bad>>

(* The reply: the cache holds the new generation, the checkpoint its       *)
(* number, and a worker that asked starts its log with the checkpoint.     *)
CommitReturned(c) ==
  /\ comp[c].pc = "returned"
  /\ Remember(comp[c].got)
  /\ inFlight' = inFlight \ {c, comp[c].got.cid}
  /\ live' = [i \in DOMAIN live |->
                IF live[i].id = c THEN [id |-> c, cid |-> comp[c].got.cid, gen |-> comp[c].got.gen]
                                  ELSE live[i]]
  /\ turn' = IF turn.pc = "running" /\ c \in Asked THEN [turn EXCEPT !.head = c] ELSE turn
  /\ comp' = [comp EXCEPT ![c] = Over]
  /\ UNCHANGED <<db, queue, save, late, sent, covers, bad, upset>>

(* requestCompactionCommit gives up: the commit itself goes on.            *)
CommitTimesOut(c) ==
  /\ turn.pc = "running" /\ c \in Asked
  /\ Happens("late")
  /\ late' = late \cup {c}
  /\ UNCHANGED <<db, live, cache, inFlight, queue, save, comp, turn, sent, covers, bad>>

(* handleCheckpointCommitFailure: did it land all the same?                *)
Verify(c) ==
  /\ comp[c].pc = "rejected"
  /\ inFlight' = inFlight \ {c, Requested(c)}
  /\ \/ /\ comp' = [comp EXCEPT ![c].pc = "verified", ![c].got = LoadLatest]
        /\ UNCHANGED upset
     \/ /\ Happens("load refused")
        /\ comp' = [comp EXCEPT ![c].pc = "failing"]
  /\ UNCHANGED <<db, live, cache, queue, save, turn, late, sent, covers, bad>>

Landed(c) == comp[c].got.cid = c

TakeVerdict(c) ==
  /\ comp[c].pc = "verified"
  /\ Remember(comp[c].got)
  /\ comp' = [comp EXCEPT ![c] = IF Landed(c) THEN Over ELSE [@ EXCEPT !.pc = "failing"]]
  /\ UNCHANGED <<db, live, inFlight, queue, save, turn, late, sent, covers, bad, upset>>

(* Broken variant: the row is set to failed whatever it was.               *)
AlwaysFailed(status) == "failed"

(* failContextCheckpoint: mark_context_compaction_failed leaves a          *)
(* completed row alone.                                                    *)
Failed(status) == IF status = "completed" THEN status ELSE "failed"

MarkFailed(c) ==
  /\ comp[c].pc = "failing"
  /\ \/ rows' = [rows EXCEPT ![c] = Failed(@)] /\ UNCHANGED upset
     \/ Happens("fail refused") /\ UNCHANGED rows
  /\ comp' = [comp EXCEPT ![c].pc = "marked"]
  /\ UNCHANGED <<archive, surfaces, live, cache, inFlight, queue, save, turn, late, sent, covers, bad>>

(* The checkpoint leaves the messages, and the rest is saved.              *)
RolledBack(c) == Without(live, c)

RollBack(c) ==
  /\ comp[c].pc = "marked"
  /\ live' = RolledBack(c)
  /\ Enqueue(live')
  /\ comp' = [comp EXCEPT ![c] = Over]
  /\ UNCHANGED <<db, cache, inFlight, save, turn, late, sent, covers, bad, upset>>

-----------------------------------------------------------------------------
(* resetToMessage once the files are restored.                             *)
Reset ==
  /\ turn.pc = "idle" /\ Happens("reset")
  /\ \E k \in 0 .. Len(live) - 1 : live' = SubSeq(live, 1, k)
  /\ cache' = Forgotten
  /\ Enqueue(live')
  /\ UNCHANGED <<db, inFlight, save, comp, turn, late, sent, covers, bad>>

(* The application stops at any point and is opened again.                 *)
Restart ==
  /\ Happens("restart")
  /\ live' = archive /\ cache' = Forgotten /\ inFlight' = {}
  /\ queue' = <<>> /\ save' = [pc |-> "idle", got |-> NoSurface]
  /\ comp' = [c \in Checkpoints |-> IF comp[c].pc = "idle" THEN Idle ELSE Over]
  /\ late' = {} /\ turn' = Idle
  /\ UNCHANGED <<db, sent, covers, bad>>

SaveStep == SaveArchive \/ Maintain \/ MaintainLoaded \/ Maintained

HydrateStep ==
  \/ Hydrate \/ HydrateLoaded \/ FallBackToParent \/ ParentIncomplete \/ TakeParent
  \/ DiscardAll \/ RebuildGenerationZero \/ TakeRebuilt

CommitStep(c) ==
  \/ ReadSource(c) \/ CommitTransaction(c) \/ CommitReturned(c)
  \/ Verify(c) \/ TakeVerdict(c) \/ MarkFailed(c) \/ RollBack(c)

Next ==
  \/ SaveStep \/ HydrateStep
  \/ AddMessage \/ SendMessage \/ TurnEnds
  \/ \E c \in Checkpoints :
       CommitStep(c) \/ Plan(c) \/ AbandonPlan(c) \/ InsertPlanned(c) \/ InsertMidLoop(c)
       \/ CommitTimesOut(c)
  \/ Reset \/ Restart

(* The event loop keeps running the save queue, the commit and the turn's  *)
(* start; every call of the host is answered or rejected.                  *)
Fairness ==
  /\ WF_vars(SaveStep) /\ WF_vars(HydrateStep)
  /\ \A c \in Checkpoints : WF_vars(CommitStep(c))

Spec == Init /\ [][Next]_vars /\ Fairness

-----------------------------------------------------------------------------
(* None of these has happened so far; this one has happened once at most.  *)
Calm(kinds) == \A u \in upset : u[1] \notin kinds
AtMostOnce(kind) == <<kind, 2>> \notin upset

(* No commit landed unseen: when its reply was lost, the load that asks    *)
(* what became of it was answered.                                         *)
Learned == Calm({"commit lost"}) \/ Calm({"load refused"})

(* Every table row, message and cached surface has the shape the code      *)
(* gives it, no two messages have one id, and nobody waits for fewer than  *)
(* no jobs.                                                                *)
TypeOK ==
  /\ archive \in Seq(Messages) /\ live \in Seq(Messages)
  /\ \A i, j \in DOMAIN live : live[i].id = live[j].id => i = j
  /\ surfaces \subseteq Surface
  /\ rows \in [Checkpoints -> {"none", "completed", "failed"}]
  /\ cache \in Surface \cup {NoSurface, Forgotten}
  /\ inFlight \subseteq Checkpoints
  /\ \A c \in Checkpoints : comp[c].ahead \in Nat
  /\ turn.ahead \in Nat

(* hydrateSessionContext gives a turn everything said before it, in its    *)
(* own words or in a checkpoint: through restarts, resets, rolled back     *)
(* compactions and lost replies.  It does not when a commit is still       *)
(* pending two turns later, or when maintenance itself failed.             *)
NothingLost ==
  Calm(Overlaps \cup {"load refused", "maintain refused", "maintain lost"}) => bad.lost = {}

(* What a committed compaction replaced never comes back into a turn       *)
(* beside it (ADR-003), unless two compactions overlap, the session is     *)
(* reset across a checkpoint, the archive was not written, or nobody       *)
(* learned that the commit landed; nor when maintenance took in a          *)
(* checkpoint that precedes another, and failed once it was rolled back.   *)
NothingRevived ==
  /\ Calm(Overlaps \cup {"reset", "archive refused"})
  /\ Learned
  /\ Calm({"precedes"}) \/ Calm({"load refused", "maintain refused", "maintain lost"})
  => bad.revived = {}

(* Once no commit is pending, surfaceCache is not behind the tables:       *)
(* maintenance and hydration work on the latest generation, unless two     *)
(* compactions overlap, the session is reset, or nobody learned that a     *)
(* commit landed.                                                          *)
CacheNotBehind ==
  /\ Calm(Overlaps \cup {"reset"}) /\ Learned
  /\ cache # Forgotten /\ \A c \in Checkpoints : ~Pending(c)
  => SourceOf(cache) >= SourceOf(LoadLatest)

(* A generation made by a compaction takes in no checkpoint whose own      *)
(* compaction was not committed: invariant 5 of maintainContextSurface,    *)
(* that a failed compaction spoils no completed generation.                *)
OrphansExcluded ==
  \A s \in surfaces : s.cid # NoCompaction =>
    \A c \in RangeOf(s.nodes) \cap Checkpoints : rows[c] = "completed"

(* Orphans are excluded, that of a crash included, on the conditions of    *)
(* NothingRevived, when the application crashed once at most and no        *)
(* checkpoint was inserted before another: maintainContextSurface looks    *)
(* at the last checkpoint only, and another orphan may stand before it.    *)
AdoptedCommitted ==
  /\ Calm(Overlaps \cup {"reset", "archive refused", "precedes"})
  /\ Learned /\ AtMostOnce("restart")
  => OrphansExcluded

(* The audit agrees with what is served: the compaction a generation       *)
(* belongs to is never recorded as failed, however its commit's reply was  *)
(* lost and whoever marked it.                                             *)
FailedNotServed ==
  \A s \in surfaces : s.cid # NoCompaction => rows[s.cid] = "completed"

(* A compaction that entered the messages is settled, one way or another.  *)
CommitSettles == \A c \in Checkpoints : comp[c].pc = "waiting" ~> comp[c].pc = "over"

(* A turn gets its history, however many saves and fallbacks come first,   *)
(* unless the application is closed.                                       *)
TurnStarts == turn.pc = "waiting" ~> turn.pc \in {"running", "idle"}
=============================================================================
