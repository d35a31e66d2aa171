---------------------------- MODULE PermissionQueue ----------------------------
(***************************************************************************)
(* permissionStore.ts: the calls of tools that wait for the user to allow  *)
(* an external path or a dangerous command.                                *)
(*                                                                         *)
(* A call makes an entry of the queue, named after the call, or joins the  *)
(* entry for the same path.  The dialog shows the first entry; approving a *)
(* path waits for the host to persist the grant, and during this wait      *)
(* calls are made, aborted and cancelled.                                  *)
(***************************************************************************)
EXTENDS Naturals, Sequences, FiniteSets, SequencesExt

CONSTANTS
  Calls,     \* calls of requestExternalAccess and requestDangerousCommand
  Paths,     \* what they ask for: a path with an operation,
  Commands,  \* or a command
  Nobody,    \* no call
  Nothing    \* neither a path nor a command

ASSUME PermissionConstants ==
  Paths \cap Commands = {} /\ Nobody \notin Calls /\ Nothing \notin Paths \cup Commands

VARIABLES
  call,      \* what each call asks for, by which entry, and how it ended
  queue,     \* pendingQueue
  granting,  \* the entries whose grant_external_access is awaited
  shown,     \* pendingRequest: the entry of the dialog
  waiting,   \* what publishPermissionWait said last
  answered,  \* history: the entries the user approved, and those he denied
  upset      \* history: what strands a call

vars == <<call, queue, granting, shown, waiting, answered, upset>>

Unasked == [st |-> "unasked", for |-> Nothing, entry |-> Nobody, tracked |-> FALSE]

Init ==
  /\ call = [c \in Calls |-> Unasked]
  /\ queue = <<>> /\ granting = {} /\ shown = Nobody /\ waiting = FALSE
  /\ answered = [yes |-> {}, no |-> {}] /\ upset = {}

Queued == Range(queue)

(* The calls an entry's resolve and reject reach: its own and the joined.  *)
Reached(e) == {c \in Calls : call[c].entry = e}
(* Broken variant: the closures of the joined calls are not chained.       *)
ReachedOwn(e) == {e}
RejectedWith(e) == Reached(e)

(* Settling a promise a second time does nothing.                          *)
Settled(cs, how) ==
  [c \in Calls |-> IF c \in cs /\ call[c].st = "waiting" THEN [call[c] EXCEPT !.st = how] ELSE call[c]]

Pending(q) == IF q = <<>> THEN Nobody ELSE Head(q)

SyncPending(q) == shown' = Pending(q)

(* Broken variant: the end of the wait is not published.                   *)
PublishNothing(q) == UNCHANGED waiting
PublishEnd(q) == waiting' = (waiting /\ q # <<>>)

(* The queue without these entries, by the places of those that stay.      *)
Places(removed) == {i \in DOMAIN queue : queue[i] \notin removed}
InOrder(at) == \A i, j \in DOMAIN at : i < j => at[i] < at[j]
Without(removed) ==
  {[k \in DOMAIN at |-> queue[at[k]]] :
     at \in {f \in UNION {[1 .. n -> Places(removed)] : n \in 0 .. Len(queue)} :
             InOrder(f) /\ Range(f) = Places(removed)}}

(* The queue becomes q, and the dialog and the watchdogs are told.         *)
Leave(q) == queue' = q /\ SyncPending(q) /\ PublishEnd(q)

(* The removal of an entry whose grant is awaited: its answer will remove  *)
(* the entry that is first by then.                                        *)
Disturb(removed, alone) ==
  upset' = upset \cup (IF removed \cap granting # {} THEN {"gone"} ELSE {})
                 \cup (IF alone THEN {} ELSE {"orphans"})

-----------------------------------------------------------------------------
Mergeable(t) == {e \in Queued : t \in Paths /\ call[e].for = t}

(* A call for a path that is already asked for joins the waiting entry.    *)
Join(c) ==
  /\ call[c].st = "unasked"
  /\ \E t \in Paths, tracked \in BOOLEAN : \E e \in Mergeable(t) :
       call' = [call EXCEPT ![c] = [st |-> "waiting", for |-> t, entry |-> e, tracked |-> tracked]]
  /\ UNCHANGED <<queue, granting, shown, waiting, answered, upset>>

Request(c) ==
  /\ call[c].st = "unasked"
  /\ \E t \in Paths \cup Commands, tracked \in BOOLEAN :
       /\ Mergeable(t) = {}
       /\ call' = [call EXCEPT ![c] = [st |-> "waiting", for |-> t, entry |-> c, tracked |-> tracked]]
  /\ queue' = Append(queue, c)
  /\ shown' = Pending(queue')
  /\ waiting' = (waiting \/ queue = <<>>)
  /\ UNCHANGED <<granting, answered, upset>>

(* The signal of the call is aborted already.                              *)
RequestAborted(c) ==
  /\ call[c].st = "unasked"
  /\ call' = [call EXCEPT ![c].st = "rejected"]
  /\ UNCHANGED <<queue, granting, shown, waiting, answered, upset>>

-----------------------------------------------------------------------------
(* respondToExternalAccess acts on the first entry, whatever the dialog    *)
(* shows, and only once.                                                   *)
Respond(yes, no) ==
  /\ queue # <<>> /\ Head(queue) \notin granting
  /\ shown # Nobody
  /\ answered' = [yes |-> answered.yes \cup yes, no |-> answered.no \cup no]

Deny ==
  /\ Respond({}, {shown})
  /\ Leave(Tail(queue))
  /\ call' = Settled(Reached(Head(queue)), "denied")
  /\ UNCHANGED <<granting, upset>>

(* A dangerous command is approved once, and nothing is persisted.         *)
ApproveCommand ==
  /\ Respond({shown}, {})
  /\ call[Head(queue)].for \in Commands
  /\ Leave(Tail(queue))
  /\ call' = Settled(Reached(Head(queue)), "allowed")
  /\ UNCHANGED <<granting, upset>>

ApprovePath ==
  /\ Respond({shown}, {})
  /\ call[Head(queue)].for \in Paths
  /\ granting' = granting \cup {Head(queue)}
  /\ UNCHANGED <<call, queue, shown, waiting, upset>>

(* Broken variant: whoever is first after the wait gets the answer.        *)
AnswersFirst(e) == Reached(Pending(queue))
Answers(e) == Reached(e)

(* The grant was persisted, or could not be.                               *)
GrantReturns(e) ==
  /\ e \in granting
  /\ granting' = granting \ {e}
  /\ Leave(IF queue = <<>> THEN queue ELSE Tail(queue))
  /\ \E how \in {"allowed", "rejected"} : call' = Settled(Answers(e), how)
  /\ UNCHANGED <<answered, upset>>

-----------------------------------------------------------------------------
(* The signal of a call is aborted: its own entry leaves the queue, a      *)
(* joined call only gives up itself.                                       *)
AbortOwner(c) ==
  /\ call[c].st = "waiting" /\ call[c].tracked /\ c \in Queued
  /\ \E i \in DOMAIN queue : queue[i] = c /\ Leave(RemoveAt(queue, i))
  /\ call' = Settled({c}, "rejected")
  /\ Disturb({c}, \A d \in Reached(c) \ {c} : call[d].st # "waiting")
  /\ UNCHANGED <<granting, answered>>

AbortJoined(c) ==
  /\ call[c].st = "waiting" /\ call[c].tracked /\ call[c].entry # c
  /\ call' = Settled({c}, "rejected")
  /\ UNCHANGED <<queue, granting, shown, waiting, answered, upset>>

(* cancelExternalAccessRequests: all entries, or, when one run is          *)
(* cancelled, those that no signal will remove.                            *)
CancelRequests(onlyUntracked) ==
  LET removed == {e \in Queued : onlyUntracked => ~call[e].tracked}
  IN  /\ removed # {}
      /\ \E q \in Without(removed) : Leave(q)
      /\ call' = Settled(UNION {RejectedWith(e) : e \in removed}, "rejected")
      /\ Disturb(removed, TRUE)
      /\ UNCHANGED <<granting, answered>>

-----------------------------------------------------------------------------
Next ==
  \/ \E c \in Calls : Join(c) \/ Request(c) \/ RequestAborted(c) \/ AbortOwner(c) \/ AbortJoined(c)
  \/ Deny \/ ApproveCommand \/ ApprovePath
  \/ \E e \in granting : GrantReturns(e)
  \/ \E only \in BOOLEAN : CancelRequests(only)

Spec == Init /\ [][Next]_vars

-----------------------------------------------------------------------------
TypeOK ==
  /\ call \in [Calls -> [st : {"unasked", "waiting", "allowed", "denied", "rejected"},
                         for : Paths \cup Commands \cup {Nothing},
                         entry : Calls \cup {Nobody}, tracked : BOOLEAN]]
  /\ queue \in Seq(Calls) /\ granting \subseteq Calls
  /\ shown \in Calls \cup {Nobody} /\ waiting \in BOOLEAN
  /\ answered \in [yes : SUBSET Calls, no : SUBSET Calls] /\ upset \subseteq {"gone", "orphans"}

(* A tool that waits for the user has an entry that the user will be       *)
(* shown, or an answer under way.  (Not so once the call an entry was made *)
(* for is aborted while others had joined it, or an entry is removed while *)
(* its grant is awaited.)                                                  *)
Served ==
  upset = {} => \A c \in Calls : call[c].st = "waiting" => call[c].entry \in Queued \cup granting

(* What a tool is told is what the user answered when the dialog showed    *)
(* the entry this call made or joined.                                     *)
AnswersTheirs ==
  \A c \in Calls :
    /\ call[c].st = "allowed" => call[c].entry \in answered.yes
    /\ call[c].st = "denied" => call[c].entry \in answered.no

(* The agents' idle watchdogs, which are told when somebody waits for the  *)
(* user, are on again exactly when nobody does.                            *)
WaitPublished == waiting <=> queue # <<>>
=============================================================================
