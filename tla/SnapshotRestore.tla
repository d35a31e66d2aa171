---------------------------- MODULE SnapshotRestore ----------------------------
(***************************************************************************)
(* Checkpoints of the workspace and the way back to them: the snapshot and *)
(* restore engines of the host (a shadow git repository beside the files)  *)
(* and the stack of undoable resets in agentStore.ts.                      *)
(*                                                                         *)
(* A commit is its tree.  The engines work under the workspace's write     *)
(* lock, so no two of them overlap, but the user's editor and the agent's  *)
(* processes write files whenever they like.                               *)
(*                                                                         *)
(* Two sets of rules say which files count.  .gitignore is obeyed by every *)
(* walk over the files and by git's status; the exclude rules of the       *)
(* shadow repository only by git's status, of files HEAD does not hold.    *)
(***************************************************************************)
EXTENDS Naturals, Sequences, SequencesExt

CONSTANTS
  Files,       \* the files of the workspace that rules may ignore
  Gitignore,   \* and the file of these rules: it holds a set of files
  RuleFiles,   \* what it may hold
  Excluded,    \* the files that EXCLUDE_RULES name (dist/, .vscode/, ...)
  Versions,    \* what a file may hold: Versions[file]
  Absent,      \* no file, no rules
  None,        \* no commit
  MaxUndos,    \* MAX_RESTORE_UNDOS
  MaxEdits,    \* bound of the model: changes of files
  MaxSends,    \* bound of the model: messages sent
  MaxRestores, \* bound of the model: restores the host begins
  Allowed      \* the sets of disturbances that may happen together

(* "rules":  the rules of what is ignored change;                          *)
(* "race":  a file is written between the backup and the reset;            *)
(* "emptied":  a restore finds no file to back up;                         *)
(* "skipped":  a file cannot be added to a checkpoint, or is too large.    *)
Disturbances == {"rules", "race", "emptied", "skipped"}

ASSUME SnapshotConstants ==
  /\ Gitignore \notin Files /\ Excluded \subseteq Files
  /\ RuleFiles \subseteq SUBSET Files
  /\ {MaxUndos, MaxEdits, MaxSends, MaxRestores} \subseteq Nat
  /\ Allowed \subseteq SUBSET Disturbances

Paths == Files \cup {Gitignore}
Contents(p) == {Absent} \cup (IF p = Gitignore THEN RuleFiles ELSE Versions[p])

VARIABLES
  disk,      \* what the workspace holds
  head,      \* HEAD of the shadow repository
  backup,    \* BACKUP_REF
  messages,  \* of the session: the checkpoint each has, or None, and the
             \* visible files it was sent with (history)
  undos,     \* _pendingRestoreUndos
  undoing,   \* the undoConversationReset in flight: the stack it has read
  op,        \* the restore the host works on
  edits, sends, restores,  \* how many there were
  saved,     \* history: the visible files when BACKUP_REF was set
  upset      \* history: what the backup does not cover

store == <<messages, undos, undoing>>
vars == <<disk, head, backup, store, op, edits, sends, restores, saved, upset>>

NoTree == [p \in Paths |-> Absent]
Idle == [pc |-> "idle"]

Init ==
  /\ disk \in [Paths -> UNION {Contents(p) : p \in Paths}]
  /\ \A p \in Paths : disk[p] \in Contents(p)
  /\ head = NoTree /\ backup = None /\ saved = NoTree
  /\ messages = <<>> /\ undos = <<>> /\ undoing = None /\ op = Idle
  /\ edits = 0 /\ sends = 0 /\ restores = 0 /\ upset = {}

(* IgnoreResolver: the files its walk finds.                               *)
Ignored(d) == IF d[Gitignore] = Absent THEN {} ELSE d[Gitignore]
Visible(d) == [p \in Paths |-> IF p \in Ignored(d) THEN Absent ELSE d[p]]

-----------------------------------------------------------------------------
(* The user, or a process of the agent, changes a file.                    *)
Edit ==
  /\ edits < MaxEdits /\ edits' = edits + 1
  /\ \E p \in Paths : \E c \in Contents(p) \ {disk[p]} :
       /\ disk' = [disk EXCEPT ![p] = c]
       /\ upset' = upset \cup (IF p = Gitignore THEN {"rules"} ELSE {})
                         \cup (IF op # Idle /\ p \notin Ignored(disk) THEN {"race"} ELSE {})
       /\ upset' \in Allowed
  /\ UNCHANGED <<head, backup, store, op, sends, restores, saved>>

(* The statuses of the shadow repository are empty.                        *)
NoChanges(d, h) ==
  \A p \in Paths : d[p] = h[p] \/ (h[p] = Absent /\ p \in Ignored(d) \cup Excluded)

(* The files of the walk, less those that cannot be added or are too big.  *)
Walked(d, skipped) == [p \in Paths |-> IF p \in skipped THEN Absent ELSE Visible(d)[p]]

(* What snapshot_create may return: HEAD again when git's status finds no  *)
(* change; otherwise, or when the status fails or takes a file that was    *)
(* only touched for a change, a commit of what was walked; nothing when it *)
(* fails, there is nothing to walk over or nothing could be added.         *)
Checkpoints(d, h, skipped) ==
  {None} \cup
  IF NoTree \in {Visible(d), Walked(d, skipped)} THEN {}
  ELSE {Walked(d, skipped)} \cup {t \in {h} : skipped = {} /\ NoChanges(d, h)}

(* A message is shown, then it gets its checkpoint.  When the turn was     *)
(* stopped meanwhile the checkpoint is made and not anchored.              *)
SendMessage ==
  /\ op = Idle /\ sends < MaxSends /\ sends' = sends + 1
  /\ \E skipped \in SUBSET {p \in Paths : Visible(disk)[p] # Absent} :
     \E sha \in Checkpoints(disk, head, skipped), anchored \in BOOLEAN :
       /\ head' = IF sha = None THEN head ELSE sha
       /\ messages' = Append(messages, [sha |-> IF anchored THEN sha ELSE None, files |-> Visible(disk)])
       /\ upset' = upset \cup (IF skipped # {} THEN {"skipped"} ELSE {})
                         \cup (IF Gitignore \in skipped THEN {"rules"} ELSE {})
       /\ upset' \in Allowed
  /\ UNCHANGED <<disk, backup, undos, undoing, op, edits, restores, saved>>

-----------------------------------------------------------------------------
(* RestoreEngine.                                                          *)

(* Broken variant: the backup is the last snapshot.                        *)
BackupHead(d, h) == h
(* create_backup_snapshot; without any file HEAD has to do.                *)
BackupOf(d, h) == IF Visible(d) = NoTree THEN h ELSE Visible(d)

(* remove_untracked_not_in_tree, by the rules that are on the disk then.   *)
RemoveUntracked(d, tree) ==
  [p \in Paths |-> IF tree[p] = Absent /\ p \notin Ignored(d) THEN Absent ELSE d[p]]

(* The forced checkout of a hard reset: what HEAD tracks and the target    *)
(* does not is removed.                                                    *)
CheckedOut(d, h, tree) ==
  [p \in Paths |-> IF tree[p] # Absent THEN tree[p] ELSE IF h[p] # Absent THEN Absent ELSE d[p]]

Restored(d, h, tree) == RemoveUntracked(CheckedOut(d, h, tree), tree)

(* The first half, execute and undo alike: an empty target is refused, and *)
(* the files are backed up before any is touched.                          *)
Begin(how, target, promise, msg) ==
  /\ op = Idle /\ restores < MaxRestores /\ restores' = restores + 1
  /\ target # NoTree
  /\ backup' = BackupOf(disk, head)
  /\ saved' = Visible(disk)
  /\ op' = [pc |-> "saved", how |-> how, target |-> target, promise |-> promise,
            msg |-> msg, len |-> Len(messages)]
  /\ upset' = upset \cup (IF Visible(disk) = NoTree THEN {"emptied"} ELSE {})
  /\ upset' \in Allowed
  /\ UNCHANGED <<disk, head, store, edits, sends>>

At(how) == op.pc = "saved" /\ op.how = how

(* The second half.                                                        *)
Restore ==
  /\ disk' = Restored(disk, head, op.target)
  /\ head' = op.target
  /\ op' = Idle
  /\ UNCHANGED <<backup, edits, sends, restores, saved, upset>>

(* A file cannot be written, or the host ends: any part of it is done, and *)
(* HEAD has moved only when the whole checkout was.  An undo that failed   *)
(* is tried once more by the name of its backup; it is given up when that  *)
(* fails too or the application ends, and the stack stays as it is.        *)
Interrupted ==
  /\ op.pc = "saved"
  /\ \E done \in SUBSET {p \in Paths : Restored(disk, head, op.target)[p] # disk[p]}, moved \in BOOLEAN :
       /\ moved => {p \in Paths : CheckedOut(disk, head, op.target)[p] # disk[p]} \subseteq done
       /\ disk' = [p \in Paths |-> IF p \in done THEN Restored(disk, head, op.target)[p] ELSE disk[p]]
       /\ head' = IF moved THEN op.target ELSE head
  /\ op' = Idle
  /\ \/ op.how # "undo" /\ UNCHANGED undoing
     \/ op.how = "undo" /\ undoing' = None
     \/ op.how = "undo" /\ undoing.at = "first" /\ undoing' = [undoing EXCEPT !.at = "again"]
  /\ UNCHANGED <<backup, messages, undos, edits, sends, restores, saved, upset>>

-----------------------------------------------------------------------------
(* The agent's tools and the git panel.                                    *)
ToolReset ==
  \E i \in DOMAIN messages :
    messages[i].sha # None /\ Begin("tool", messages[i].sha, messages[i].files, 0)

ToolUndo == backup # None /\ Begin("toolundo", backup, saved, 0)

ToolDone ==
  /\ At("tool") \/ At("toolundo")
  /\ Restore
  /\ UNCHANGED store

-----------------------------------------------------------------------------
(* agentStore: resets of the conversation and their undos.                 *)

Pushed(entry) ==
  LET all == Append(undos, entry)
  IN  IF Len(all) <= MaxUndos THEN all ELSE Tail(all)

(* Back to before message i was sent.  The dialog allows one at a time; it *)
(* cuts the messages as it has read them before it awaited the files.      *)
ResetToMessage ==
  \E i \in DOMAIN messages :
    messages[i].sha # None /\ Begin("reset", messages[i].sha, messages[i].files, i)

(* Without a checkpoint only the conversation is cut.                      *)
ResetConversation ==
  /\ ~At("reset")
  /\ \E i \in DOMAIN messages :
       /\ messages[i].sha = None
       /\ messages' = SubSeq(messages, 1, i - 1)
       /\ undos' = Pushed([sha |-> None, before |-> NoTree, cut |-> SubSeq(messages, i, Len(messages))])
  /\ UNCHANGED <<disk, head, backup, undoing, op, edits, sends, restores, saved, upset>>

ResetDone ==
  /\ At("reset")
  /\ Restore
  /\ messages' = SubSeq(messages, 1, op.msg - 1)
  /\ undos' = Pushed([sha |-> backup, before |-> saved, cut |-> SubSeq(messages, op.msg, op.len)])
  /\ UNCHANGED undoing

(* Broken variant: any backup will do.                                     *)
UndoTargetUnchecked(sha) == backup
(* restore_undo takes BACKUP_REF only when it is the backup of this reset, *)
(* otherwise the store restores that backup by its name.                   *)
UndoTarget(sha) == IF backup = sha THEN backup ELSE sha

(* undoConversationReset reads the stack before its awaits.                *)
UndoReset ==
  /\ undoing = None /\ undos # <<>>
  /\ undoing' = [stack |-> undos, at |-> "first"]
  /\ UNCHANGED <<disk, head, backup, messages, undos, op, edits, sends, restores, saved, upset>>

UndoFiles ==
  /\ undoing # None
  /\ LET top == Last(undoing.stack)
     IN  /\ top.sha # None
         /\ \/ undoing.at = "first" /\ Begin("undo", UndoTarget(top.sha), top.before, 0)
            \/ undoing.at = "again" /\ Begin("undo", top.sha, top.before, 0)

UndoDone ==
  /\ At("undo")
  /\ Restore
  /\ undoing' = [undoing EXCEPT !.at = "restored"]
  /\ UNCHANGED <<messages, undos>>

(* Once the images are read the messages come back, and the stack that was *)
(* read is written without its top.                                        *)
UndoReturns ==
  /\ undoing # None
  /\ undoing.at = "restored" \/ Last(undoing.stack).sha = None
  /\ messages' = messages \o Last(undoing.stack).cut
  /\ undos' = Front(undoing.stack)
  /\ undoing' = None
  /\ UNCHANGED <<disk, head, backup, op, edits, sends, restores, saved, upset>>

(* The host refuses, or the application ends.                              *)
UndoFails ==
  /\ undoing # None /\ ~At("undo")
  /\ undoing' = None
  /\ UNCHANGED <<disk, head, backup, messages, undos, op, edits, sends, restores, saved, upset>>

DismissRestoreUndo ==
  /\ undos # <<>>
  /\ undos' = Front(undos)
  /\ UNCHANGED <<disk, head, backup, messages, undoing, op, edits, sends, restores, saved, upset>>

-----------------------------------------------------------------------------
Next ==
  \/ Edit \/ SendMessage \/ Interrupted
  \/ ToolReset \/ ToolUndo \/ ToolDone
  \/ ResetToMessage \/ ResetConversation \/ ResetDone
  \/ UndoReset \/ UndoFiles \/ UndoDone \/ UndoReturns \/ UndoFails \/ DismissRestoreUndo

Spec == Init /\ [][Next]_vars

-----------------------------------------------------------------------------
Covered(kinds) == upset' \cap kinds = {}

(* What a restore takes from the disk is in the backup it made, also when  *)
(* it stops half-way and whatever was snapshot before; of ignored files,   *)
(* which no backup holds, nothing is taken while the rules stay the same.  *)
LosesNothing ==
  op.pc = "saved" /\ op' # op /\ Covered({"race"})
  => \A p \in Paths :
       disk[p] \notin {Absent, disk'[p]} /\ (p \in Ignored(disk) => Covered({"rules"}))
       => backup[p] = disk[p]
NothingDestroyed == [][LosesNothing]_vars

(* A reset brings back the files a message was sent with, whatever was     *)
(* restored, undone or interrupted in between: a file may be missing that  *)
(* the exclude rules hid from the checkpoint, or that was skipped, but no  *)
(* file comes back as it was not.  An undo brings back all the files that  *)
(* were there before the reset.                                            *)
MayLack(p) == op.how \in {"tool", "reset"} /\ (p \in Excluded \/ ~Covered({"skipped"}))
KeepsPromise ==
  Covered({"rules", "race", "emptied"}) /\ (ToolDone \/ ResetDone \/ UndoDone)
  => \A p \in Paths :
       Visible(disk')[p] = op.promise[p] \/ (MayLack(p) /\ Visible(disk')[p] = Absent)
RestoresExactly == [][KeepsPromise]_vars
=============================================================================
