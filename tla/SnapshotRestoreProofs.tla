------------------------- MODULE SnapshotRestoreProofs -------------------------
(***************************************************************************)
(* Proofs about SnapshotRestore, for any files, contents, rules, and any   *)
(* number of messages, resets and undos: what a restore takes away is in   *)
(* its backup, and a restore brings back what it promised.                 *)
(***************************************************************************)
EXTENDS SnapshotRestore, SequenceTheorems, TLAPS

(* What the workspace or a commit may hold.                                *)
Trees == {t \in [Paths -> UNION {Contents(p) : p \in Paths}] : t[Gitignore] \in Contents(Gitignore)}

(* The commits made under these rules: none of them holds an ignored file. *)
Obeying(rules) ==
  {t \in Trees : t[Gitignore] = rules /\ (rules # Absent => \A p \in rules : t[p] = Absent)}

(* A checkpoint holds the files its message was sent with, except that     *)
(* those of S may be missing.                                              *)
Lacks(m, S) == \A p \in Paths : m.sha[p] = m.files[p] \/ (p \in S /\ m.sha[p] = Absent)

AnyMessage == [sha : Trees \cup {None}, files : Trees]
Lacking(T, S) == {m \in [sha : T \cup {None}, files : Trees] : m.sha # None => Lacks(m, S)}

Entries(T, M) == [sha : T \cup {None}, before : Trees, cut : Seq(M)]
Stacks(T, M) == {s \in Seq(Entries(T, M)) : s # <<>>}

(* Every commit a restore can be asked for is in T and every message in M; *)
(* the message or the stack a restore was begun for is still there.        *)
Kept(T, M) ==
  /\ backup \in T \cup {None}
  /\ messages \in Seq(M)
  /\ undos \in Seq(Entries(T, M))
  /\ undoing \in {None} \cup [stack : Stacks(T, M), at : {"first", "again", "restored"}]
  /\ op.pc = "saved" =>
       /\ op.target \in T
       /\ op.how = "reset" => op.len \in 1 .. Len(messages) /\ op.msg \in 1 .. op.len
       /\ op.how = "undo" =>
            undoing # None /\ undoing.at # "restored" /\ Last(undoing.stack).sha # None
       /\ op.how \in {"tool", "reset"} =>
            op.target # None /\ [sha |-> op.target, files |-> op.promise] \in M

Typed == disk \in Trees /\ head \in Trees /\ saved \in Trees /\ Kept(Trees, AnyMessage)

Calm(kinds) == upset \cap kinds = {}

(* While the rules stay, every commit was made under them, and a message's *)
(* lacks nothing but what the exclude rules hide, or what was skipped.     *)
RuledBy(S) ==
  \E rules : /\ disk[Gitignore] = rules
             /\ Kept(Obeying(rules), Lacking(Obeying(rules), S))
             /\ head \in Obeying(rules) \cup {NoTree}
Ruled ==
  /\ Calm({"rules"}) => RuledBy(Paths)
  /\ Calm({"rules", "skipped"}) => RuledBy(Excluded)

(* A restore in flight has backed up every file a walk finds.              *)
BackedUp ==
  op.pc = "saved" /\ Calm({"race"}) =>
    \A p \in Paths \ Ignored(disk) : disk[p] # Absent => backup[p] = disk[p]

(* A backup that may be asked for is the files it was made of.             *)
Told(stack) == \A i \in DOMAIN stack : stack[i].sha # None => stack[i].before = stack[i].sha
Honest ==
  Calm({"rules", "race", "emptied"}) =>
    /\ backup # None => backup = saved
    /\ Told(undos)
    /\ undoing # None => Told(undoing.stack)
    /\ op.pc = "saved" /\ op.how \in {"toolundo", "undo"} => op.promise = op.target

IInv == Typed /\ Ruled /\ BackedUp /\ Honest

-----------------------------------------------------------------------------
(* The engines' operators.                                                 *)
LEMMA RulesSpareThemselves ==
  ASSUME NEW d \in Trees
  PROVE  Gitignore \notin Ignored(d) /\ Ignored(d) \subseteq Paths
BY SnapshotConstants DEF Trees, Contents, Ignored, Paths

LEMMA AbsentAllowed ==
  /\ Gitignore \in Paths /\ Absent \in Contents(Gitignore)
  /\ Absent \in UNION {Contents(p) : p \in Paths}
BY DEF Paths, Contents

(* A snapshot holds the visible files and obeys the rules it was made by.  *)
LEMMA VisibleObeys ==
  ASSUME NEW d \in Trees
  PROVE  Visible(d) \in Trees /\ Visible(d) \in Obeying(d[Gitignore])
<1>1. Visible(d) \in [Paths -> UNION {Contents(p) : p \in Paths}]
  BY AbsentAllowed DEF Visible, Trees
<1>2. Visible(d)[Gitignore] = d[Gitignore]
  BY AbsentAllowed, RulesSpareThemselves DEF Visible
<1>3. Visible(d) \in Trees
  BY <1>1, <1>2 DEF Trees
<1>4. d[Gitignore] # Absent => \A p \in d[Gitignore] : Visible(d)[p] = Absent
  BY RulesSpareThemselves DEF Visible, Ignored
<1> QED
  BY <1>2, <1>3, <1>4 DEF Obeying

LEMMA RestoredIsTree ==
  ASSUME NEW d \in Trees, NEW h \in Trees, NEW t \in Trees
  PROVE  Restored(d, h, t) \in Trees
<1>1. CheckedOut(d, h, t) \in Trees
  BY AbsentAllowed DEF CheckedOut, Trees
<1> QED
  BY <1>1, AbsentAllowed DEF Restored, RemoveUntracked, Trees

(* A restore to a commit made under the present rules leaves the rules and *)
(* the ignored files alone, and all else as the commit has it.             *)
LEMMA RestoreObeys ==
  ASSUME NEW d \in Trees, NEW h \in Obeying(d[Gitignore]) \cup {NoTree}, NEW t \in Obeying(d[Gitignore])
  PROVE  /\ Restored(d, h, t)[Gitignore] = d[Gitignore]
         /\ \A p \in Ignored(d) : Restored(d, h, t)[p] = d[p]
         /\ Visible(Restored(d, h, t)) = t
<1> DEFINE out == CheckedOut(d, h, t)
           got == Restored(d, h, t)
<1>1. \A p \in Ignored(d) : p \in Paths /\ t[p] = Absent /\ h[p] = Absent
  BY RulesSpareThemselves DEF Obeying, Ignored, NoTree
<1>2. out[Gitignore] = d[Gitignore]
  BY AbsentAllowed DEF CheckedOut, Obeying
<1>3. Ignored(out) = Ignored(d)
  BY <1>2 DEF Ignored
<1>4. \A p \in Paths : got[p] = IF t[p] = Absent /\ p \notin Ignored(d) THEN Absent ELSE out[p]
  BY <1>3 DEF Restored, RemoveUntracked
<1>5. \A p \in Paths : out[p] = IF t[p] # Absent THEN t[p] ELSE IF h[p] # Absent THEN Absent ELSE d[p]
  BY DEF CheckedOut
<1>6. got[Gitignore] = d[Gitignore]
  BY <1>2, <1>4, <1>5, AbsentAllowed, RulesSpareThemselves DEF Obeying
<1>7. \A p \in Ignored(d) : got[p] = d[p]
  BY <1>1, <1>4, <1>5
<1>8. Ignored(got) = Ignored(d)
  BY <1>6 DEF Ignored
<1>9. \A p \in Paths : (IF p \in Ignored(got) THEN Absent ELSE got[p]) = t[p]
  BY <1>1, <1>4, <1>5, <1>8
<1>10. t = [p \in Paths |-> t[p]]
  BY DEF Obeying, Trees
<1> QED
  BY <1>6, <1>7, <1>9, <1>10 DEF Visible

(* Half a restore does no more.                                            *)
LEMMA HalfIsTree ==
  ASSUME NEW d \in Trees, NEW r \in Trees, NEW done \in SUBSET Paths
  PROVE  [p \in Paths |-> IF p \in done THEN r[p] ELSE d[p]] \in Trees
BY AbsentAllowed DEF Trees

LEMMA BackupObeys ==
  ASSUME NEW d \in Trees, NEW h \in Obeying(d[Gitignore]) \cup {NoTree}
  PROVE  BackupOf(d, h) \in Obeying(d[Gitignore])
BY VisibleObeys DEF BackupOf

(* The checkpoint of a message, made while the rules are as they were.     *)
LEMMA CheckpointLacks ==
  ASSUME NEW d \in Trees, NEW h \in Obeying(d[Gitignore]) \cup {NoTree},
         NEW S \in SUBSET Paths, Excluded \subseteq S,
         NEW skipped \in SUBSET S, Gitignore \notin skipped,
         NEW sha \in Checkpoints(d, h, skipped), sha # None
  PROVE  sha \in Obeying(d[Gitignore]) /\ Lacks([sha |-> sha, files |-> Visible(d)], S)
<1>0. Visible(d) \in Trees /\ Visible(d) \in Obeying(d[Gitignore])
  BY VisibleObeys
<1>1. CASE sha = Walked(d, skipped)
  <2>1. sha \in [Paths -> UNION {Contents(p) : p \in Paths}]
    BY <1>0, <1>1, AbsentAllowed DEF Walked, Trees
  <2>2. sha[Gitignore] = Visible(d)[Gitignore]
    BY <1>1, AbsentAllowed DEF Walked
  <2>3. \A p \in Paths : sha[p] = Visible(d)[p] \/ (p \in skipped /\ sha[p] = Absent)
    BY <1>1 DEF Walked
  <2>4. d[Gitignore] # Absent => \A p \in d[Gitignore] : p \in Paths /\ sha[p] = Absent
    BY <1>0, <2>3, RulesSpareThemselves DEF Obeying, Ignored
  <2>5. sha \in Obeying(d[Gitignore])
    BY <1>0, <2>1, <2>2, <2>4 DEF Obeying, Trees
  <2> QED
    BY <2>3, <2>5 DEF Lacks
<1>2. CASE sha = h /\ NoChanges(d, h)
  <2>1. \A p \in Paths : d[p] = h[p] \/ (h[p] = Absent /\ p \in Ignored(d) \cup Excluded)
    BY <1>2 DEF NoChanges
  <2>2. h[Gitignore] = d[Gitignore]
    BY <2>1, AbsentAllowed, RulesSpareThemselves, SnapshotConstants
  <2>3. h \in Obeying(d[Gitignore])
    <3>1. CASE h = NoTree
      <4>1. h[Gitignore] = Absent
        BY <3>1, AbsentAllowed DEF NoTree
      <4>2. h \in Trees
        BY <3>1, AbsentAllowed DEF NoTree, Trees
      <4> QED
        BY <2>2, <4>1, <4>2 DEF Obeying
    <3> QED
      BY <3>1
  <2>4. \A p \in Ignored(d) : h[p] = Absent
    BY <2>3 DEF Obeying, Ignored
  <2>5. \A p \in Paths : Visible(d)[p] = IF p \in Ignored(d) THEN Absent ELSE d[p]
    BY DEF Visible
  <2>6. \A p \in Paths : h[p] = Visible(d)[p] \/ (p \in S /\ h[p] = Absent)
    BY <2>1, <2>4, <2>5
  <2> QED
    BY <1>2, <2>3, <2>6 DEF Lacks
<1> QED
  BY <1>1, <1>2 DEF Checkpoints

LEMMA SentLacks ==
  ASSUME disk \in Trees, SendMessage, Calm({"rules"})',
         head \in Obeying(disk[Gitignore]) \cup {NoTree},
         NEW S \in SUBSET Paths, Excluded \subseteq S, S = Paths \/ Calm({"skipped"})'
  PROVE  /\ \E m \in Lacking(Obeying(disk[Gitignore]), S) : messages' = Append(messages, m)
         /\ head' \in Obeying(disk[Gitignore]) \cup {NoTree}
<1>1. PICK skipped \in SUBSET Paths : \E sha \in Checkpoints(disk, head, skipped), anchored \in BOOLEAN :
        /\ head' = IF sha = None THEN head ELSE sha
        /\ messages' = Append(messages, [sha |-> IF anchored THEN sha ELSE None, files |-> Visible(disk)])
        /\ upset' = upset \cup (IF skipped # {} THEN {"skipped"} ELSE {})
                          \cup (IF Gitignore \in skipped THEN {"rules"} ELSE {})
  BY DEF SendMessage
<1>2. PICK sha \in Checkpoints(disk, head, skipped), anchored \in BOOLEAN :
        /\ head' = IF sha = None THEN head ELSE sha
        /\ messages' = Append(messages, [sha |-> IF anchored THEN sha ELSE None, files |-> Visible(disk)])
  BY <1>1
<1>3. Gitignore \notin skipped /\ skipped \in SUBSET S
  BY <1>1 DEF Calm
<1>4. sha # None => sha \in Obeying(disk[Gitignore]) /\ Lacks([sha |-> sha, files |-> Visible(disk)], S)
  BY <1>3, CheckpointLacks
<1>5. Visible(disk) \in Trees
  BY VisibleObeys
<1> DEFINE m == [sha |-> IF anchored THEN sha ELSE None, files |-> Visible(disk)]
<1>6. CASE anchored /\ sha # None
  <2>1. m = [sha |-> sha, files |-> Visible(disk)]
    BY <1>6
  <2>2. m \in Lacking(Obeying(disk[Gitignore]), S)
    BY <1>4, <1>5, <1>6, <2>1 DEF Lacking
  <2> QED
    BY <1>2, <1>4, <2>2
<1>7. CASE ~(anchored /\ sha # None)
  <2>1. m = [sha |-> None, files |-> Visible(disk)]
    BY <1>7
  <2>2. m \in Lacking(Obeying(disk[Gitignore]), S)
    BY <1>5, <2>1 DEF Lacking
  <2> QED
    BY <1>2, <1>4, <2>2
<1> QED
  BY <1>6, <1>7

-----------------------------------------------------------------------------
(* Sequences: what the store does to them.                                 *)
LEMMA CutKeeps ==
  ASSUME NEW S, NEW s \in Seq(S), NEW n \in 1 .. Len(s), NEW i \in 1 .. n
  PROVE  SubSeq(s, 1, i - 1) \in Seq(S) /\ SubSeq(s, i, n) \in Seq(S)
<1>1. i \in 1 .. Len(s) /\ Len(s) \in Nat /\ n \in Nat
  BY LenProperties
<1>2. \A j \in 1 .. Len(s) : s[j] \in S
  BY ElementOfSeq
<1>3. SubSeq(s, 1, i - 1) \in Seq(S)
  BY <1>1, <1>2, SubSeqProperties
<1>4. SubSeq(s, i, n) \in Seq(S)
  BY <1>1, <1>2, SubSeqProperties
<1> QED
  BY <1>3, <1>4

LEMMA CutWhole ==
  ASSUME NEW S, NEW s \in Seq(S), NEW i \in DOMAIN s
  PROVE  SubSeq(s, 1, i - 1) \in Seq(S) /\ SubSeq(s, i, Len(s)) \in Seq(S)
<1>1. Len(s) \in 1 .. Len(s) /\ i \in 1 .. Len(s)
  BY LenProperties
<1> QED
  BY <1>1, CutKeeps

LEMMA PopKeeps ==
  ASSUME NEW S, NEW s \in Seq(S), s # <<>>
  PROVE  /\ Front(s) \in Seq(S) /\ Last(s) \in S
         /\ \A i \in DOMAIN Front(s) : i \in DOMAIN s /\ Front(s)[i] = s[i]
<1>1. Len(s) \in Nat \ {0}
  BY EmptySeq
<1>2. \A j \in 1 .. Len(s) : s[j] \in S
  BY ElementOfSeq
<1>3. /\ Front(s) \in Seq(S)
      /\ Len(Front(s)) = (IF 1 <= Len(s) - 1 THEN Len(s) - 1 - 1 + 1 ELSE 0)
      /\ \A i \in 1 .. Len(s) - 1 - 1 + 1 : Front(s)[i] = s[1 + i - 1]
  BY <1>1, <1>2, SubSeqProperties DEF Front
<1>4. DOMAIN Front(s) = 1 .. Len(Front(s)) /\ DOMAIN s = 1 .. Len(s)
  BY <1>3, LenProperties
<1>5. Last(s) \in S
  BY <1>1, <1>2 DEF Last
<1>6. DOMAIN Front(s) = 1 .. Len(s) - 1 /\ 1 .. Len(s) - 1 - 1 + 1 = 1 .. Len(s) - 1
  <2>1. Len(s) - 1 - 1 + 1 = Len(s) - 1 /\ Len(Front(s)) = Len(s) - 1
    <3>1. PICK n \in Nat \ {0} : n = Len(s)
      BY <1>1
    <3>2. n - 1 - 1 + 1 = n - 1 /\ (IF 1 <= n - 1 THEN n - 1 - 1 + 1 ELSE 0) = n - 1
      OBVIOUS
    <3> QED
      BY <1>3, <3>1, <3>2
  <2> QED
    BY <1>4, <2>1
<1>7. \A i \in 1 .. Len(s) - 1 : 1 + i - 1 = i /\ i \in DOMAIN s
  BY <1>1, <1>4
<1>8. \A i \in DOMAIN Front(s) : Front(s)[i] = s[1 + i - 1]
  BY <1>3, <1>6
<1> QED
  BY <1>3, <1>5, <1>6, <1>7, <1>8

(* The stack of undos loses at most its oldest entry.                      *)
LEMMA PushKeeps ==
  ASSUME NEW S, undos \in Seq(S), NEW e \in S
  PROVE  /\ Pushed(e) \in Seq(S)
         /\ \A i \in DOMAIN Pushed(e) : Pushed(e)[i] = e \/ \E j \in DOMAIN undos : Pushed(e)[i] = undos[j]
<1> DEFINE all == Append(undos, e)
<1>1. /\ all \in Seq(S) /\ all # <<>> /\ Len(all) = Len(undos) + 1
      /\ \A i \in 1 .. Len(undos) : all[i] = undos[i]
      /\ all[Len(undos) + 1] = e
  BY AppendProperties
<1>2. Tail(all) \in Seq(S) /\ Len(Tail(all)) = Len(all) - 1
      /\ \A i \in 1 .. Len(Tail(all)) : Tail(all)[i] = all[i + 1]
  BY <1>1, HeadTailProperties
<1>3. Len(undos) \in Nat /\ DOMAIN undos = 1 .. Len(undos) /\ DOMAIN all = 1 .. Len(all)
      /\ DOMAIN Tail(all) = 1 .. Len(Tail(all))
  BY <1>1, <1>2, LenProperties
<1> HIDE DEF all
<1>4. \A i \in DOMAIN all : all[i] = e \/ \E j \in DOMAIN undos : all[i] = undos[j]
  BY <1>1, <1>3
<1>5. \A i \in DOMAIN Tail(all) : Tail(all)[i] = all[i + 1] /\ i + 1 \in DOMAIN all
  BY <1>1, <1>2, <1>3
<1> QED
  BY <1>1, <1>2, <1>4, <1>5 DEF all, Pushed

(* Where the commits go.                                                   *)
LEMMA BeginKeeps ==
  ASSUME NEW T, NEW M, Kept(T, M), BackupOf(disk, head) \in T,
         NEW how, NEW target \in T, NEW promise, NEW msg, Begin(how, target, promise, msg),
         how = "reset" => msg \in DOMAIN messages,
         how = "undo" => undoing # None /\ undoing.at # "restored" /\ Last(undoing.stack).sha # None,
         how \in {"tool", "reset"} => target # None /\ [sha |-> target, files |-> promise] \in M
  PROVE  Kept(T, M)'
<1>1. how = "reset" => Len(messages) \in 1 .. Len(messages) /\ msg \in 1 .. Len(messages)
  <2>1. Len(messages) \in Nat /\ DOMAIN messages = 1 .. Len(messages)
    BY LenProperties DEF Kept
  <2> QED
    BY <2>1
<1>2. /\ op' = [pc |-> "saved", how |-> how, target |-> target, promise |-> promise,
                msg |-> msg, len |-> Len(messages)]
      /\ UNCHANGED store /\ backup' \in T
  BY DEF Begin
<1> QED
  BY <1>1, <1>2 DEF Kept, store

LEMMA KeptStep ==
  ASSUME NEW T \in SUBSET Trees, NEW M \in SUBSET [sha : T \cup {None}, files : Trees],
         Typed, Kept(T, M), Next, BackupOf(disk, head) \in T,
         SendMessage => \E m \in M : messages' = Append(messages, m)
  PROVE  Kept(T, M)'
<1>0. NoTree \in Trees
  BY AbsentAllowed DEF NoTree, Trees
<1>m. \A i \in DOMAIN messages :
        messages[i] \in M /\ messages[i] = [sha |-> messages[i].sha, files |-> messages[i].files]
        /\ messages[i].sha \in T \cup {None}
  BY ElementOfSeq, LenProperties DEF Kept
<1>1. CASE Edit
  BY <1>1 DEF Edit, Kept, store
<1>2. CASE SendMessage
  <2>0. PICK m \in M : messages' = Append(messages, m)
    BY <1>2
  <2>1. messages' \in Seq(M)
    BY <2>0, AppendProperties DEF Kept
  <2> QED
    BY <1>2, <2>1 DEF SendMessage, Kept, Idle
<1>3. CASE Interrupted
  <2>1. undoing' \in {None} \cup [stack : Stacks(T, M), at : {"first", "again", "restored"}]
    BY <1>3 DEF Interrupted, Kept
  <2>2. UNCHANGED <<backup, messages, undos>> /\ op' = Idle
    BY <1>3 DEF Interrupted
  <2> QED
    BY <2>1, <2>2 DEF Kept, Idle
<1>4. CASE ToolReset
  <2>1. PICK i \in DOMAIN messages :
          messages[i].sha # None /\ Begin("tool", messages[i].sha, messages[i].files, 0)
    BY <1>4 DEF ToolReset
  <2> QED
    BY <1>m, <2>1, BeginKeeps
<1>5. CASE ToolUndo
  <2>1. backup \in T
    BY <1>5 DEF ToolUndo, Kept
  <2> QED
    BY <1>5, <2>1, BeginKeeps DEF ToolUndo
<1>6. CASE ToolDone
  BY <1>6 DEF ToolDone, Restore, Kept, Idle, store
<1>7. CASE ResetToMessage
  <2>1. PICK i \in DOMAIN messages :
          messages[i].sha # None /\ Begin("reset", messages[i].sha, messages[i].files, i)
    BY <1>7 DEF ResetToMessage
  <2> QED
    BY <1>m, <2>1, BeginKeeps
<1>8. CASE ResetConversation
  <2>1. PICK i \in DOMAIN messages :
          /\ messages' = SubSeq(messages, 1, i - 1)
          /\ undos' = Pushed([sha |-> None, before |-> NoTree, cut |-> SubSeq(messages, i, Len(messages))])
    BY <1>8 DEF ResetConversation
  <2>2. SubSeq(messages, 1, i - 1) \in Seq(M) /\ SubSeq(messages, i, Len(messages)) \in Seq(M)
    BY CutWhole DEF Kept
  <2>3. undos' \in Seq(Entries(T, M))
    BY <1>0, <2>1, <2>2, PushKeeps DEF Kept, Entries
  <2>4. ~At("reset") /\ UNCHANGED <<backup, undoing, op>>
    BY <1>8 DEF ResetConversation
  <2> QED
    BY <2>1, <2>2, <2>3, <2>4 DEF Kept, At
<1>9. CASE ResetDone
  <2> DEFINE cut == SubSeq(messages, op.msg, op.len)
  <2>0. messages \in Seq(M) /\ op.len \in 1 .. Len(messages) /\ op.msg \in 1 .. op.len
    BY <1>9 DEF ResetDone, At, Kept
  <2>1. SubSeq(messages, 1, op.msg - 1) \in Seq(M) /\ cut \in Seq(M)
    BY <2>0, CutKeeps
  <2>2. Pushed([sha |-> backup, before |-> saved, cut |-> cut]) \in Seq(Entries(T, M))
    BY <2>1, PushKeeps DEF Kept, Entries, Typed
  <2> QED
    BY <1>9, <2>1, <2>2 DEF ResetDone, Restore, Kept, Idle
<1>10. CASE UndoReset
  <2>1. undos \in Stacks(T, M)
    BY <1>10 DEF UndoReset, Stacks, Kept
  <2>2. undoing' = [stack |-> undos, at |-> "first"] /\ undoing = None
    BY <1>10 DEF UndoReset
  <2>3. op.pc = "saved" => op.how # "undo"
    BY <2>2 DEF Kept
  <2>4. UNCHANGED <<backup, messages, undos, op>>
    BY <1>10 DEF UndoReset
  <2> QED
    BY <2>1, <2>2, <2>3, <2>4 DEF Kept
<1>11. CASE UndoFiles
  <2>1. undoing # None /\ undoing.stack \in Seq(Entries(T, M)) /\ undoing.stack # <<>>
    BY <1>11 DEF UndoFiles, Kept, Stacks
  <2>2. Last(undoing.stack) \in Entries(T, M) /\ Last(undoing.stack).sha # None
    BY <1>11, <2>1, PopKeeps DEF UndoFiles
  <2>3. Last(undoing.stack).sha \in T
    BY <2>2 DEF Entries
  <2>4. Begin("undo", Last(undoing.stack).sha, Last(undoing.stack).before, 0) /\ undoing.at # "restored"
    BY <1>11 DEF UndoFiles, UndoTarget
  <2> QED
    BY <2>1, <2>2, <2>3, <2>4, BeginKeeps
<1>12. CASE UndoDone
  <2>1. undoing # None
    BY <1>12 DEF UndoDone, At, Kept
  <2>2. undoing' \in [stack : Stacks(T, M), at : {"first", "again", "restored"}]
    BY <1>12, <2>1 DEF UndoDone, Kept
  <2> QED
    BY <1>12, <2>2 DEF UndoDone, Restore, Kept, Idle
<1>13. CASE UndoReturns
  <2>1. undoing # None /\ undoing.stack \in Seq(Entries(T, M)) /\ undoing.stack # <<>>
    BY <1>13 DEF UndoReturns, Kept, Stacks
  <2>2. Last(undoing.stack) \in Entries(T, M) /\ Front(undoing.stack) \in Seq(Entries(T, M))
    BY <2>1, PopKeeps
  <2>3. messages \in Seq(M) /\ Last(undoing.stack).cut \in Seq(M)
    BY <2>2 DEF Entries, Kept
  <2> DEFINE more == messages \o Last(undoing.stack).cut
  <2>4. more \in Seq(M) /\ Len(more) = Len(messages) + Len(Last(undoing.stack).cut)
    BY <2>3, ConcatProperties
  <2>5. Len(messages) \in Nat /\ Len(Last(undoing.stack).cut) \in Nat
    BY <2>3, LenProperties
  <2>6. 1 .. Len(messages) \subseteq 1 .. Len(more)
    BY <2>4, <2>5
  <2>7. messages' = more /\ undos' = Front(undoing.stack) /\ undoing' = None /\ UNCHANGED <<backup, op>>
    BY <1>13 DEF UndoReturns
  <2>8. op.pc = "saved" => op.how # "undo"
    BY <1>13 DEF UndoReturns, Kept
  <2> QED
    BY <2>2, <2>4, <2>6, <2>7, <2>8 DEF Kept
<1>14. CASE UndoFails
  BY <1>14 DEF UndoFails, At, Kept
<1>15. CASE DismissRestoreUndo
  BY <1>15, PopKeeps DEF DismissRestoreUndo, Kept
<1> QED
  BY <1>1, <1>2, <1>3, <1>4, <1>5, <1>6, <1>7, <1>8, <1>9, <1>10, <1>11, <1>12, <1>13, <1>14, <1>15
  DEF Next

(* Whatever the rules, a message and its checkpoint hold files.            *)
LEMMA SentTyped ==
  ASSUME disk \in Trees, head \in Trees, SendMessage
  PROVE  /\ \E m \in AnyMessage : messages' = Append(messages, m)
         /\ head' \in Trees
<1>1. PICK skipped \in SUBSET Paths : \E sha \in Checkpoints(disk, head, skipped), anchored \in BOOLEAN :
        /\ head' = IF sha = None THEN head ELSE sha
        /\ messages' = Append(messages, [sha |-> IF anchored THEN sha ELSE None, files |-> Visible(disk)])
  BY DEF SendMessage
<1>2. PICK sha \in Checkpoints(disk, head, skipped), anchored \in BOOLEAN :
        /\ head' = IF sha = None THEN head ELSE sha
        /\ messages' = Append(messages, [sha |-> IF anchored THEN sha ELSE None, files |-> Visible(disk)])
  BY <1>1
<1>3. Visible(disk) \in Trees
  BY VisibleObeys
<1>4. Walked(disk, skipped) \in Trees
  <2>1. Walked(disk, skipped) \in [Paths -> UNION {Contents(p) : p \in Paths}]
    BY <1>3, AbsentAllowed DEF Walked, Trees
  <2>2. Walked(disk, skipped)[Gitignore] \in {Absent, Visible(disk)[Gitignore]}
    BY AbsentAllowed DEF Walked
  <2> QED
    BY <1>3, <2>1, <2>2, AbsentAllowed DEF Trees
<1>5. sha \in Trees \cup {None}
  BY <1>4 DEF Checkpoints
<1>6. [sha |-> IF anchored THEN sha ELSE None, files |-> Visible(disk)] \in AnyMessage
  BY <1>3, <1>5 DEF AnyMessage
<1> QED
  BY <1>2, <1>5, <1>6

LEMMA TypedNext ==
  ASSUME Typed, Next
  PROVE  Typed'
<1>1. Kept(Trees, AnyMessage)'
  <2>1. Visible(disk) \in Trees /\ BackupOf(disk, head) \in Trees
    BY VisibleObeys DEF Typed, BackupOf
  <2>2. SendMessage => \E m \in AnyMessage : messages' = Append(messages, m)
    BY SentTyped DEF Typed
  <2>3. AnyMessage \in SUBSET [sha : Trees \cup {None}, files : Trees] /\ Kept(Trees, AnyMessage)
    BY DEF Typed, AnyMessage
  <2> QED
    BY <2>1, <2>2, <2>3, KeptStep
<1>2. disk' \in Trees /\ head' \in Trees /\ saved' \in Trees
  <2>0. /\ disk \in Trees /\ head \in Trees /\ saved \in Trees
        /\ op.pc = "saved" => op.target \in Trees
    BY DEF Typed, Kept
  <2>1. CASE Edit
    <3>0. PICK p \in Paths : \E c \in Contents(p) : disk' = [disk EXCEPT ![p] = c]
      BY <2>1 DEF Edit
    <3>1. PICK c \in Contents(p) : disk' = [disk EXCEPT ![p] = c]
      BY <3>0
    <3>2. disk' \in Trees
      <4>1. c \in UNION {Contents(q) : q \in Paths}
        BY <3>1
      <4>2. disk' \in [Paths -> UNION {Contents(q) : q \in Paths}]
        BY <2>0, <3>1, <4>1 DEF Trees
      <4> QED
        BY <2>0, <3>1, <4>2, AbsentAllowed DEF Trees
    <3> QED
      BY <2>0, <2>1, <3>2 DEF Edit
  <2>2. CASE SendMessage
    <3>1. head' \in Trees
      BY <2>0, <2>2, SentTyped
    <3> QED
      BY <2>0, <2>2, <3>1 DEF SendMessage
  <2>3. CASE Interrupted
    <3>1. Restored(disk, head, op.target) \in Trees /\ op.target \in Trees
      BY <2>0, <2>3, RestoredIsTree DEF Interrupted
    <3>2. PICK done \in SUBSET Paths, moved \in BOOLEAN :
            /\ disk' = [p \in Paths |-> IF p \in done THEN Restored(disk, head, op.target)[p] ELSE disk[p]]
            /\ head' = IF moved THEN op.target ELSE head
      BY <2>3 DEF Interrupted
    <3>3. disk' \in Trees
      BY <2>0, <3>1, <3>2, HalfIsTree
    <3> QED
      BY <2>0, <2>3, <3>1, <3>2, <3>3 DEF Interrupted
  <2>4. CASE ToolDone \/ ResetDone \/ UndoDone
    <3>1. op.target \in Trees /\ Restore
      BY <2>0, <2>4 DEF ToolDone, ResetDone, UndoDone, At
    <3>2. Restored(disk, head, op.target) \in Trees
      BY <2>0, <3>1, RestoredIsTree
    <3> QED
      BY <2>0, <3>1, <3>2 DEF Restore
  <2>5. CASE ToolReset \/ ToolUndo \/ ResetToMessage \/ UndoFiles
    <3>1. UNCHANGED <<disk, head>> /\ saved' = Visible(disk)
      BY <2>5 DEF ToolReset, ToolUndo, ResetToMessage, UndoFiles, Begin
    <3> QED
      BY <2>0, <3>1, VisibleObeys
  <2>6. CASE ResetConversation \/ UndoReset \/ UndoReturns \/ UndoFails \/ DismissRestoreUndo
    BY <2>0, <2>6 DEF ResetConversation, UndoReset, UndoReturns, UndoFails, DismissRestoreUndo
  <2> QED
    BY <2>1, <2>2, <2>3, <2>4, <2>5, <2>6 DEF Next
<1> QED
  BY <1>1, <1>2 DEF Typed

LEMMA UpsetGrows == Next => upset \subseteq upset'
BY DEF Next, Edit, SendMessage, Interrupted, ToolReset, ToolUndo, ToolDone, ResetToMessage,
   ResetConversation, ResetDone, UndoReset, UndoFiles, UndoDone, UndoReturns, UndoFails,
   DismissRestoreUndo, Begin, Restore

(* While the rules stay, a step leaves them, the ignored files and what    *)
(* was committed under them alone.                                         *)
LEMMA RuledByNext ==
  ASSUME Typed, Next, Calm({"rules"})', NEW S \in SUBSET Paths, Excluded \subseteq S,
         S = Paths \/ Calm({"skipped"})', RuledBy(S)
  PROVE  RuledBy(S)'
<1>1. PICK rules : /\ disk[Gitignore] = rules
                   /\ Kept(Obeying(rules), Lacking(Obeying(rules), S))
                   /\ head \in Obeying(rules) \cup {NoTree}
  BY DEF RuledBy
<1>2. /\ disk \in Trees /\ Visible(disk) \in Obeying(rules) /\ BackupOf(disk, head) \in Obeying(rules)
      /\ op.pc = "saved" => op.target \in Obeying(rules)
  BY <1>1, VisibleObeys, BackupObeys DEF Typed, Kept
<1>3. SendMessage => /\ \E m \in Lacking(Obeying(rules), S) : messages' = Append(messages, m)
                     /\ head' \in Obeying(rules) \cup {NoTree}
  BY <1>1, <1>2, SentLacks
<1>4. Kept(Obeying(rules), Lacking(Obeying(rules), S))'
  <2>1. Obeying(rules) \in SUBSET Trees
    BY DEF Obeying
  <2>2. Lacking(Obeying(rules), S) \in SUBSET [sha : Obeying(rules) \cup {None}, files : Trees]
    BY DEF Lacking
  <2> QED
    BY <1>1, <1>2, <1>3, <2>1, <2>2, KeptStep
<1>5. disk'[Gitignore] = rules /\ head' \in Obeying(rules) \cup {NoTree}
  <2>1. CASE Edit
    <3>1. PICK p \in Paths : \E c : disk' = [disk EXCEPT ![p] = c] /\ (p = Gitignore => "rules" \in upset')
      BY <2>1 DEF Edit
    <3>2. p # Gitignore
      BY <3>1 DEF Calm
    <3> QED
      BY <1>1, <1>2, <2>1, <3>1, <3>2, AbsentAllowed DEF Edit, Trees
  <2>2. CASE SendMessage
    BY <1>1, <1>3, <2>2 DEF SendMessage
  <2>3. CASE Interrupted
    <3>1. op.target \in Obeying(rules)
      BY <1>2, <2>3 DEF Interrupted
    <3>2. Restored(disk, head, op.target)[Gitignore] = rules
      BY <1>1, <1>2, <3>1, RestoreObeys
    <3>3. PICK done \in SUBSET Paths, moved \in BOOLEAN :
            /\ disk' = [p \in Paths |-> IF p \in done THEN Restored(disk, head, op.target)[p] ELSE disk[p]]
            /\ head' = IF moved THEN op.target ELSE head
      BY <2>3 DEF Interrupted
    <3> QED
      BY <1>1, <3>1, <3>2, <3>3, AbsentAllowed
  <2>4. CASE ToolDone \/ ResetDone \/ UndoDone
    <3>1. op.target \in Obeying(rules) /\ Restore
      BY <1>2, <2>4 DEF ToolDone, ResetDone, UndoDone, At
    <3>2. Restored(disk, head, op.target)[Gitignore] = rules
      BY <1>1, <1>2, <3>1, RestoreObeys
    <3> QED
      BY <3>1, <3>2 DEF Restore
  <2>5. CASE ToolReset \/ ToolUndo \/ ResetToMessage \/ UndoFiles
    BY <1>1, <2>5 DEF ToolReset, ToolUndo, ResetToMessage, UndoFiles, Begin
  <2>6. CASE ResetConversation \/ UndoReset \/ UndoReturns \/ UndoFails \/ DismissRestoreUndo
    BY <1>1, <2>6 DEF ResetConversation, UndoReset, UndoReturns, UndoFails, DismissRestoreUndo
  <2> QED
    BY <2>1, <2>2, <2>3, <2>4, <2>5, <2>6 DEF Next
<1> QED
  BY <1>4, <1>5 DEF RuledBy

LEMMA RuledNext ==
  ASSUME Typed, Ruled, Next
  PROVE  Ruled'
<1>1. Paths \in SUBSET Paths /\ Excluded \in SUBSET Paths
  BY SnapshotConstants DEF Paths
<1>2. ASSUME Calm({"rules"})' PROVE RuledBy(Paths)'
  <2>1. RuledBy(Paths)
    BY <1>2, UpsetGrows DEF Calm, Ruled
  <2> QED
    BY <1>1, <1>2, <2>1, RuledByNext
<1>3. ASSUME Calm({"rules", "skipped"})' PROVE RuledBy(Excluded)'
  <2>1. Calm({"rules"})' /\ Calm({"skipped"})'
    BY <1>3 DEF Calm
  <2>2. RuledBy(Excluded)
    BY <1>3, UpsetGrows DEF Calm, Ruled
  <2> QED
    BY <1>1, <2>1, <2>2, RuledByNext
<1> QED
  BY <1>2, <1>3 DEF Ruled

(* An ignored file is no part of what a backup promises, and a file that a *)
(* walk finds is not written after the backup, or that is a race.          *)
LEMMA BackedUpNext ==
  ASSUME Typed, BackedUp, Next
  PROVE  BackedUp'
<1> SUFFICES ASSUME op'.pc = "saved", Calm({"race"})',
                    NEW p \in Paths, p \notin Ignored(disk'), disk'[p] # Absent
             PROVE  backup'[p] = disk'[p]
  BY DEF BackedUp, Ignored
<1>1. Calm({"race"})
  BY UpsetGrows DEF Calm
<1>2. CASE Edit
  <2>1. op.pc = "saved" /\ backup' = backup /\ op # Idle
    BY <1>2 DEF Edit, Idle
  <2>2. PICK q \in Paths : /\ \E c : disk' = [disk EXCEPT ![q] = c]
                           /\ q \notin Ignored(disk) => "race" \in upset'
    BY <1>2, <2>1 DEF Edit
  <2>3. q \in Ignored(disk) /\ q # Gitignore
    BY <2>2, RulesSpareThemselves DEF Calm, Typed
  <2>4. disk'[Gitignore] = disk[Gitignore] /\ (p # q => disk'[p] = disk[p])
    BY <2>2, <2>3, AbsentAllowed DEF Typed, Trees
  <2>5. Ignored(disk') = Ignored(disk)
    BY <2>4 DEF Ignored
  <2> QED
    BY <1>1, <2>1, <2>3, <2>4, <2>5 DEF BackedUp
<1>3. CASE ToolReset \/ ToolUndo \/ ResetToMessage \/ UndoFiles
  <2>1. backup' = BackupOf(disk, head) /\ disk' = disk
    BY <1>3 DEF ToolReset, ToolUndo, ResetToMessage, UndoFiles, Begin
  <2>2. Visible(disk)[p] = disk[p]
    BY <2>1 DEF Visible
  <2>3. Visible(disk) # NoTree
    BY <2>1, <2>2 DEF NoTree
  <2> QED
    BY <2>1, <2>2, <2>3 DEF BackupOf
<1>4. CASE Interrupted \/ ToolDone \/ ResetDone \/ UndoDone \/ SendMessage
  <2>1. op' = Idle
    BY <1>4 DEF Interrupted, ToolDone, ResetDone, UndoDone, Restore, SendMessage
  <2> QED
    BY <2>1 DEF Idle
<1>5. CASE ResetConversation \/ UndoReset \/ UndoReturns \/ UndoFails \/ DismissRestoreUndo
  <2>1. UNCHANGED <<disk, backup, op>>
    BY <1>5 DEF ResetConversation, UndoReset, UndoReturns, UndoFails, DismissRestoreUndo
  <2> QED
    BY <1>1, <2>1 DEF BackedUp, Ignored
<1> QED
  BY <1>2, <1>3, <1>4, <1>5 DEF Next

(* Every entry and every backup says what it was made of.                  *)
LEMMA PushTells ==
  ASSUME NEW S, undos \in Seq(S), Told(undos), NEW e \in S, e.sha # None => e.before = e.sha
  PROVE  Told(Pushed(e))
<1>1. \A k \in DOMAIN Pushed(e) : Pushed(e)[k] = e \/ \E j \in DOMAIN undos : Pushed(e)[k] = undos[j]
  BY PushKeeps
<1> QED
  BY <1>1 DEF Told

LEMMA PopTells ==
  ASSUME NEW S, NEW s \in Seq(S), s # <<>>, Told(s)
  PROVE  Told(Front(s)) /\ (Last(s).sha # None => Last(s).before = Last(s).sha)
<1>1. \A i \in DOMAIN Front(s) : i \in DOMAIN s /\ Front(s)[i] = s[i]
  BY PopKeeps
<1>2. Len(s) \in DOMAIN s
  BY EmptySeq, LenProperties
<1> QED
  BY <1>1, <1>2 DEF Told, Last

LEMMA HonestNext ==
  ASSUME Typed, Honest, Next
  PROVE  Honest'
<1> SUFFICES ASSUME Calm({"rules", "race", "emptied"})' PROVE Honest'
  BY DEF Honest
<1>1. Calm({"rules", "race", "emptied"})
  BY UpsetGrows DEF Calm
<1>2. /\ backup # None => backup = saved
      /\ Told(undos) /\ (undoing # None => Told(undoing.stack))
      /\ op.pc = "saved" /\ op.how \in {"toolundo", "undo"} => op.promise = op.target
  BY <1>1 DEF Honest
<1>3. undos \in Seq(Entries(Trees, AnyMessage)) /\ messages \in Seq(AnyMessage)
  BY DEF Typed, Kept
<1>4. undoing # None => undoing.stack \in Seq(Entries(Trees, AnyMessage)) /\ undoing.stack # <<>>
  BY DEF Typed, Kept, Stacks
<1>5. ASSUME NEW how, NEW target, NEW promise, NEW msg, Begin(how, target, promise, msg),
             how \in {"toolundo", "undo"} => promise = target
      PROVE  Honest'
  <2>1. "emptied" \notin upset'
    BY DEF Calm
  <2>2. backup' = saved'
    BY <1>5, <2>1 DEF Begin, BackupOf
  <2>3. UNCHANGED <<undos, undoing>>
    BY <1>5 DEF Begin, store
  <2>4. op'.promise = promise /\ op'.target = target /\ op'.how = how
    BY <1>5 DEF Begin
  <2> QED
    BY <1>2, <1>5, <2>2, <2>3, <2>4 DEF Honest
<1>6. CASE Edit
  BY <1>2, <1>6 DEF Edit, Honest, store
<1>7. CASE SendMessage
  BY <1>2, <1>7 DEF SendMessage, Honest, Idle
<1>8. CASE Interrupted
  <2>1. op' = Idle /\ UNCHANGED <<backup, saved, undos>>
    BY <1>8 DEF Interrupted
  <2>2. undoing' # None => undoing # None /\ undoing'.stack = undoing.stack
    <3>1. CASE undoing' \in {None, undoing}
      BY <3>1
    <3>2. CASE undoing' = [undoing EXCEPT !.at = "again"] /\ undoing.at = "first" /\ op.how = "undo"
      <4>1. undoing # None
        BY <1>8, <3>2 DEF Interrupted, Typed, Kept
      <4>2. undoing \in [stack : Stacks(Trees, AnyMessage), at : {"first", "again", "restored"}]
        BY <4>1 DEF Typed, Kept
      <4> QED
        BY <3>2, <4>1, <4>2
    <3> QED
      BY <1>8, <3>1, <3>2 DEF Interrupted
  <2> QED
    BY <1>2, <2>1, <2>2 DEF Honest, Idle
<1>9. CASE ToolReset
  BY <1>5, <1>9 DEF ToolReset
<1>10. CASE ToolUndo
  BY <1>2, <1>5, <1>10 DEF ToolUndo
<1>11. CASE ToolDone
  BY <1>2, <1>11 DEF ToolDone, Restore, Honest, Idle, store
<1>12. CASE ResetToMessage
  BY <1>5, <1>12 DEF ResetToMessage
<1>13. CASE ResetConversation
  <2>1. PICK i \in DOMAIN messages :
          undos' = Pushed([sha |-> None, before |-> NoTree, cut |-> SubSeq(messages, i, Len(messages))])
    BY <1>13 DEF ResetConversation
  <2> DEFINE e == [sha |-> None, before |-> NoTree, cut |-> SubSeq(messages, i, Len(messages))]
  <2>2. NoTree \in Trees
    BY AbsentAllowed DEF NoTree, Trees
  <2>3. SubSeq(messages, i, Len(messages)) \in Seq(AnyMessage)
    BY <1>3, CutWhole
  <2>4. e \in Entries(Trees, AnyMessage) /\ (e.sha # None => e.before = e.sha)
    BY <2>2, <2>3 DEF Entries
  <2>5. undos' = Pushed(e)
    BY <2>1
  <2> HIDE DEF e
  <2>6. Told(Pushed(e))
    BY <1>2, <1>3, <2>4, PushTells
  <2>7. Told(undos)'
    BY <2>5, <2>6 DEF Told
  <2>8. UNCHANGED <<backup, saved, undoing, op>>
    BY <1>13 DEF ResetConversation
  <2> QED
    BY <1>2, <2>7, <2>8 DEF Honest
<1>14. CASE ResetDone
  <2> DEFINE cut == SubSeq(messages, op.msg, op.len)
             e == [sha |-> backup, before |-> saved, cut |-> cut]
  <2>1. op.len \in 1 .. Len(messages) /\ op.msg \in 1 .. op.len
    BY <1>14 DEF ResetDone, At, Typed, Kept
  <2>2. cut \in Seq(AnyMessage)
    BY <1>3, <2>1, CutKeeps
  <2>3. e \in Entries(Trees, AnyMessage) /\ (e.sha # None => e.before = e.sha)
    BY <1>2, <2>2 DEF Typed, Kept, Entries
  <2>4. undos' = Pushed(e)
    BY <1>14 DEF ResetDone
  <2> HIDE DEF e
  <2>5. Told(Pushed(e))
    BY <1>2, <1>3, <2>3, PushTells
  <2>6. Told(undos)'
    BY <2>4, <2>5 DEF Told
  <2>7. UNCHANGED <<backup, saved, undoing>> /\ op' = Idle
    BY <1>14 DEF ResetDone, Restore
  <2> QED
    BY <1>2, <2>6, <2>7 DEF Honest, Idle
<1>15. CASE UndoReset
  <2>1. undoing' = [stack |-> undos, at |-> "first"] /\ UNCHANGED <<backup, saved, undos, op>>
    BY <1>15 DEF UndoReset
  <2> QED
    BY <1>2, <2>1 DEF Honest
<1>16. CASE UndoFiles
  <2>1. undoing # None /\ Last(undoing.stack).sha # None
    BY <1>16 DEF UndoFiles
  <2>2. Last(undoing.stack).before = Last(undoing.stack).sha
    BY <1>2, <1>4, <2>1, PopTells
  <2>3. Begin("undo", Last(undoing.stack).sha, Last(undoing.stack).before, 0)
    BY <1>16 DEF UndoFiles, UndoTarget
  <2> QED
    BY <1>5, <2>2, <2>3
<1>17. CASE UndoDone
  <2>1. undoing # None
    BY <1>17 DEF UndoDone, At, Typed, Kept
  <2>2. undoing \in [stack : Stacks(Trees, AnyMessage), at : {"first", "again", "restored"}]
    BY <2>1 DEF Typed, Kept
  <2>3. undoing'.stack = undoing.stack
    BY <1>17, <2>2 DEF UndoDone
  <2>4. UNCHANGED <<backup, saved, undos>> /\ op' = Idle
    BY <1>17 DEF UndoDone, Restore
  <2> QED
    BY <1>2, <2>1, <2>3, <2>4 DEF Honest, Idle
<1>18. CASE UndoReturns
  <2>1. undoing # None /\ undoing' = None /\ undos' = Front(undoing.stack) /\ UNCHANGED <<backup, saved, op>>
    BY <1>18 DEF UndoReturns
  <2>2. Told(Front(undoing.stack))
    BY <1>2, <1>4, <2>1, PopTells
  <2>3. Told(undos)'
    BY <2>1, <2>2 DEF Told
  <2> QED
    BY <1>2, <2>1, <2>3 DEF Honest
<1>19. CASE UndoFails
  BY <1>2, <1>19 DEF UndoFails, Honest
<1>20. CASE DismissRestoreUndo
  <2>1. undos # <<>> /\ undos' = Front(undos) /\ UNCHANGED <<backup, saved, undoing, op>>
    BY <1>20 DEF DismissRestoreUndo
  <2>2. Told(Front(undos))
    BY <1>2, <1>3, <2>1, PopTells
  <2>3. Told(undos)'
    BY <2>1, <2>2 DEF Told
  <2> QED
    BY <1>2, <2>1, <2>3 DEF Honest
<1> QED
  BY <1>6, <1>7, <1>8, <1>9, <1>10, <1>11, <1>12, <1>13, <1>14, <1>15, <1>16, <1>17, <1>18, <1>19, <1>20
  DEF Next

-----------------------------------------------------------------------------
LEMMA IInvInit == Init => IInv
<1> SUFFICES ASSUME Init PROVE IInv
  OBVIOUS
<1>1. NoTree \in Trees
  BY AbsentAllowed DEF NoTree, Trees
<1>2. disk \in Trees
  BY AbsentAllowed DEF Init, Trees
<1>3. \A T, M : Kept(T, M)
  BY DEF Init, Kept, Idle
<1>4. Typed
  BY <1>1, <1>2, <1>3 DEF Init, Typed
<1>5. Ruled
  BY <1>3 DEF Init, Ruled, RuledBy
<1>6. BackedUp
  BY DEF Init, BackedUp, Idle
<1>7. Honest
  BY DEF Init, Honest, Told, Idle
<1> QED
  BY <1>4, <1>5, <1>6, <1>7 DEF IInv

LEMMA IInvNext == IInv /\ [Next]_vars => IInv'
<1>1. IInv /\ Next => IInv'
  BY TypedNext, RuledNext, BackedUpNext, HonestNext DEF IInv
<1>2. IInv /\ UNCHANGED vars => IInv'
  BY DEF IInv, Typed, Ruled, RuledBy, BackedUp, Honest, Told, Kept, Calm, Ignored, vars, store
<1> QED
  BY <1>1, <1>2

LEMMA IInvAlways == Spec => []IInv
BY IInvInit, IInvNext, PTL DEF Spec

-----------------------------------------------------------------------------
(* What a restore takes from the disk is in the backup it made, also when  *)
(* it is interrupted, and of ignored files it takes none while the rules   *)
(* stay: NothingDestroyed, for any files and any number of restores.       *)
THEOREM NothingDestroyedHolds == Spec => NothingDestroyed
<1>1. ASSUME IInv, Next PROVE LosesNothing
  <2> SUFFICES ASSUME op.pc = "saved", op' # op, Covered({"race"}), NEW p \in Paths,
                      disk[p] \notin {Absent, disk'[p]}, p \in Ignored(disk) => Covered({"rules"})
               PROVE  backup[p] = disk[p]
    BY DEF LosesNothing
  <2>1. CASE p \notin Ignored(disk)
    <3>1. Calm({"race"})
      BY <1>1, UpsetGrows DEF Calm, Covered
    <3> QED
      BY <1>1, <2>1, <3>1 DEF IInv, BackedUp
  <2>2. CASE p \in Ignored(disk)
    <3>1. Calm({"rules"})
      BY <1>1, <2>2, UpsetGrows DEF Calm, Covered
    <3>2. RuledBy(Paths) /\ disk \in Trees
      BY <1>1, <3>1 DEF IInv, Ruled, Typed
    <3>3. PICK rules : /\ disk[Gitignore] = rules /\ op.target \in Obeying(rules)
                       /\ head \in Obeying(rules) \cup {NoTree}
      BY <3>2 DEF RuledBy, Kept
    <3>4. Restored(disk, head, op.target)[p] = disk[p]
      BY <2>2, <3>2, <3>3, RestoreObeys
    <3>5. disk'[p] = disk[p]
      <4>1. CASE Interrupted
        BY <3>4, <4>1 DEF Interrupted
      <4>2. CASE ToolDone \/ ResetDone \/ UndoDone
        BY <3>4, <4>2 DEF ToolDone, ResetDone, UndoDone, Restore
      <4>3. CASE Edit
        BY <4>3 DEF Edit
      <4>4. CASE SendMessage \/ ResetConversation \/ DismissRestoreUndo
        BY <4>4 DEF SendMessage, ResetConversation, DismissRestoreUndo
      <4>5. CASE UndoReset \/ UndoReturns \/ UndoFails
        BY <4>5 DEF UndoReset, UndoReturns, UndoFails
      <4>6. CASE ToolReset \/ ToolUndo \/ ResetToMessage \/ UndoFiles
        BY <4>6 DEF ToolReset, ToolUndo, ResetToMessage, UndoFiles, Begin
      <4> QED
        BY <1>1, <4>1, <4>2, <4>3, <4>4, <4>5, <4>6 DEF Next
    <3> QED
      BY <3>5
  <2> QED
    BY <2>1, <2>2
<1>2. IInv /\ [Next]_vars => [LosesNothing]_vars
  BY <1>1
<1> QED
  BY <1>2, IInvInit, IInvNext, PTL DEF Spec, NothingDestroyed

(* A reset brings back the files of its message, none of them other than   *)
(* it was; only those the exclude rules hide, or that were skipped, may be *)
(* missing.  An undo brings back all of those that were there before the   *)
(* reset: RestoresExactly, for any files and any number of restores.       *)
THEOREM RestoresExactlyHolds == Spec => RestoresExactly
<1>1. ASSUME IInv, Next PROVE KeepsPromise
  <2> SUFFICES ASSUME ToolDone \/ ResetDone \/ UndoDone, Covered({"rules", "race", "emptied"}), NEW p \in Paths
               PROVE  Visible(disk')[p] = op.promise[p] \/ (MayLack(p) /\ Visible(disk')[p] = Absent)
    BY DEF KeepsPromise
  <2>1. Calm({"rules"}) /\ Calm({"rules", "race", "emptied"})
    BY <1>1, UpsetGrows DEF Calm, Covered
  <2>2. RuledBy(Paths) /\ disk \in Trees
    BY <1>1, <2>1 DEF IInv, Ruled, Typed
  <2>3. op.pc = "saved" /\ disk' = Restored(disk, head, op.target)
    BY DEF ToolDone, ResetDone, UndoDone, At, Restore
  <2>4. PICK rules : /\ disk[Gitignore] = rules /\ op.target \in Obeying(rules)
                     /\ head \in Obeying(rules) \cup {NoTree}
    BY <2>2, <2>3 DEF RuledBy, Kept
  <2>5. Visible(disk') = op.target
    BY <2>2, <2>3, <2>4, RestoreObeys
  <2>6. op.how \in {"tool", "reset", "toolundo", "undo"}
    BY DEF ToolDone, ResetDone, UndoDone, At
  <2>7. CASE op.how \in {"toolundo", "undo"}
    BY <1>1, <2>1, <2>3, <2>5, <2>7 DEF IInv, Honest
  <2>8. CASE op.how \in {"tool", "reset"}
    <3> DEFINE m == [sha |-> op.target, files |-> op.promise]
    <3>1. ASSUME NEW S, RuledBy(S) PROVE op.target[p] = op.promise[p] \/ (p \in S /\ op.target[p] = Absent)
      <4>1. PICK other : /\ disk[Gitignore] = other
                         /\ Kept(Obeying(other), Lacking(Obeying(other), S))
        BY <3>1 DEF RuledBy
      <4>2. m \in Lacking(Obeying(rules), S) /\ op.target # None
        BY <2>3, <2>4, <2>8, <4>1 DEF Kept
      <4>3. m.sha = op.target /\ m.files = op.promise
        OBVIOUS
      <4>4. Lacks(m, S)
        BY <4>2, <4>3 DEF Lacking
      <4> QED
        BY <4>3, <4>4 DEF Lacks
    <3>2. CASE Covered({"skipped"})
      <4>1. RuledBy(Excluded)
        BY <1>1, <2>1, <3>2, UpsetGrows DEF Covered, Calm, IInv, Ruled
      <4> QED
        BY <2>5, <2>8, <3>1, <4>1 DEF MayLack
    <3>3. CASE ~Covered({"skipped"})
      BY <2>2, <2>5, <2>8, <3>1, <3>3 DEF MayLack
    <3> QED
      BY <3>2, <3>3
  <2> QED
    BY <2>6, <2>7, <2>8
<1>2. IInv /\ [Next]_vars => [KeepsPromise]_vars
  BY <1>1
<1> QED
  BY <1>2, IInvInit, IInvNext, PTL DEF Spec, RestoresExactly
=============================================================================
