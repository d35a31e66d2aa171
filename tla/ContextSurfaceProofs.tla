-------------------------- MODULE ContextSurfaceProofs --------------------------
(***************************************************************************)
(* Proofs about ContextSurface, for any number of compactions, messages,   *)
(* waiting saves and disturbances: a generation that is served belongs to  *)
(* a compaction whose row says completed, surfaceCache is not behind the   *)
(* tables, every variable keeps its type, no generation that a compaction  *)
(* made takes in the checkpoint of one that was not committed, and a turn  *)
(* is given all that was said before it and nothing that a committed       *)
(* compaction replaced.                                                    *)
(***************************************************************************)
EXTENDS ContextSurface, SequenceTheorems, WellFoundedInduction, FiniteSetTheorems, TLAPS

(* A surface that no compaction made, or one recorded as completed.        *)
Certified(s) ==
  /\ {"gen", "parent", "cid", "nodes"} \subseteq DOMAIN s
  /\ s.cid # NoCompaction => s.cid \in Checkpoints /\ rows[s.cid] = "completed"

(* Where a compaction's call keeps the surface it will remember.           *)
Trusted(c) == comp[c].pc \in {"read", "returned", "verified"} => Certified(comp[c].got)

CallsShaped ==
  DOMAIN comp = Checkpoints /\ \A c \in Checkpoints : {"pc", "got", "gen", "msgs", "ahead"} \subseteq DOMAIN comp[c]

(* Every surface that may be served, or written again, is certified.  The  *)
(* tables alone are not enough: a save or a commit writes back what it     *)
(* read earlier.                                                           *)
IInv ==
  /\ DOMAIN rows = Checkpoints
  /\ CallsShaped
  /\ {"pc", "got"} \subseteq DOMAIN save /\ {"pc", "got", "gen", "ahead"} \subseteq DOMAIN turn
  /\ \A s \in surfaces : Certified(s)
  /\ Certified(cache) /\ Certified(save.got) /\ Certified(turn.got)
  /\ \A c \in Checkpoints : Trusted(c)

LEMMA LoadCertified ==
  ASSUME IInv
  PROVE  Certified(LoadLatest) /\ \A g : Certified(Load(g))
<1>1. Certified(NoSurface)
  BY DEF Certified, NoSurface
<1>2. \A S \in SUBSET surfaces : Certified(OneOf(S))
  BY <1>1 DEF OneOf, CallsShaped, IInv
<1> QED
  BY <1>2 DEF LoadLatest, Load

LEMMA SavedCertified ==
  ASSUME IInv, NEW s, Certified(s)
  PROVE  \A t \in Saved(s) : Certified(t)
BY DEF Saved, CallsShaped, IInv, Certified

LEMMA IInvInit == Init => IInv
BY DEF Init, CallsShaped, IInv, Certified, Trusted, Idle, NoSurface, Forgotten

(* The save queue writes back what it read.                                *)
LEMMA SaveKeeps ==
  ASSUME IInv, SaveStep
  PROVE  IInv'
<1> USE DEF db
<1>1. Certified(NoSurface)
  BY DEF Certified, NoSurface
<1>2. ASSUME JobDone PROVE /\ DOMAIN comp' = Checkpoints
                           /\ \A c \in Checkpoints :
                                /\ {"pc", "got", "gen", "msgs", "ahead"} \subseteq DOMAIN comp'[c]
                                /\ comp'[c].pc = comp[c].pc /\ comp'[c].got = comp[c].got
                           /\ {"pc", "got"} \subseteq DOMAIN save' /\ save'.got = NoSurface
                           /\ {"pc", "got", "gen", "ahead"} \subseteq DOMAIN turn' /\ turn'.got = turn.got
  BY <1>2 DEF JobDone, CallsShaped, IInv
<1>3. ASSUME NEW s, Certified(s), MaintainWith(s), rows' = rows, Certified(cache')
      PROVE  IInv'
  <2> DEFINE new == [gen |-> IF s.gen = NoGen THEN 0 ELSE s.gen,
                     parent |-> s.parent, cid |-> s.cid, nodes |-> Projection(s, Head(queue))]
  <2>1. Certified(new)
    BY <1>3 DEF Certified
  <2>2. \A t \in Saved(new) : Certified(t)
    BY <2>1, SavedCertified
  <2> HIDE DEF new
  <2>3. CASE surfaces' = surfaces /\ JobDone
    BY <1>1, <1>2, <1>3, <2>3 DEF CallsShaped, IInv, Trusted, Certified
  <2>4. CASE surfaces' = Saved(new) /\ JobDone
    BY <1>1, <1>2, <1>3, <2>2, <2>4 DEF CallsShaped, IInv, Trusted, Certified
  <2>5. CASE surfaces' = Saved(new) /\ save' = [pc |-> "saved", got |-> new] /\ UNCHANGED <<comp, turn>>
    BY <1>3, <2>1, <2>2, <2>5 DEF CallsShaped, IInv, Trusted, Certified
  <2> QED
    BY <1>3, <2>3, <2>4, <2>5 DEF MaintainWith, new
<1>4. CASE SaveArchive
  BY <1>4 DEF SaveArchive, CallsShaped, IInv, Trusted, Certified
<1>5. CASE Maintain
  <2>1. CASE cache = Forgotten
    <3>1. CASE save' = [pc |-> "loaded", got |-> LoadLatest] /\ UNCHANGED <<comp, turn>>
      BY <1>5, <2>1, <3>1, LoadCertified DEF Maintain, CallsShaped, IInv, Trusted, Certified
    <3>2. CASE JobDone
      BY <1>1, <1>2, <1>5, <2>1, <3>2 DEF Maintain, CallsShaped, IInv, Trusted, Certified
    <3> QED
      BY <1>5, <2>1, <3>1, <3>2 DEF Maintain
  <2>2. CASE cache # Forgotten
    <3>1. MaintainWith(cache) /\ rows' = rows /\ cache' = cache
      BY <1>5, <2>2 DEF Maintain
    <3>2. Certified(cache) /\ Certified(cache')
      BY <3>1 DEF CallsShaped, IInv, Certified
    <3> QED
      BY <1>3, <3>1, <3>2
  <2> QED
    BY <2>1, <2>2
<1>6. CASE MaintainLoaded
  <2>1. MaintainWith(save.got) /\ rows' = rows /\ cache' = save.got
    BY <1>6 DEF MaintainLoaded
  <2>2. Certified(save.got) /\ Certified(cache')
    BY <2>1 DEF CallsShaped, IInv, Certified
  <2> QED
    BY <1>3, <2>1, <2>2
<1>7. CASE Maintained
  BY <1>1, <1>2, <1>7 DEF Maintained, Remember, CallsShaped, IInv, Trusted, Certified
<1> QED
  BY <1>4, <1>5, <1>6, <1>7 DEF SaveStep

LEMMA HydrateKeeps ==
  ASSUME IInv, HydrateStep
  PROVE  IInv'
<1>1. rows' = rows /\ comp' = comp /\ save' = save
  BY DEF HydrateStep, Hydrate, HydrateLoaded, FallBackToParent, ParentIncomplete, TakeParent,
     DiscardAll, RebuildGenerationZero, TakeRebuilt, db
<1>2. ASSUME NEW nodes, Got(nodes) PROVE {"pc", "got", "gen", "ahead"} \subseteq DOMAIN turn' /\ Certified(turn'.got)
  BY <1>2 DEF Got, Idle, NoSurface, Certified
<1>3. ASSUME NEW s, HydrateWith(s) PROVE {"pc", "got", "gen", "ahead"} \subseteq DOMAIN turn' /\ Certified(turn'.got)
  <2>1. CASE turn' = [turn EXCEPT !.pc = "parent", !.got = Load(s.parent), !.gen = s.gen]
    BY <2>1, LoadCertified DEF CallsShaped, IInv
  <2>2. CASE turn' = [turn EXCEPT !.pc = "rebuild"]
    BY <2>2 DEF CallsShaped, IInv
  <2>3. CASE \E nodes : Got(nodes)
    BY <1>2, <2>3
  <2> QED
    BY <1>3, <2>1, <2>2, <2>3 DEF HydrateWith
<1>4. /\ {"pc", "got", "gen", "ahead"} \subseteq DOMAIN turn' /\ Certified(turn'.got)
      /\ Certified(cache') /\ \A s \in surfaces' : Certified(s)
  <2>1. CASE Hydrate
    <3>1. UNCHANGED <<cache, surfaces>>
      BY <2>1 DEF Hydrate, db
    <3>2. CASE turn' = [turn EXCEPT !.pc = "loaded", !.got = LoadLatest]
      BY <3>1, <3>2, LoadCertified DEF CallsShaped, IInv
    <3>3. CASE \E nodes : Got(nodes)
      BY <1>2, <3>1, <3>3 DEF CallsShaped, IInv
    <3>4. CASE HydrateWith(cache)
      BY <1>3, <3>1, <3>4 DEF CallsShaped, IInv
    <3> QED
      BY <2>1, <3>2, <3>3, <3>4 DEF Hydrate
  <2>2. CASE HydrateLoaded
    BY <1>3, <2>2 DEF HydrateLoaded, db, CallsShaped, IInv
  <2>3. CASE FallBackToParent \/ ParentIncomplete
    BY <2>3 DEF FallBackToParent, ParentIncomplete, db, CallsShaped, IInv
  <2>4. CASE TakeParent
    BY <1>2, <2>4 DEF TakeParent, db, CallsShaped, IInv
  <2>5. CASE DiscardAll
    <3>1. turn'.got.cid = NoCompaction /\ {"gen", "parent", "cid", "nodes"} \subseteq DOMAIN turn'.got
          /\ {"pc", "got", "gen", "ahead"} \subseteq DOMAIN turn'
      BY <2>5 DEF DiscardAll, NoSurface, CallsShaped, IInv
    <3> QED
      BY <2>5, <3>1 DEF DiscardAll, CallsShaped, IInv, Certified
  <2>6. CASE RebuildGenerationZero
    <3>1. \A t \in Saved(turn.got) : Certified(t)
      BY SavedCertified DEF CallsShaped, IInv
    <3> QED
      BY <2>6, <3>1 DEF RebuildGenerationZero, CallsShaped, IInv
  <2>7. CASE TakeRebuilt
    BY <1>2, <2>7 DEF TakeRebuilt, db, CallsShaped, IInv
  <2> QED
    BY <2>1, <2>2, <2>3, <2>4, <2>5, <2>6, <2>7 DEF HydrateStep
<1> QED
  BY <1>1, <1>4 DEF CallsShaped, IInv, Trusted, Certified

(* A compaction certifies its own generation, and a completed row stays    *)
(* completed, whoever marks it.                                            *)
LEMMA CommitKeeps ==
  ASSUME IInv, NEW c \in Checkpoints, CommitStep(c)
  PROVE  IInv'
<1> USE DEF CallsShaped, IInv, Trusted, Certified
<1>1. CASE ReadSource(c)
  <2>1. UNCHANGED <<rows, surfaces, cache, save, turn>>
    BY <1>1 DEF ReadSource, db
  <2>2. CASE comp' = [comp EXCEPT ![c].pc = "read", ![c].got = LoadLatest]
    BY <2>1, <2>2, LoadCertified
  <2>3. CASE comp' = [comp EXCEPT ![c].pc = "rejected"]
    BY <2>1, <2>3
  <2> QED
    BY <1>1, <2>2, <2>3 DEF ReadSource
<1>2. CASE CommitTransaction(c)
  <2> DEFINE r == Requested(c)
             source == SourceOf(comp[c].got)
             new == [gen |-> source + 1, parent |-> source, cid |-> r,
                     nodes |-> ComputeSurfaceNodes(comp[c].msgs)]
  <2>1. PICK how \in {"answered", "commit refused", "commit lost"} :
          /\ IF how # "commit refused" /\ Accepts(r, source)
             THEN surfaces' = surfaces \cup {new} /\ rows' = [rows EXCEPT ![r] = "completed"]
             ELSE UNCHANGED <<surfaces, rows>>
          /\ comp' = [comp EXCEPT ![c].pc = IF how = "answered" /\ r \in Completed'
                                            THEN "returned" ELSE "rejected",
                                  ![c].got = new]
    BY <1>2 DEF CommitTransaction
  <2>2. UNCHANGED <<save, turn>> /\ cache' = comp[c].got /\ comp[c].pc = "read"
    BY <1>2 DEF CommitTransaction
  <2>3. Certified(comp[c].got)
    BY <2>2
  <2>4. /\ DOMAIN rows' = Checkpoints
        /\ \A d \in Checkpoints : rows[d] = "completed" => rows'[d] = "completed"
        /\ \A s \in surfaces' : s \in surfaces \/ (s = new /\ r \in Checkpoints /\ rows'[r] = "completed")
    <3>1. CASE UNCHANGED <<surfaces, rows>>
      BY <3>1
    <3>2. CASE /\ r \in Checkpoints
               /\ surfaces' = surfaces \cup {new} /\ rows' = [rows EXCEPT ![r] = "completed"]
      <4> HIDE DEF r, new
      <4> QED
        BY <3>2
    <3>3. Accepts(r, source) => r \in Checkpoints
      BY DEF Accepts
    <3> HIDE DEF r, source, new
    <3> QED
      BY <2>1, <3>1, <3>2, <3>3
  <2>5. \A d \in Checkpoints \ {c} : comp'[d] = comp[d]
    BY <2>1
  <2>6. /\ CallsShaped'
        /\ comp'[c].got = new
        /\ (comp'[c].pc = "returned" /\ r \in Completed') \/ comp'[c].pc = "rejected"
    BY <2>1
  <2>7. r \in Completed' => r \in Checkpoints /\ rows'[r] = "completed"
    BY DEF Completed
  <2>8. \A s : Certified(s) =>
          /\ {"gen", "parent", "cid", "nodes"} \subseteq DOMAIN s
          /\ s.cid # NoCompaction => s.cid \in Checkpoints /\ rows'[s.cid] = "completed"
    BY <2>4
  <2>9. r \in Checkpoints /\ rows'[r] = "completed" =>
          /\ {"gen", "parent", "cid", "nodes"} \subseteq DOMAIN new
          /\ new.cid # NoCompaction => new.cid \in Checkpoints /\ rows'[new.cid] = "completed"
    OBVIOUS
  <2> HIDE DEF r, new
  <2>10. ASSUME NEW d \in Checkpoints PROVE Trusted(d)'
    <3>1. CASE d = c
      BY <2>6, <2>7, <2>9, <3>1
    <3>2. CASE d # c
      BY <2>5, <2>8, <3>2
    <3> QED
      BY <3>1, <3>2
  <2>11. /\ \A s \in surfaces' : Certified(s)'
         /\ Certified(cache)' /\ Certified(save.got)' /\ Certified(turn.got)'
    BY <2>2, <2>3, <2>4, <2>8, <2>9
  <2> QED
    BY <2>2, <2>4, <2>6, <2>10, <2>11
<1>3. CASE CommitReturned(c)
  <2>1. UNCHANGED <<rows, surfaces, save>> /\ cache' = comp[c].got /\ comp' = [comp EXCEPT ![c] = Over]
    BY <1>3 DEF CommitReturned, db, Remember
  <2>2. turn' = [turn EXCEPT !.head = c] \/ turn' = turn
    BY <1>3 DEF CommitReturned
  <2> QED
    BY <1>3, <2>1, <2>2 DEF CommitReturned, Over, Idle
<1>4. CASE Verify(c)
  <2>1. UNCHANGED <<rows, surfaces, cache, save, turn>>
    BY <1>4 DEF Verify, db
  <2>2. CASE comp' = [comp EXCEPT ![c].pc = "verified", ![c].got = LoadLatest]
    BY <2>1, <2>2, LoadCertified
  <2>3. CASE comp' = [comp EXCEPT ![c].pc = "failing"]
    BY <2>1, <2>3
  <2> QED
    BY <1>4, <2>2, <2>3 DEF Verify
<1>5. CASE TakeVerdict(c)
  BY <1>5 DEF TakeVerdict, Remember, db, Over, Idle
<1>6. CASE MarkFailed(c)
  <2>1. UNCHANGED <<surfaces, cache, save, turn>> /\ comp' = [comp EXCEPT ![c].pc = "marked"]
    BY <1>6 DEF MarkFailed
  <2>2. DOMAIN rows' = Checkpoints /\ \A d \in Checkpoints : rows[d] = "completed" => rows'[d] = "completed"
    BY <1>6 DEF MarkFailed, Failed
  <2> QED
    BY <2>1, <2>2
<1>7. CASE RollBack(c)
  BY <1>7 DEF RollBack, db, Over, Idle
<1> QED
  BY <1>1, <1>2, <1>3, <1>4, <1>5, <1>6, <1>7 DEF CommitStep

(* The other steps of a compaction, of a turn, a reset and a restart.      *)
LEMMA OtherKeeps ==
  ASSUME IInv,
         \/ AddMessage \/ SendMessage \/ TurnEnds \/ Reset \/ Restart
         \/ \E c \in Checkpoints : Plan(c) \/ AbandonPlan(c) \/ InsertPlanned(c) \/ InsertMidLoop(c)
                                   \/ CommitTimesOut(c)
  PROVE  IInv'
<1> USE DEF db, Idle, Over
<1>1. Certified(NoSurface) /\ Certified(Forgotten)
  BY DEF Certified, NoSurface, Forgotten
<1>2. CASE AddMessage \/ SendMessage \/ TurnEnds
  <2>1. UNCHANGED <<rows, surfaces, cache, save, comp>>
    BY <1>2 DEF AddMessage, SendMessage, TurnEnds
  <2>2. {"pc", "got", "gen", "ahead"} \subseteq DOMAIN turn' /\ (turn'.got = turn.got \/ turn'.got = NoSurface)
    <3>1. CASE AddMessage
      BY <3>1 DEF AddMessage, CallsShaped, IInv
    <3>2. CASE SendMessage
      BY <3>2 DEF SendMessage
    <3>3. CASE TurnEnds
      BY <3>3 DEF TurnEnds
    <3> QED
      BY <1>2, <3>1, <3>2, <3>3
  <2> QED
    BY <1>1, <2>1, <2>2 DEF CallsShaped, IInv, Trusted, Certified
<1>3. CASE Reset
  BY <1>1, <1>3 DEF Reset, CallsShaped, IInv, Trusted, Certified
<1>4. CASE Restart
  <2>1. \A c \in Checkpoints : comp'[c] = Idle \/ comp'[c] = Over
    BY <1>4 DEF Restart
  <2> QED
    BY <1>1, <1>4, <2>1 DEF Restart, CallsShaped, IInv, Trusted, Certified
<1>5. ASSUME NEW c \in Checkpoints, Plan(c) PROVE IInv'
  <2>1. Certified(cache') /\ UNCHANGED <<rows, surfaces, save, turn>>
    BY <1>5, LoadCertified DEF Plan, CallsShaped, IInv
  <2>2. \A d \in Checkpoints : comp'[d] = comp[d] \/ comp'[d].pc = "planned"
    BY <1>5 DEF Plan, CallsShaped, IInv
  <2>3. CallsShaped'
    BY <1>5 DEF Plan, CallsShaped, IInv
  <2> QED
    BY <2>1, <2>2, <2>3 DEF CallsShaped, IInv, Trusted, Certified
<1>6. ASSUME NEW c \in Checkpoints, AbandonPlan(c) \/ CommitTimesOut(c) PROVE IInv'
  BY <1>6 DEF AbandonPlan, CommitTimesOut, CallsShaped, IInv, Trusted, Certified
<1>7. ASSUME NEW c \in Checkpoints, InsertPlanned(c) \/ InsertMidLoop(c) PROVE IInv'
  <2>1. PICK gen, k : Insert(c, gen, k)
    BY <1>7 DEF InsertPlanned, InsertMidLoop
  <2>2. UNCHANGED <<rows, surfaces, cache, save>> /\ (turn' = turn \/ turn' = [turn EXCEPT !.cut = c])
    BY <1>7 DEF InsertPlanned, InsertMidLoop
  <2>3. \A d \in Checkpoints : comp'[d] = comp[d] \/ comp'[d].pc = "waiting"
    BY <2>1 DEF Insert, CallsShaped, IInv
  <2>4. CallsShaped'
    BY <2>1 DEF Insert, CallsShaped, IInv
  <2> QED
    BY <2>2, <2>3, <2>4 DEF CallsShaped, IInv, Trusted, Certified
<1> QED
  BY <1>2, <1>3, <1>4, <1>5, <1>6, <1>7

LEMMA IInvNext == IInv /\ [Next]_vars => IInv'
<1>1. IInv /\ Next => IInv'
  BY SaveKeeps, HydrateKeeps, CommitKeeps, OtherKeeps DEF Next
<1>2. IInv /\ UNCHANGED vars => IInv'
  BY DEF CallsShaped, IInv, Trusted, Certified, vars
<1> QED
  BY <1>1, <1>2

-----------------------------------------------------------------------------
(* The compaction a stored generation belongs to is recorded as completed, *)
(* however its reply was lost and whoever marked it: FailedNotServed.      *)
THEOREM FailedNotServedHolds == Spec => []FailedNotServed
<1>1. IInv => FailedNotServed
  BY DEF CallsShaped, IInv, Certified, FailedNotServed
<1> QED
  BY <1>1, IInvInit, IInvNext, PTL DEF Spec

-----------------------------------------------------------------------------
(* The cache is not behind the tables: the promise of surfaceCache when    *)
(* turns and compactions keep out of each other's way and no commit landed *)
(* unseen.                                                                 *)

Serial == Calm(Overlaps \cup {"reset"}) /\ Learned

(* A surface's parent is the generation before it.                         *)
Numbered(s) ==
  /\ {"gen", "parent", "cid", "nodes"} \subseteq DOMAIN s
  /\ s.gen \in Nat \cup {NoGen}
  /\ s.parent = NoGen \/ (s.gen \in Nat /\ s.parent = s.gen - 1)

(* No generation in the tables is later than that of s.                    *)
Dominates(s) == \A t \in surfaces : t.gen <= SourceOf(s)

Active(c) == comp[c].pc \notin {"idle", "over"}

(* Where the actors stand to each other: one compaction at a time, one of  *)
(* the worker inside its turn, any other between turns; and whoever waits  *)
(* for the save queue has the whole queue ahead, so that a commit and a    *)
(* turn's hydration find it empty.                                         *)
Alone ==
  /\ late = {}
  /\ \A c, d \in Checkpoints : Active(c) /\ Active(d) => c = d
  /\ \A c \in Checkpoints : Active(c) =>
       IF comp[c].gen = Unset THEN turn.pc = "running" /\ comp[c].pc # "planned" ELSE turn.pc = "idle"
  /\ \E S : queue \in Seq(S)
  /\ save.pc # "idle" => queue # <<>>
  /\ \A c \in Checkpoints :
       /\ comp[c].pc = "waiting" => comp[c].ahead = Len(queue)
       /\ Pending(c) /\ comp[c].pc # "waiting" => queue = <<>>
  /\ turn.pc = "waiting" => turn.ahead = Len(queue)
  /\ turn.pc \notin {"idle", "waiting", "running"} => queue = <<>>

(* The generations are numbered without a loser: there is a last one.      *)
TablesNumbered ==
  /\ \A s \in surfaces : Numbered(s) /\ s.gen \in Nat
  /\ surfaces # {} => \E s \in surfaces : \A t \in surfaces : t.gen <= s.gen

(* No commit's reply was lost.                                             *)
Replied == Calm({"commit lost"})

(* A commit of this compaction may be in the tables and not in the cache.  *)
Unseen(c) ==
  comp[c].pc \in {"returned", "verified"} \/ (comp[c].pc = "rejected" /\ ~Replied)

(* Whoever holds a surface that will go into the cache holds the latest;   *)
(* the cache itself is behind only while a commit's outcome is unknown,    *)
(* and a rejected call is known to have had no effect if no reply was lost. *)
Latest ==
  /\ TablesNumbered
  /\ cache # Forgotten => Numbered(cache)
  /\ save.pc \in {"loaded", "saved"} => Numbered(save.got) /\ Dominates(save.got)
  /\ \A c \in Checkpoints :
       comp[c].pc \in {"read", "returned", "verified"} => Numbered(comp[c].got) /\ Dominates(comp[c].got)
  /\ turn.pc \in {"loaded", "discarded", "rebuilt"} => Numbered(turn.got) /\ Dominates(turn.got)
  /\ turn.pc = "parent" /\ turn.got.gen # NoGen =>
       turn.got \in surfaces /\ turn.gen = turn.got.gen + 1
  /\ turn.pc = "emptied" => turn.got.gen = 0 /\ Numbered(turn.got) /\ surfaces = {}
  /\ cache # Forgotten /\ (\A c \in Checkpoints : ~Unseen(c)) => Dominates(cache)

CacheInv == Serial => Alone /\ Latest

(* What disturbed the session is never forgotten.                          *)
LEMMA Undisturbed ==
  ASSUME [Next]_vars, NEW kinds, Calm(kinds)'
  PROVE  Calm(kinds)
<1>1. \A d : Happens(d) => upset \subseteq upset'
  BY DEF Happens
<1>2. upset \subseteq upset'
  <2>1. CASE SaveStep
    <3>1. \A s : MaintainWith(s) => upset \subseteq upset' \/ UNCHANGED upset
      BY <1>1 DEF MaintainWith
    <3> QED
      BY <1>1, <2>1, <3>1 DEF SaveStep, SaveArchive, Maintain, MaintainLoaded, Maintained
  <2>2. CASE HydrateStep
    BY <1>1, <2>2 DEF HydrateStep, Hydrate, HydrateLoaded, FallBackToParent, ParentIncomplete,
       TakeParent, DiscardAll, RebuildGenerationZero, TakeRebuilt
  <2>3. CASE \E c \in Checkpoints : CommitStep(c)
    BY <1>1, <2>3 DEF CommitStep, ReadSource, CommitTransaction, CommitReturned, Verify, TakeVerdict,
       MarkFailed, RollBack
  <2>4. CASE \E c \in Checkpoints : Plan(c) \/ AbandonPlan(c) \/ InsertPlanned(c)
                                    \/ InsertMidLoop(c) \/ CommitTimesOut(c)
    BY <1>1, <2>4 DEF Plan, AbandonPlan, InsertPlanned, InsertMidLoop, CommitTimesOut
  <2>5. CASE AddMessage \/ SendMessage \/ TurnEnds \/ Reset \/ Restart
    BY <1>1, <2>5 DEF AddMessage, SendMessage, TurnEnds, Reset, Restart
  <2>6. CASE UNCHANGED vars
    BY <2>6 DEF vars
  <2> QED
    BY <2>1, <2>2, <2>3, <2>4, <2>5, <2>6 DEF Next
<1> QED
  BY <1>2 DEF Calm

LEMMA StillSerial ==
  ASSUME [Next]_vars, Serial'
  PROVE  Serial
BY Undisturbed DEF Serial, Learned

LEMMA NoDisturbance ==
  ASSUME Serial', NEW d, Happens(d)
  PROVE  /\ d \notin Overlaps \cup {"reset"}
         /\ d = "load refused" => Replied'
         /\ d = "commit lost" => ~Replied'
<1>1. PICK n : <<d, n>> \in upset'
  BY DEF Happens
<1>2. <<d, n>>[1] = d
  OBVIOUS
<1> QED
  BY <1>1, <1>2 DEF Serial, Learned, Replied, Calm

LEMMA LoadIsLatest ==
  ASSUME TablesNumbered
  PROVE  /\ Numbered(LoadLatest) /\ Dominates(LoadLatest)
         /\ \A g : Load(g).gen # NoGen => Load(g) \in surfaces /\ Load(g).gen = g
<1> DEFINE Top == {s \in surfaces : \A t \in surfaces : t.gen <= s.gen}
<1>1. Numbered(NoSurface) /\ NoSurface.gen = NoGen /\ SourceOf(NoSurface) = 0
  BY DEF Numbered, NoSurface, NoGen, SourceOf
<1>2. Numbered(LoadLatest) /\ Dominates(LoadLatest)
  <2>1. CASE surfaces = {}
    <3>1. LoadLatest = NoSurface
      BY <2>1 DEF LoadLatest, OneOf
    <3> QED
      BY <1>1, <2>1, <3>1 DEF Dominates
  <2>2. CASE surfaces # {}
    <3>1. Top # {}
      BY <2>2 DEF TablesNumbered
    <3>2. LoadLatest \in Top
      BY <3>1 DEF LoadLatest, OneOf
    <3> QED
      BY <3>2 DEF TablesNumbered, Dominates, SourceOf, NoGen
  <2> QED
    BY <2>1, <2>2
<1>3. ASSUME NEW g, Load(g).gen # NoGen PROVE Load(g) \in surfaces /\ Load(g).gen = g
  <2>1. {s \in surfaces : s.gen = g} # {}
    BY <1>1, <1>3 DEF Load, OneOf
  <2> QED
    BY <2>1 DEF Load, OneOf
<1> QED
  BY <1>2, <1>3

LEMMA SavedIsLatest ==
  ASSUME TablesNumbered, NEW s, Numbered(s), s.gen \in Nat, Dominates(s)
  PROVE  /\ \A t \in Saved(s) : Numbered(t) /\ t.gen \in Nat /\ t.gen <= s.gen
         /\ \E t \in Saved(s) : t.gen = s.gen
<1>0. SourceOf(s) = s.gen
  BY DEF SourceOf, NoGen
<1>1. CASE \E t \in surfaces : t.gen = s.gen
  <2> DEFINE New(t) == IF t.gen = s.gen THEN [t EXCEPT !.nodes = s.nodes] ELSE t
  <2>1. \A t \in surfaces : New(t).gen = t.gen /\ Numbered(New(t))
    BY DEF TablesNumbered, Numbered
  <2>2. Saved(s) = {New(t) : t \in surfaces}
    BY <1>1 DEF Saved
  <2> HIDE DEF New
  <2> QED
    BY <1>0, <1>1, <2>1, <2>2 DEF TablesNumbered, Dominates
<1>2. CASE ~\E t \in surfaces : t.gen = s.gen
  <2>1. Saved(s) = surfaces \cup {s}
    BY <1>2 DEF Saved
  <2> QED
    BY <1>0, <2>1 DEF TablesNumbered, Dominates
<1> QED
  BY <1>1, <1>2

(* The queue grows and shrinks by one job.                                 *)
LEMMA QueueSteps ==
  ASSUME NEW S, queue \in Seq(S)
  PROVE  /\ queue # <<>> /\ queue' = Tail(queue) => queue' \in Seq(S) /\ Len(queue') = Len(queue) - 1
         /\ \A ms : Enqueue(ms) => (\E T : queue' \in Seq(T)) /\ Len(queue') = Len(queue) + 1 /\ queue' # <<>>
         /\ Len(queue) \in Nat /\ (Len(queue) = 0 <=> queue = <<>>)
<1>1. queue # <<>> /\ queue' = Tail(queue) => queue' \in Seq(S) /\ Len(queue') = Len(queue) - 1
  OBVIOUS
<1>2. ASSUME NEW ms, Enqueue(ms)
      PROVE  (\E T : queue' \in Seq(T)) /\ Len(queue') = Len(queue) + 1 /\ queue' # <<>>
  <2>1. queue \in Seq(S \cup {ms})
    OBVIOUS
  <2>2. queue' = Append(queue, ms)
    BY <1>2 DEF Enqueue
  <2>3. queue' \in Seq(S \cup {ms}) /\ Len(queue') = Len(queue) + 1
    BY <2>1, <2>2
  <2> QED
    BY <2>3
<1>3. Len(queue) \in Nat /\ (Len(queue) = 0 <=> queue = <<>>)
  OBVIOUS
<1> QED
  BY <1>1, <1>2, <1>3

(* The end of a job: whoever waits for the queue counts it.                *)
LEMMA JobDoneAlone ==
  ASSUME IInv, Alone, save.pc # "idle", JobDone, UNCHANGED late
  PROVE  /\ Alone'
         /\ save'.pc = "idle" /\ turn'.pc = turn.pc
         /\ turn.pc \in {"idle", "waiting", "running"}
         /\ \A c \in Checkpoints : /\ comp[c].pc \in {"idle", "over", "planned", "waiting"}
                                   /\ comp'[c].pc = comp[c].pc
<1>1. /\ queue' = Tail(queue) /\ save' = [pc |-> "idle", got |-> NoSurface]
      /\ turn' = [turn EXCEPT !.ahead = Less(@)]
      /\ comp' = [c \in Checkpoints |-> [comp[c] EXCEPT !.ahead = Less(@)]]
  BY DEF JobDone
<1>2. PICK S : queue \in Seq(S)
  BY DEF Alone
<1>3. queue # <<>>
  BY DEF Alone
<1>4. queue' \in Seq(S) /\ Len(queue') = Len(queue) - 1 /\ Len(queue) \in Nat /\ Len(queue) > 0
  BY <1>1, <1>2, <1>3, QueueSteps
<1>5. Less(Len(queue)) = Len(queue')
  BY <1>4 DEF Less
<1>6. \A c \in Checkpoints :
        /\ comp'[c].pc = comp[c].pc /\ comp'[c].gen = comp[c].gen
        /\ comp[c].pc = "waiting" => comp'[c].ahead = Len(queue')
  BY <1>1, <1>5 DEF Alone, IInv, CallsShaped
<1>7. turn'.pc = turn.pc /\ (turn.pc = "waiting" => turn'.ahead = Len(queue'))
  BY <1>1, <1>5 DEF Alone, IInv
<1>8. save'.pc = "idle"
  BY <1>1
<1>9. /\ \A c \in Checkpoints : comp[c].pc \in {"idle", "over", "planned", "waiting"}
      /\ turn.pc \in {"idle", "waiting", "running"}
  BY <1>3 DEF Alone, Pending
<1>10. Alone'
  BY <1>4, <1>6, <1>7, <1>8, <1>9 DEF Alone, Active, Pending
<1> QED
  BY <1>6, <1>7, <1>8, <1>9, <1>10

(* A job of the save queue runs on the latest generation.                  *)
LEMMA MaintainLatest ==
  ASSUME IInv, Serial', Alone, Latest,
         queue # <<>>, save.pc # "idle",
         NEW s, Numbered(s), Dominates(s), MaintainWith(s),
         cache' = s, UNCHANGED late
  PROVE  Alone' /\ Latest'
<1>0. PICK new : new = [gen |-> IF s.gen = NoGen THEN 0 ELSE s.gen, parent |-> s.parent,
                        cid |-> s.cid, nodes |-> Projection(s, Head(queue))]
  OBVIOUS
<1>1. /\ Numbered(new) /\ new.gen \in Nat /\ Dominates(new)
      /\ SourceOf(new) = new.gen /\ SourceOf(s) = new.gen
  BY <1>0 DEF Numbered, Dominates, SourceOf, NoGen
<1>2. /\ surfaces' = surfaces \/ surfaces' = Saved(new)
      /\ JobDone \/ (save' = [pc |-> "saved", got |-> new] /\ UNCHANGED <<queue, comp, turn>>
                     /\ surfaces' = Saved(new))
  BY <1>0 DEF MaintainWith
<1>3. TablesNumbered' /\ Dominates(s)' /\ Dominates(new)'
  <2>1. CASE surfaces' = surfaces
    BY <1>1, <2>1 DEF Latest, TablesNumbered, Numbered, Dominates
  <2>2. CASE surfaces' = Saved(new)
    BY <1>1, <2>2, SavedIsLatest DEF Latest, TablesNumbered, Numbered, Dominates
  <2> QED
    BY <1>2, <2>1, <2>2
<1>4. /\ \A c \in Checkpoints : comp[c].pc \in {"idle", "over", "planned", "waiting"}
      /\ turn.pc \in {"idle", "waiting", "running"}
  BY DEF Alone, Pending
<1>5. CASE JobDone
  <2>1. Alone' /\ save'.pc = "idle" /\ turn'.pc = turn.pc /\ \A c \in Checkpoints : comp'[c].pc = comp[c].pc
    BY <1>5, JobDoneAlone
  <2>2. Latest'
    BY <1>3, <1>4, <2>1 DEF Latest
  <2> QED
    BY <2>1, <2>2
<1>6. CASE save' = [pc |-> "saved", got |-> new] /\ UNCHANGED <<queue, comp, turn>>
  <2>1. save'.pc = "saved" /\ save'.got = new /\ Numbered(save'.got) /\ Dominates(save.got)'
    BY <1>1, <1>3, <1>6 DEF Numbered, Dominates
  <2>2. Alone'
    BY <1>6, <2>1 DEF Alone, Active, Pending
  <2>3. Latest'
    BY <1>3, <1>4, <1>6, <2>1 DEF Latest
  <2> QED
    BY <2>2, <2>3
<1> QED
  BY <1>2, <1>5, <1>6

LEMMA SaveLatest ==
  ASSUME IInv, Serial', Alone, Latest, Replied' => Replied, SaveStep
  PROVE  Alone' /\ Latest'
<1>1. CASE SaveArchive
  <2>1. /\ save' = [save EXCEPT !.pc = "archived"] /\ save.pc = "idle" /\ queue # <<>>
        /\ UNCHANGED <<surfaces, cache, queue, comp, turn, late>>
    BY <1>1 DEF SaveArchive
  <2>2. save'.pc = "archived"
    BY <2>1 DEF IInv
  <2>3. Alone'
    BY <2>1, <2>2 DEF Alone, Active, Pending
  <2>4. Latest'
    BY <2>1, <2>2 DEF Latest, TablesNumbered, Dominates, Unseen
  <2> QED
    BY <2>3, <2>4
<1>2. CASE Maintain
  <2>1. save.pc = "archived" /\ queue # <<>> /\ UNCHANGED <<cache, late>>
    BY <1>2 DEF Maintain, Alone
  <2>2. CASE cache = Forgotten
    <3>1. UNCHANGED surfaces
      BY <1>2, <2>2 DEF Maintain
    <3>2. CASE save' = [pc |-> "loaded", got |-> LoadLatest] /\ UNCHANGED <<queue, comp, turn>>
      <4>1. save'.pc = "loaded" /\ save'.got = LoadLatest
        BY <3>2
      <4>2. Numbered(LoadLatest) /\ Dominates(LoadLatest)
        BY LoadIsLatest DEF Latest
      <4>3. Alone'
        BY <2>1, <3>2, <4>1 DEF Alone, Active, Pending
      <4>4. Latest'
        BY <2>1, <2>2, <3>1, <3>2, <4>1, <4>2 DEF Latest, TablesNumbered, Dominates
      <4> QED
        BY <4>3, <4>4
    <3>3. CASE JobDone
      <4>1. /\ Alone' /\ save'.pc = "idle" /\ turn'.pc = turn.pc
            /\ turn.pc \in {"idle", "waiting", "running"}
            /\ \A c \in Checkpoints : comp[c].pc \in {"idle", "over", "planned", "waiting"} /\ comp'[c].pc = comp[c].pc
        BY <2>1, <3>3, JobDoneAlone
      <4>2. Latest'
        BY <2>1, <2>2, <3>1, <4>1 DEF Latest, TablesNumbered, Dominates
      <4> QED
        BY <4>1, <4>2
    <3> QED
      BY <1>2, <2>2, <3>2, <3>3 DEF Maintain
  <2>3. CASE cache # Forgotten
    <3>1. \A c \in Checkpoints : ~Unseen(c)
      BY <2>1 DEF Alone, Pending, Unseen
    <3>2. Numbered(cache) /\ Dominates(cache) /\ MaintainWith(cache)
      BY <1>2, <2>3, <3>1 DEF Maintain, Latest
    <3> QED
      BY <2>1, <3>2, MaintainLatest
  <2> QED
    BY <2>2, <2>3
<1>3. CASE MaintainLoaded
  <2>1. save.pc = "loaded" /\ queue # <<>> /\ UNCHANGED late /\ cache' = save.got /\ MaintainWith(save.got)
    BY <1>3 DEF MaintainLoaded, Alone
  <2>2. Numbered(save.got) /\ Dominates(save.got)
    BY <2>1 DEF Latest
  <2> QED
    BY <2>1, <2>2, MaintainLatest
<1>4. CASE Maintained
  <2>1. /\ save.pc = "saved" /\ UNCHANGED <<surfaces, late>> /\ cache' = save.got /\ JobDone
        /\ Numbered(save.got) /\ Dominates(save.got)
    BY <1>4 DEF Maintained, Remember, Latest
  <2>2. /\ Alone' /\ save'.pc = "idle" /\ turn'.pc = turn.pc
        /\ turn.pc \in {"idle", "waiting", "running"}
        /\ \A c \in Checkpoints : comp[c].pc \in {"idle", "over", "planned", "waiting"} /\ comp'[c].pc = comp[c].pc
    BY <2>1, JobDoneAlone
  <2>3. Latest'
    BY <2>1, <2>2 DEF Latest, TablesNumbered, Dominates
  <2> QED
    BY <2>2, <2>3
<1> QED
  BY <1>1, <1>2, <1>3, <1>4 DEF SaveStep

(* A turn's hydration: no compaction is under way.                         *)
LEMMA HydrateLatest ==
  ASSUME IInv, Serial', Alone, Latest, Replied' => Replied, HydrateStep
  PROVE  Alone' /\ Latest'
<1>1. UNCHANGED <<queue, save, comp, late>>
  BY DEF HydrateStep, Hydrate, HydrateLoaded, FallBackToParent, ParentIncomplete, TakeParent,
     DiscardAll, RebuildGenerationZero, TakeRebuilt
<1>2. turn.pc \notin {"idle", "running"} /\ queue = <<>>
  <2>1. turn.pc \notin {"idle", "running"} /\ (turn.pc = "waiting" => turn.ahead = 0)
    BY DEF HydrateStep, Hydrate, HydrateLoaded, FallBackToParent, ParentIncomplete, TakeParent,
       DiscardAll, RebuildGenerationZero, TakeRebuilt
  <2>2. PICK S : queue \in Seq(S)
    BY DEF Alone
  <2> QED
    BY <2>1, <2>2, QueueSteps DEF Alone
<1>3. save.pc = "idle" /\ \A c \in Checkpoints : ~Active(c)
  BY <1>2 DEF Alone
<1>0. \A c \in Checkpoints : ~Unseen(c)
  BY <1>3 DEF Active, Unseen
<1>4. ASSUME turn'.pc # "waiting" PROVE Alone'
  BY <1>1, <1>2, <1>3, <1>4 DEF Alone, Active, Pending
<1>5. ASSUME NEW nodes, Got(nodes) PROVE turn'.pc = "running"
  BY <1>5 DEF Got, Idle
<1>6. ASSUME TablesNumbered', cache' # Forgotten => Numbered(cache)' /\ Dominates(cache)', turn'.pc = "running"
      PROVE  Alone' /\ Latest'
  BY <1>1, <1>3, <1>4, <1>6 DEF Latest, Active
<1>7. ASSUME NEW s, Numbered(s), Dominates(s), cache' = s, HydrateWith(s), UNCHANGED surfaces
      PROVE  Alone' /\ Latest'
  <2>1. TablesNumbered' /\ Numbered(cache') /\ Dominates(cache)'
    BY <1>7 DEF Latest, TablesNumbered, Dominates
  <2>2. CASE turn' = [turn EXCEPT !.pc = "parent", !.got = Load(s.parent), !.gen = s.gen]
                /\ s.parent # NoGen
    <3>1. turn'.pc = "parent" /\ turn'.got = Load(s.parent) /\ turn'.gen = s.gen
      BY <2>2 DEF IInv
    <3>2. s.gen \in Nat /\ s.parent = s.gen - 1
      BY <1>7, <2>2 DEF Numbered
    <3>3. Load(s.parent).gen # NoGen => Load(s.parent) \in surfaces /\ s.gen = Load(s.parent).gen + 1
      BY <3>2, LoadIsLatest DEF Latest
    <3>4. Latest'
      BY <1>1, <1>3, <1>7, <2>1, <3>1, <3>3 DEF Latest, Active
    <3> QED
      BY <1>4, <3>1, <3>4
  <2>3. CASE turn' = [turn EXCEPT !.pc = "rebuild"]
    <3>1. turn'.pc = "rebuild"
      BY <2>3 DEF IInv
    <3>2. Latest'
      BY <1>1, <1>3, <1>7, <2>1, <3>1 DEF Latest, Active
    <3> QED
      BY <1>4, <3>1, <3>2
  <2>4. CASE \E nodes : Got(nodes)
    BY <1>5, <1>6, <2>1, <2>4
  <2> QED
    BY <1>7, <2>2, <2>3, <2>4 DEF HydrateWith
<1>8. CASE Hydrate
  <2>1. UNCHANGED <<surfaces, cache>> /\ turn.pc = "waiting"
    BY <1>8 DEF Hydrate, db
  <2>2. CASE cache = Forgotten
    <3>1. CASE turn' = [turn EXCEPT !.pc = "loaded", !.got = LoadLatest]
      <4>1. turn'.pc = "loaded" /\ turn'.got = LoadLatest
        BY <3>1 DEF IInv
      <4>2. Numbered(LoadLatest) /\ Dominates(LoadLatest)
        BY LoadIsLatest DEF Latest
      <4>3. Latest'
        BY <1>1, <1>3, <2>1, <2>2, <4>1, <4>2 DEF Latest, Active, TablesNumbered, Dominates
      <4> QED
        BY <1>4, <4>1, <4>3
    <3>2. CASE Got(IdsOf(live))
      <4>1. TablesNumbered' /\ cache' = Forgotten /\ turn'.pc = "running"
        BY <1>5, <2>1, <2>2, <3>2 DEF Latest, TablesNumbered
      <4> QED
        BY <1>6, <4>1
    <3> QED
      BY <1>8, <2>2, <3>1, <3>2 DEF Hydrate
  <2>3. CASE cache # Forgotten
    <3>1. HydrateWith(cache)
      BY <1>8, <2>3 DEF Hydrate
    <3>2. Numbered(cache) /\ Dominates(cache)
      BY <1>3, <2>3 DEF Latest, Active, Unseen
    <3> QED
      BY <1>7, <2>1, <3>1, <3>2
  <2> QED
    BY <2>2, <2>3
<1>9. CASE HydrateLoaded
  BY <1>7, <1>9 DEF HydrateLoaded, Latest, db
<1>10. CASE FallBackToParent
  <2>1. /\ turn.pc = "parent" /\ turn.got.gen # NoGen
        /\ surfaces' = {s \in surfaces : s.gen < turn.gen} /\ UNCHANGED cache
        /\ turn' = [turn EXCEPT !.pc = "discarded"]
    BY <1>10 DEF FallBackToParent
  <2>2. turn'.pc = "discarded" /\ turn'.got = turn.got
    BY <2>1 DEF IInv
  <2>3. turn.got \in surfaces /\ turn.gen = turn.got.gen + 1
    BY <2>1 DEF Latest
  <2>4. Numbered(turn.got) /\ turn.got.gen \in Nat /\ \A s \in surfaces : s.gen \in Nat
    BY <2>3 DEF Latest, TablesNumbered
  <2>5. turn.got \in surfaces' /\ \A s \in surfaces' : s \in surfaces /\ s.gen <= turn.got.gen
    BY <2>1, <2>3, <2>4
  <2>6. TablesNumbered' /\ Dominates(turn.got)'
    BY <2>2, <2>4, <2>5 DEF Latest, TablesNumbered, Numbered, Dominates, SourceOf, NoGen
  <2>7. cache # Forgotten => Numbered(cache) /\ Dominates(cache)'
    BY <1>3, <2>1, <2>5 DEF Latest, Active, Dominates, Unseen
  <2>8. Latest'
    BY <1>1, <1>3, <2>1, <2>2, <2>4, <2>6, <2>7 DEF Latest, Active
  <2> QED
    BY <1>4, <2>2, <2>8
<1>11. CASE ParentIncomplete
  <2>1. turn'.pc = "rebuild" /\ UNCHANGED <<surfaces, cache>>
    BY <1>11 DEF ParentIncomplete, IInv, db
  <2>2. Latest'
    BY <1>1, <1>3, <2>1 DEF Latest, TablesNumbered, Dominates, Unseen
  <2> QED
    BY <1>4, <2>1, <2>2
<1>12. CASE TakeParent
  BY <1>5, <1>6, <1>12 DEF TakeParent, Latest, TablesNumbered, Dominates, db
<1>13. CASE DiscardAll
  <2>1. /\ turn' = [turn EXCEPT !.pc = "emptied",
                          !.got = [NoSurface EXCEPT !.gen = 0, !.nodes = ComputeSurfaceNodes(live)]]
        /\ surfaces' = {} /\ UNCHANGED cache
    BY <1>13 DEF DiscardAll
  <2>2. turn'.pc = "emptied" /\ turn'.got = [NoSurface EXCEPT !.gen = 0, !.nodes = ComputeSurfaceNodes(live)]
    BY <2>1 DEF IInv
  <2>3. turn'.got.gen = 0 /\ Numbered(turn'.got)
    BY <2>2 DEF NoSurface, Numbered
  <2>4. Latest'
    BY <1>1, <1>3, <2>1, <2>2, <2>3 DEF Latest, TablesNumbered, Dominates
  <2> QED
    BY <1>4, <2>2, <2>4
<1>14. CASE RebuildGenerationZero
  <2>1. /\ turn.pc = "emptied" /\ surfaces' = Saved(turn.got) /\ UNCHANGED cache
        /\ turn' = [turn EXCEPT !.pc = "rebuilt"]
    BY <1>14 DEF RebuildGenerationZero
  <2>2. turn'.pc = "rebuilt" /\ turn'.got = turn.got
    BY <2>1 DEF IInv
  <2>3. turn.got.gen = 0 /\ Numbered(turn.got) /\ surfaces' = {turn.got}
    BY <2>1 DEF Latest, Saved
  <2>4. TablesNumbered' /\ Dominates(turn.got)'
    BY <2>2, <2>3 DEF TablesNumbered, Dominates, Numbered, SourceOf, NoGen
  <2>5. cache # Forgotten => Numbered(cache) /\ Dominates(cache)'
    BY <2>1, <2>3 DEF Latest, Dominates, Numbered, SourceOf, NoGen
  <2>6. Latest'
    BY <1>1, <1>3, <2>1, <2>2, <2>3, <2>4, <2>5 DEF Latest, Active
  <2> QED
    BY <1>4, <2>2, <2>6
<1>15. CASE TakeRebuilt
  BY <1>5, <1>6, <1>15 DEF TakeRebuilt, Latest, TablesNumbered, Dominates, db
<1> QED
  BY <1>8, <1>9, <1>10, <1>11, <1>12, <1>13, <1>14, <1>15 DEF HydrateStep

(* A commit reads the latest generation past the cache, and is the only    *)
(* one who may add one.                                                    *)
LEMMA CommitLatest ==
  ASSUME IInv, Serial', Alone, Latest, Replied' => Replied, NEW c \in Checkpoints, CommitStep(c)
  PROVE  Alone' /\ Latest'
<1> USE DEF IInv, CallsShaped
<1>1. /\ UNCHANGED <<save, late>>
      /\ comp[c].pc \in {"waiting", "read", "returned", "rejected", "verified", "failing", "marked"}
  BY DEF CommitStep, ReadSource, CommitTransaction, CommitReturned, Verify, TakeVerdict, MarkFailed, RollBack, db
<1>2. queue = <<>>
  <2>1. CASE comp[c].pc = "waiting"
    <3>1. comp[c].ahead = 0
      BY <2>1 DEF CommitStep, ReadSource, CommitTransaction, CommitReturned, Verify, TakeVerdict, MarkFailed, RollBack
    <3>2. PICK S : queue \in Seq(S)
      BY DEF Alone
    <3> QED
      BY <2>1, <3>1, <3>2, QueueSteps DEF Alone
  <2>2. CASE comp[c].pc # "waiting"
    BY <1>1, <2>2 DEF Alone, Pending
  <2> QED
    BY <2>1, <2>2
<1>3. /\ save.pc = "idle" /\ turn.pc \in {"idle", "running"}
      /\ \A d \in Checkpoints : d # c => ~Active(d)
  BY <1>1, <1>2 DEF Alone, Active
<1>4. ASSUME comp'[c].pc # "waiting", comp'[c].pc # "planned", comp'[c].pc # "idle",
             comp'[c].pc = "over" \/ comp'[c].gen = comp[c].gen,
             \A d \in Checkpoints : d # c => comp'[d] = comp[d],
             queue' = queue \/ (comp'[c].pc = "over" /\ \E S : queue' \in Seq(S)),
             turn'.pc = turn.pc
      PROVE  Alone'
  BY <1>1, <1>2, <1>3, <1>4 DEF Alone, Active, Pending
<1>5. CASE ReadSource(c)
  <2>1. /\ UNCHANGED <<surfaces, cache, queue, turn>>
        /\ \/ comp' = [comp EXCEPT ![c].pc = "read", ![c].got = LoadLatest]
           \/ comp' = [comp EXCEPT ![c].pc = "rejected"] /\ Replied'
    BY <1>5, NoDisturbance DEF ReadSource, db
  <2>2. /\ \/ comp'[c].pc = "read" /\ comp'[c].got = LoadLatest
           \/ comp'[c].pc = "rejected" /\ Replied'
        /\ comp'[c].gen = comp[c].gen
        /\ \A d \in Checkpoints : d # c => comp'[d] = comp[d]
    BY <2>1
  <2>3. Alone'
    BY <1>4, <2>1, <2>2
  <2>4. Numbered(LoadLatest) /\ Dominates(LoadLatest)
    BY LoadIsLatest DEF Latest
  <2>5. comp[c].pc = "waiting"
    BY <1>5 DEF ReadSource
  <2>6. Latest'
    BY <1>1, <1>3, <2>1, <2>2, <2>4, <2>5 DEF Latest, Active, TablesNumbered, Dominates, Unseen
  <2> QED
    BY <2>3, <2>6
<1>6. CASE CommitTransaction(c)
  <2>0. PICK new, how, r :
          /\ new = [gen |-> SourceOf(comp[c].got) + 1, parent |-> SourceOf(comp[c].got), cid |-> r,
                    nodes |-> ComputeSurfaceNodes(comp[c].msgs)]
          /\ surfaces' = surfaces \/ surfaces' = surfaces \cup {new}
          /\ surfaces' = surfaces \/ ~Replied' \/ (how = "answered" /\ r \in Completed')
          /\ comp' = [comp EXCEPT ![c].pc = IF how = "answered" /\ r \in Completed'
                                            THEN "returned" ELSE "rejected",
                                  ![c].got = new]
    <3> DEFINE r0 == Requested(c)
               new0 == [gen |-> SourceOf(comp[c].got) + 1, parent |-> SourceOf(comp[c].got), cid |-> r0,
                        nodes |-> ComputeSurfaceNodes(comp[c].msgs)]
    <3>1. PICK how \in {"answered", "commit refused", "commit lost"} :
            /\ how = "commit lost" => Happens(how)
            /\ \/ UNCHANGED <<surfaces, rows>>
               \/ /\ how # "commit refused" /\ Accepts(r0, SourceOf(comp[c].got))
                  /\ surfaces' = surfaces \cup {new0} /\ rows' = [rows EXCEPT ![r0] = "completed"]
            /\ comp' = [comp EXCEPT ![c].pc = IF how = "answered" /\ r0 \in Completed'
                                              THEN "returned" ELSE "rejected",
                                    ![c].got = new0]
      BY <1>6 DEF CommitTransaction
    <3>2. rows' = [rows EXCEPT ![r0] = "completed"] /\ Accepts(r0, SourceOf(comp[c].got)) => r0 \in Completed'
      BY DEF Completed, Accepts
    <3>3. how = "commit lost" => ~Replied'
      BY <3>1, NoDisturbance
    <3> HIDE DEF r0, new0
    <3>4. surfaces' = surfaces \/ ~Replied' \/ (how = "answered" /\ r0 \in Completed')
      BY <3>1, <3>2, <3>3
    <3> USE DEF r0, new0
    <3> QED
      BY <3>1, <3>4
  <2>1. UNCHANGED <<queue, turn>> /\ cache' = comp[c].got /\ comp[c].pc = "read"
    BY <1>6 DEF CommitTransaction
  <2>2. Numbered(comp[c].got) /\ Dominates(comp[c].got)
    BY <2>1 DEF Latest
  <2>3. /\ Numbered(new) /\ new.gen \in Nat /\ SourceOf(new) = new.gen
        /\ \A t \in surfaces : t.gen < new.gen
    BY <2>0, <2>2 DEF Numbered, SourceOf, NoGen, Dominates, Latest, TablesNumbered
  <2>4. /\ comp'[c].pc \in {"returned", "rejected"} /\ comp'[c].got = new /\ comp'[c].gen = comp[c].gen
        /\ \A d \in Checkpoints : d # c => comp'[d] = comp[d]
        /\ comp'[c].pc = "rejected" => surfaces' = surfaces \/ ~Replied'
    BY <2>0
  <2>5. Alone'
    BY <1>4, <2>1, <2>4
  <2>6. TablesNumbered' /\ \A t \in surfaces' : t.gen <= SourceOf(new)
    <3>1. CASE surfaces' = surfaces
      BY <2>3, <3>1 DEF TablesNumbered, Latest, Numbered
    <3>2. CASE surfaces' = surfaces \cup {new}
      BY <2>3, <3>2 DEF TablesNumbered, Latest, Numbered
    <3> QED
      BY <2>0, <3>1, <3>2
  <2>7. Latest'
    BY <1>1, <1>3, <2>1, <2>2, <2>3, <2>4, <2>6 DEF Latest, Active, Dominates, Unseen
  <2> QED
    BY <2>5, <2>7
<1>7. CASE CommitReturned(c)
  <2>1. /\ comp[c].pc = "returned" /\ comp' = [comp EXCEPT ![c] = Over] /\ cache' = comp[c].got
        /\ UNCHANGED <<surfaces, queue>>
    BY <1>7 DEF CommitReturned, Remember, db
  <2>2. turn'.pc = turn.pc /\ turn'.got = turn.got
    <3>1. turn' = turn \/ turn' = [turn EXCEPT !.head = c]
      BY <1>7 DEF CommitReturned
    <3> QED
      BY <3>1
  <2>3. comp'[c].pc = "over" /\ \A d \in Checkpoints : d # c => comp'[d] = comp[d]
    BY <2>1 DEF Over, Idle
  <2>4. Alone'
    BY <1>4, <2>1, <2>2, <2>3
  <2>5. Latest'
    BY <1>1, <1>3, <2>1, <2>2, <2>3 DEF Latest, Active, TablesNumbered, Dominates
  <2> QED
    BY <2>4, <2>5
<1>8. CASE Verify(c)
  <2>1. /\ UNCHANGED <<surfaces, cache, queue, turn>> /\ comp[c].pc = "rejected"
        /\ \/ comp' = [comp EXCEPT ![c].pc = "verified", ![c].got = LoadLatest]
           \/ comp' = [comp EXCEPT ![c].pc = "failing"] /\ Replied'
    BY <1>8, NoDisturbance DEF Verify, db
  <2>2. /\ \/ comp'[c].pc = "verified" /\ comp'[c].got = LoadLatest
           \/ comp'[c].pc = "failing" /\ Replied'
        /\ comp'[c].gen = comp[c].gen
        /\ \A d \in Checkpoints : d # c => comp'[d] = comp[d]
    BY <2>1
  <2>3. Alone'
    BY <1>4, <2>1, <2>2
  <2>4. Numbered(LoadLatest) /\ Dominates(LoadLatest)
    BY LoadIsLatest DEF Latest
  <2>5. Latest'
    BY <1>1, <1>3, <2>1, <2>2, <2>4 DEF Latest, Active, TablesNumbered, Dominates, Unseen
  <2> QED
    BY <2>3, <2>5
<1>9. CASE TakeVerdict(c)
  <2>1. /\ comp[c].pc = "verified" /\ cache' = comp[c].got /\ UNCHANGED <<surfaces, queue, turn>>
        /\ comp' = [comp EXCEPT ![c] = IF Landed(c) THEN Over ELSE [@ EXCEPT !.pc = "failing"]]
    BY <1>9 DEF TakeVerdict, Remember, db
  <2>2. /\ comp'[c].pc = "over" \/ (comp'[c].pc = "failing" /\ comp'[c].gen = comp[c].gen)
        /\ \A d \in Checkpoints : d # c => comp'[d] = comp[d]
    BY <2>1 DEF Over, Idle
  <2>3. Alone'
    BY <1>4, <2>1, <2>2
  <2>4. Latest'
    BY <1>1, <1>3, <2>1, <2>2 DEF Latest, Active, TablesNumbered, Dominates
  <2> QED
    BY <2>3, <2>4
<1>10. CASE MarkFailed(c)
  <2>1. comp[c].pc = "failing" /\ comp' = [comp EXCEPT ![c].pc = "marked"] /\ UNCHANGED <<surfaces, cache, queue, turn>>
    BY <1>10 DEF MarkFailed
  <2>2. /\ comp'[c].pc = "marked" /\ comp'[c].gen = comp[c].gen
        /\ \A d \in Checkpoints : d # c => comp'[d] = comp[d]
    BY <2>1
  <2>3. Alone'
    BY <1>4, <2>1, <2>2
  <2>4. Latest'
    BY <1>1, <1>3, <2>1, <2>2 DEF Latest, Active, TablesNumbered, Dominates, Unseen
  <2> QED
    BY <2>3, <2>4
<1>11. CASE RollBack(c)
  <2>1. /\ comp[c].pc = "marked" /\ comp' = [comp EXCEPT ![c] = Over] /\ Enqueue(live')
        /\ UNCHANGED <<surfaces, cache, turn>>
    BY <1>11 DEF RollBack, db
  <2>2. comp'[c].pc = "over" /\ \A d \in Checkpoints : d # c => comp'[d] = comp[d]
    BY <2>1 DEF Over, Idle
  <2>3. \E S : queue' \in Seq(S)
    <3>1. PICK S : queue \in Seq(S)
      BY DEF Alone
    <3> QED
      BY <2>1, <3>1, QueueSteps
  <2>4. Alone'
    BY <1>4, <2>1, <2>2, <2>3
  <2>5. Latest'
    BY <1>1, <1>3, <2>1, <2>2 DEF Latest, Active, TablesNumbered, Dominates, Unseen
  <2> QED
    BY <2>4, <2>5
<1> QED
  BY <1>5, <1>6, <1>7, <1>8, <1>9, <1>10, <1>11 DEF CommitStep

(* What keeps turns and compactions apart: each looks whether the other is *)
(* under way before it begins.                                             *)
LEMMA NobodyActive ==
  ASSUME Alone,
         \/ turn.pc = "running" /\ Asked = {}
         \/ turn.pc = "idle" /\ Planned = {}
  PROVE  \A c \in Checkpoints : ~Active(c)
<1> SUFFICES ASSUME NEW c \in Checkpoints, Active(c) PROVE FALSE
  OBVIOUS
<1>1. CASE comp[c].gen = Unset
  <2>1. turn.pc = "running" /\ c \in Asked
    BY <1>1 DEF Alone, Active, Asked, Pending
  <2> QED
    BY <2>1
<1>2. CASE comp[c].gen # Unset
  <2>1. turn.pc = "idle" /\ c \in Planned
    BY <1>2 DEF Alone, Active, Planned
  <2> QED
    BY <2>1
<1> QED
  BY <1>1, <1>2

LEMMA OtherLatest ==
  ASSUME IInv, Serial', Alone, Latest, Replied' => Replied,
         \/ AddMessage \/ SendMessage \/ TurnEnds \/ Reset \/ Restart
         \/ \E c \in Checkpoints : Plan(c) \/ AbandonPlan(c) \/ InsertPlanned(c) \/ InsertMidLoop(c)
                                   \/ CommitTimesOut(c)
  PROVE  Alone' /\ Latest'
<1>1. PICK S : queue \in Seq(S)
  BY DEF Alone
<1>2. \A ms : Enqueue(ms) => (\E T : queue' \in Seq(T)) /\ Len(queue') = Len(queue) + 1 /\ queue' # <<>>
  BY <1>1, QueueSteps
<1>3. ASSUME UNCHANGED <<surfaces, cache, save, comp>>, turn'.pc \in {"idle", "waiting", "running"}
      PROVE  Latest'
  BY <1>3 DEF Latest, TablesNumbered, Dominates, Unseen
<1>4. CASE AddMessage
  <2>1. UNCHANGED <<surfaces, cache, save, comp, turn, late>> /\ turn.pc = "running"
    BY <1>4 DEF AddMessage, db
  <2>2. \A c \in Checkpoints : ~Active(c)
    BY <1>4, NobodyActive DEF AddMessage
  <2>3. (\E T : queue' \in Seq(T)) /\ (queue # <<>> => queue' # <<>>)
    <3>1. Enqueue(live') \/ queue' = queue
      BY <1>4 DEF AddMessage
    <3> QED
      BY <1>1, <1>2, <3>1
  <2>4. Alone'
    BY <2>1, <2>2, <2>3 DEF Alone, Active, Pending
  <2> QED
    BY <1>3, <2>1, <2>4
<1>5. CASE SendMessage
  <2>1. /\ UNCHANGED <<surfaces, cache, save, comp, late>> /\ turn.pc = "idle"
        /\ turn' = [Idle EXCEPT !.pc = "waiting", !.ahead = Len(queue')]
    BY <1>5 DEF SendMessage, db
  <2>2. \A c \in Checkpoints : ~Active(c)
    <3>1. Planned = {}
      BY <1>5, NoDisturbance DEF SendMessage, Overlaps
    <3> QED
      BY <2>1, <3>1, NobodyActive
  <2>3. turn'.pc = "waiting" /\ turn'.ahead = Len(queue')
    BY <2>1 DEF Idle
  <2>4. (\E T : queue' \in Seq(T)) /\ queue' # <<>>
    BY <1>2, <1>5 DEF SendMessage
  <2>5. Alone'
    BY <2>1, <2>2, <2>3, <2>4 DEF Alone, Active, Pending
  <2> QED
    BY <1>3, <2>1, <2>3, <2>5
<1>6. CASE TurnEnds
  <2>1. Asked = {}
    BY <1>6, NoDisturbance DEF TurnEnds, Overlaps
  <2>2. /\ UNCHANGED <<surfaces, cache, save, comp>> /\ turn.pc = "running" /\ turn' = Idle
        /\ late' = late \cup Asked
    BY <1>6 DEF TurnEnds, db
  <2>3. \A c \in Checkpoints : ~Active(c)
    BY <2>1, <2>2, NobodyActive
  <2>4. turn'.pc = "idle" /\ late' = {}
    BY <2>1, <2>2 DEF Idle, Alone
  <2>5. (\E T : queue' \in Seq(T)) /\ queue' # <<>>
    BY <1>2, <1>6 DEF TurnEnds
  <2>6. Alone'
    BY <2>2, <2>3, <2>4, <2>5 DEF Alone, Active, Pending
  <2> QED
    BY <1>3, <2>2, <2>4, <2>6
<1>7. CASE Reset
  BY <1>7, NoDisturbance DEF Reset
<1>8. CASE Restart
  <2>1. /\ queue' = <<>> /\ late' = {} /\ save' = [pc |-> "idle", got |-> NoSurface] /\ turn' = Idle
        /\ cache' = Forgotten /\ UNCHANGED surfaces
        /\ comp' = [c \in Checkpoints |-> IF comp[c].pc = "idle" THEN Idle ELSE Over]
    BY <1>8 DEF Restart, db
  <2>2. /\ save'.pc = "idle" /\ turn'.pc = "idle"
        /\ \A c \in Checkpoints : comp'[c].pc \in {"idle", "over"}
    BY <2>1 DEF Idle, Over
  <2>3. queue' \in Seq({})
    BY <2>1
  <2>4. Alone'
    BY <2>1, <2>2, <2>3 DEF Alone, Active, Pending
  <2>5. Latest'
    BY <2>1, <2>2 DEF Latest, TablesNumbered, Dominates
  <2> QED
    BY <2>4, <2>5
<1>9. ASSUME NEW c \in Checkpoints, Plan(c) PROVE Alone' /\ Latest'
  <2> DEFINE s == IF cache = Forgotten THEN LoadLatest ELSE cache
  <2>1. /\ turn.pc = "idle" /\ Planned = {} /\ UNCHANGED <<surfaces, queue, save, turn, late>>
        /\ cache' = s
        /\ comp' = [comp EXCEPT ![c] = [Idle EXCEPT !.pc = "planned", !.msgs = live,
                                       !.gen = IF s.gen = NoGen THEN 1 ELSE s.gen + 1]]
    BY <1>9 DEF Plan, db
  <2>2. \A d \in Checkpoints : ~Active(d)
    BY <2>1, NobodyActive
  <2>3. Numbered(s) /\ Dominates(s)
    BY <2>2, LoadIsLatest DEF Latest, Active, Unseen
  <2> HIDE DEF s
  <2>4. /\ comp'[c].pc = "planned" /\ comp'[c].gen # Unset
        /\ \A d \in Checkpoints : d # c => comp'[d] = comp[d]
    BY <2>1, <2>3 DEF Idle, IInv, CallsShaped, Numbered, Unset, NoGen
  <2>5. Alone'
    BY <2>1, <2>2, <2>4 DEF Alone, Active, Pending
  <2>6. Numbered(cache') /\ \A t \in surfaces' : t.gen <= SourceOf(cache')
    BY <2>1, <2>3 DEF Dominates
  <2>7. Latest'
    BY <2>1, <2>2, <2>4, <2>6 DEF Latest, Active, TablesNumbered, Dominates
  <2> QED
    BY <2>5, <2>7
<1>10. ASSUME NEW c \in Checkpoints, AbandonPlan(c) PROVE Alone' /\ Latest'
  <2>1. /\ comp[c].pc = "planned" /\ comp' = [comp EXCEPT ![c] = Over]
        /\ UNCHANGED <<surfaces, cache, queue, save, turn, late>>
    BY <1>10 DEF AbandonPlan, db
  <2>2. comp'[c].pc = "over" /\ \A d \in Checkpoints : d # c => comp'[d] = comp[d]
    BY <2>1 DEF Over, Idle, IInv, CallsShaped
  <2>3. Alone'
    BY <2>1, <2>2 DEF Alone, Active, Pending
  <2>4. Latest'
    BY <2>1, <2>2 DEF Latest, TablesNumbered, Dominates, Unseen
  <2> QED
    BY <2>3, <2>4
<1>11. ASSUME NEW c \in Checkpoints, NEW gen, NEW k, Insert(c, gen, k),
              comp[c].pc \in {"idle", "planned"},
              \A d \in Checkpoints : d # c => ~Active(d),
              UNCHANGED <<surfaces, cache, save, late>>, turn'.pc = turn.pc,
              IF gen = Unset THEN turn.pc = "running" ELSE turn.pc = "idle"
       PROVE  Alone' /\ Latest'
  <2>1. comp' = [comp EXCEPT ![c] = [Idle EXCEPT !.pc = "waiting", !.msgs = live', !.gen = gen,
                                                !.ahead = Len(queue')]]
    BY <1>11 DEF Insert
  <2>2. /\ comp'[c].pc = "waiting" /\ comp'[c].gen = gen /\ comp'[c].ahead = Len(queue')
        /\ \A d \in Checkpoints : d # c => comp'[d] = comp[d]
    BY <2>1 DEF Idle, IInv, CallsShaped
  <2>3. (\E T : queue' \in Seq(T)) /\ queue' # <<>>
    BY <1>2, <1>11 DEF Insert
  <2>4. Alone'
    BY <1>11, <2>2, <2>3 DEF Alone, Active, Pending
  <2>5. Latest'
    BY <1>11, <2>2 DEF Latest, Active, TablesNumbered, Dominates, Unseen
  <2> QED
    BY <2>4, <2>5
<1>12. ASSUME NEW c \in Checkpoints, InsertPlanned(c) PROVE Alone' /\ Latest'
  <2>1. PICK k : Insert(c, comp[c].gen, k)
    BY <1>12 DEF InsertPlanned
  <2>2. comp[c].pc = "planned" /\ UNCHANGED <<surfaces, cache, save, turn, late>>
    BY <1>12 DEF InsertPlanned, db
  <2>3. /\ \A d \in Checkpoints : d # c => ~Active(d)
        /\ comp[c].gen # Unset /\ turn.pc = "idle"
    BY <2>2 DEF Alone, Active
  <2> QED
    BY <1>11, <2>1, <2>2, <2>3
<1>13. ASSUME NEW c \in Checkpoints, InsertMidLoop(c) PROVE Alone' /\ Latest'
  <2>1. PICK k : Insert(c, Unset, k)
    BY <1>13 DEF InsertMidLoop
  <2>2. /\ comp[c].pc = "idle" /\ turn.pc = "running" /\ Asked = {}
        /\ UNCHANGED <<surfaces, cache, save, late>> /\ turn' = [turn EXCEPT !.cut = c]
    BY <1>13 DEF InsertMidLoop, db
  <2>3. turn'.pc = turn.pc
    BY <2>2 DEF IInv
  <2> QED
    BY <1>11, <2>1, <2>2, <2>3, NobodyActive
<1>14. ASSUME NEW c \in Checkpoints, CommitTimesOut(c) PROVE Alone' /\ Latest'
  BY <1>14, NoDisturbance DEF CommitTimesOut, Overlaps
<1> QED
  BY <1>4, <1>5, <1>6, <1>7, <1>8, <1>9, <1>10, <1>12, <1>13, <1>14

LEMMA CacheInvInit == Init => CacheInv
<1> SUFFICES ASSUME Init PROVE Alone /\ Latest
  BY DEF CacheInv
<1>1. queue \in Seq({})
  BY DEF Init
<1>2. \A c \in Checkpoints : comp[c].pc = "idle"
  BY DEF Init, Idle
<1>3. turn.pc = "idle" /\ save.pc = "idle" /\ late = {} /\ surfaces = {} /\ cache = Forgotten
  BY DEF Init, Idle
<1>4. Alone
  BY <1>1, <1>2, <1>3 DEF Alone, Active, Pending
<1>5. Latest
  BY <1>2, <1>3 DEF Latest, TablesNumbered
<1> QED
  BY <1>4, <1>5

LEMMA CacheInvNext == IInv /\ CacheInv /\ [Next]_vars => CacheInv'
<1> SUFFICES ASSUME IInv, CacheInv, [Next]_vars, Serial' PROVE Alone' /\ Latest'
  BY DEF CacheInv
<1>1. Alone /\ Latest /\ (Replied' => Replied)
  BY Undisturbed, StillSerial DEF CacheInv, Replied
<1>2. CASE Next
  BY <1>1, <1>2, SaveLatest, HydrateLatest, CommitLatest, OtherLatest DEF Next
<1>3. CASE UNCHANGED vars
  BY <1>1, <1>3 DEF vars, Alone, Latest, TablesNumbered, Dominates, Active, Pending, Unseen
<1> QED
  BY <1>2, <1>3

(* Once no commit is pending, surfaceCache is not behind the tables, as    *)
(* long as turns and compactions are kept apart, the session is not reset  *)
(* and no commit landed unseen: CacheNotBehind.                            *)
THEOREM CacheNotBehindHolds == Spec => []CacheNotBehind
<1>1. CacheInv => CacheNotBehind
  <2> SUFFICES ASSUME Alone, Latest, cache # Forgotten, \A c \in Checkpoints : ~Pending(c)
               PROVE  SourceOf(cache) >= SourceOf(LoadLatest)
    BY DEF CacheInv, CacheNotBehind, Serial
  <2>1. Numbered(cache) /\ Dominates(cache)
    BY DEF Latest, Pending, Unseen
  <2>2. CASE surfaces = {}
    <3>1. SourceOf(LoadLatest) = 0
      BY <2>2 DEF LoadLatest, OneOf, NoSurface, SourceOf
    <3> QED
      BY <2>1, <3>1 DEF Numbered, SourceOf, NoGen
  <2>3. CASE surfaces # {}
    <3>1. LoadLatest \in surfaces
      BY <2>3 DEF LoadLatest, OneOf, Latest, TablesNumbered
    <3>2. LoadLatest.gen \in Nat /\ LoadLatest.gen <= SourceOf(cache)
      BY <2>1, <3>1 DEF Latest, TablesNumbered, Dominates
    <3> QED
      BY <2>1, <3>2 DEF Numbered, SourceOf, NoGen
  <2> QED
    BY <2>2, <2>3
<1> QED
  BY <1>1, IInvInit, IInvNext, CacheInvInit, CacheInvNext, PTL DEF Spec

-----------------------------------------------------------------------------
(* Lists of messages.                                                      *)

(* A message; that of a compaction carries a compactionId.                 *)
Message == {m \in Messages : m.id \in Checkpoints => m.cid \in Checkpoints}

LEMMA HasLast ==
  ASSUME NEW n \in Nat, NEW at, at \subseteq 1 .. n, at # {}
  PROVE  \E i \in at : \A j \in at : j <= i
<1> DEFINE R == {ss \in Nat \X Nat : ss[1] < ss[2]}
           T == {n - i : i \in at}
<1>1. IsWellFoundedOn(R, Nat)
  BY NatLessThanWellFounded DEF OpToRel
<1>2. T \subseteq Nat
  OBVIOUS
<1>3. T # {}
  OBVIOUS
<1> HIDE DEF R
<1>4. PICK x \in T : \A y \in T : ~(<<y, x>> \in R)
  BY <1>1, <1>2, <1>3, WFMin
<1>5. PICK i \in at : x = n - i
  OBVIOUS
<1>6. ASSUME NEW j \in at PROVE j <= i
  <2>1. n - j \in T /\ n - j \in Nat /\ x \in Nat
    BY <1>2
  <2>2. ~(n - j < x)
    BY <1>4, <2>1 DEF R
  <2> QED
    BY <1>5, <2>1, <2>2
<1> QED
  BY <1>6

LEMMA LatestIs ==
  ASSUME NEW S, NEW ms \in Seq(S)
  PROVE  /\ LatestCheckpoint(ms) \in 0 .. Len(ms)
         /\ LatestCheckpoint(ms) # 0 => ms[LatestCheckpoint(ms)].id \in Checkpoints
         /\ \A i \in 1 .. Len(ms) : ms[i].id \in Checkpoints => i <= LatestCheckpoint(ms)
<1> DEFINE at == {i \in DOMAIN ms : ms[i].id \in Checkpoints}
<1>1. Len(ms) \in Nat /\ DOMAIN ms = 1 .. Len(ms)
  OBVIOUS
<1>2. CASE at = {}
  BY <1>1, <1>2 DEF LatestCheckpoint
<1>3. CASE at # {}
  <2>1. \E i \in at : \A j \in at : j <= i
    BY <1>1, <1>3, HasLast
  <2>2. /\ LatestCheckpoint(ms) \in at
        /\ \A j \in at : j <= LatestCheckpoint(ms)
    BY <1>3, <2>1 DEF LatestCheckpoint
  <2> QED
    BY <1>1, <2>2
<1> QED
  BY <1>2, <1>3

LEMMA LatestAt ==
  ASSUME NEW S, NEW ms \in Seq(S), NEW k \in 1 .. Len(ms), ms[k].id \in Checkpoints,
         \A i \in 1 .. Len(ms) : ms[i].id \in Checkpoints => i <= k
  PROVE  LatestCheckpoint(ms) = k
BY LatestIs

LEMMA LatestNone ==
  ASSUME NEW S, NEW ms \in Seq(S), \A i \in 1 .. Len(ms) : ms[i].id \notin Checkpoints
  PROVE  LatestCheckpoint(ms) = 0
BY LatestIs

(* The identifiers of a tail are the tail of the identifiers.              *)
LEMMA IdsOfTail ==
  ASSUME NEW ms \in Seq(Message), NEW a \in Nat, a >= 1
  PROVE  SubSeq(IdsOf(ms), a, Len(ms)) = IdsOf(SubSeq(ms, a, Len(ms)))
<1> DEFINE tail == SubSeq(ms, a, Len(ms))
           ids == IdsOf(ms)
           n == IF a <= Len(ms) THEN Len(ms) - a + 1 ELSE 0
<1>1. Len(ms) \in Nat /\ DOMAIN ms = 1 .. Len(ms)
  OBVIOUS
<1>2. ids = [i \in 1 .. Len(ms) |-> ms[i].id]
  BY <1>1 DEF IdsOf
<1>3. a \in Int /\ Len(ms) \in Int /\ \A i \in a .. Len(ms) : i \in 1 .. Len(ms) /\ ms[i] \in Message
  BY <1>1
<1>4. /\ tail \in Seq(Message) /\ Len(tail) = n
      /\ \A i \in 1 .. Len(ms) - a + 1 : tail[i] = ms[a + i - 1]
  BY <1>3, SubSeqProperties
<1>5. \A i \in a .. Len(ms) : ids[i] = ms[i].id /\ ids[i] \in {m.id : m \in Message}
  BY <1>2, <1>3
<1> HIDE DEF ids, tail
<1>6. /\ SubSeq(ids, a, Len(ms)) \in Seq({m.id : m \in Message}) /\ Len(SubSeq(ids, a, Len(ms))) = n
      /\ \A i \in 1 .. Len(ms) - a + 1 : SubSeq(ids, a, Len(ms))[i] = ids[a + i - 1]
  BY <1>3, <1>5, SubSeqProperties
<1> HIDE DEF Message
<1>7. n \in Nat /\ \A i \in 1 .. n : i \in 1 .. Len(ms) - a + 1 /\ a + i - 1 \in a .. Len(ms)
  BY <1>1
<1> HIDE DEF n
<1>8. IdsOf(tail) = [i \in 1 .. n |-> tail[i].id]
  <2>1. DOMAIN tail = 1 .. n
    BY <1>4
  <2> QED
    BY <2>1 DEF IdsOf
<1>9. \A i \in 1 .. n : SubSeq(ids, a, Len(ms))[i] = tail[i].id
  BY <1>4, <1>5, <1>6, <1>7
<1>10. SubSeq(ids, a, Len(ms)) = [i \in 1 .. n |-> SubSeq(ids, a, Len(ms))[i]]
  BY <1>6, <1>7
<1> QED
  BY <1>8, <1>9, <1>10 DEF tail, ids

(* The nodes of a surface hold no checkpoint but the last of the messages. *)
LEMMA NodesAre ==
  ASSUME NEW ms \in Seq(Message)
  PROVE  /\ ComputeSurfaceNodes(ms) \in Seq(Plain \cup Checkpoints)
         /\ \A c \in RangeOf(ComputeSurfaceNodes(ms)) \cap Checkpoints :
              LatestCheckpoint(ms) # 0 /\ c = ms[LatestCheckpoint(ms)].id
<1> DEFINE k == LatestCheckpoint(ms)
           a == IF k = 0 THEN 1 ELSE k
           tail == SubSeq(ms, a, Len(ms))
<1>1. /\ k \in 0 .. Len(ms)
      /\ k # 0 => ms[k].id \in Checkpoints
      /\ \A i \in 1 .. Len(ms) : ms[i].id \in Checkpoints => i <= k
  BY LatestIs
<1>2. Len(ms) \in Nat /\ \A i \in 1 .. Len(ms) : ms[i] \in Message
  OBVIOUS
<1>0. \A m \in Message : m.id \in Plain \cup Checkpoints
  BY DEF Message, Messages
<1> HIDE DEF k
<1>a. a \in Nat /\ a >= 1 /\ (k # 0 => a = k)
  BY <1>1, <1>2
<1> HIDE DEF a
<1>3. a \in Int /\ Len(ms) \in Int /\ \A i \in a .. Len(ms) : ms[i] \in Message
  <2>1. \A i \in a .. Len(ms) : i \in 1 .. Len(ms)
    BY <1>a, <1>2
  <2> QED
    BY <1>a, <1>2, <2>1
<1>4. /\ tail \in Seq(Message)
      /\ \A i \in 1 .. Len(tail) : a + i - 1 \in 1 .. Len(ms) /\ tail[i] = ms[a + i - 1]
  <2>1. /\ tail \in Seq(Message) /\ Len(tail) = IF a <= Len(ms) THEN Len(ms) - a + 1 ELSE 0
        /\ \A i \in 1 .. Len(ms) - a + 1 : tail[i] = ms[a + i - 1]
    BY <1>3, SubSeqProperties
  <2> HIDE DEF tail
  <2>2. \A i \in 1 .. Len(tail) : i \in 1 .. Len(ms) - a + 1 /\ a + i - 1 \in 1 .. Len(ms)
    BY <1>a, <1>2, <2>1
  <2> QED
    BY <2>1, <2>2
<1>5. ComputeSurfaceNodes(ms) = IdsOf(tail)
  BY <1>a, IdsOfTail DEF ComputeSurfaceNodes, k, a
<1> HIDE DEF tail
<1>6. Len(tail) \in Nat /\ IdsOf(tail) = [i \in 1 .. Len(tail) |-> tail[i].id]
  BY <1>4 DEF IdsOf
<1>7. \A i \in 1 .. Len(tail) : tail[i].id \in Plain \cup Checkpoints
  BY <1>0, <1>4, <1>6
<1>8. IdsOf(tail) \in Seq(Plain \cup Checkpoints)
  BY <1>6, <1>7
<1>9. ASSUME NEW c \in RangeOf(IdsOf(tail)) \cap Checkpoints PROVE k # 0 /\ c = ms[k].id
  <2>1. PICK i \in 1 .. Len(tail) : c = tail[i].id
    BY <1>6, <1>9 DEF RangeOf
  <2>2. ms[a + i - 1].id = c /\ a + i - 1 \in 1 .. Len(ms)
    BY <1>4, <2>1
  <2>3. a + i - 1 <= k
    BY <1>1, <1>9, <2>2
  <2>4. k # 0 /\ a = k /\ a + i - 1 = k
    <3>1. i \in Nat /\ i >= 1 /\ k \in Nat
      BY <1>1, <1>2, <1>6, <2>1
    <3> QED
      BY <1>a, <2>3, <3>1
  <2> QED
    BY <2>2, <2>4
<1> QED
  BY <1>5, <1>8, <1>9 DEF k

LEMMA DroppedIs ==
  ASSUME NEW ms \in Seq(Message), NEW k \in 1 .. Len(ms),
         \A i \in 1 .. Len(ms) : ms[i].id = ms[k].id => i = k
  PROVE  /\ Without(ms, ms[k].id) \in Seq(Message)
         /\ Len(Without(ms, ms[k].id)) = Len(ms) - 1
         /\ \A i \in 1 .. Len(ms) - 1 :
              Without(ms, ms[k].id)[i] = IF i < k THEN ms[i] ELSE ms[i + 1]
<1> DEFINE id == ms[k].id
           front == SubSeq(ms, 1, k - 1)
           back == SubSeq(ms, k + 1, Len(ms))
<1>1. Len(ms) \in Nat /\ DOMAIN ms = 1 .. Len(ms) /\ k \in Nat \ {0} /\ k <= Len(ms)
  OBVIOUS
<1>2. id \in IdSet(ms) /\ (CHOOSE i \in DOMAIN ms : ms[i].id = id) = k
  BY <1>1 DEF IdSet
<1>3. Without(ms, id) = front \o back
  BY <1>2 DEF Without
<1>4. front \in Seq(Message) /\ Len(front) = k - 1 /\ \A i \in 1 .. k - 1 : front[i] = ms[i]
  <2>1. \A i \in 1 .. k - 1 : ms[i] \in Message
    BY <1>1
  <2> QED
    BY <1>1, <2>1, SubSeqProperties
<1>5. back \in Seq(Message) /\ Len(back) = Len(ms) - k /\ \A i \in 1 .. Len(ms) - k : back[i] = ms[k + i]
  <2>1. \A i \in k + 1 .. Len(ms) : ms[i] \in Message
    BY <1>1
  <2>2. k + 1 \in Int /\ Len(ms) \in Int
    BY <1>1
  <2>3. /\ back \in Seq(Message) /\ Len(back) = IF k + 1 <= Len(ms) THEN Len(ms) - (k + 1) + 1 ELSE 0
        /\ \A i \in 1 .. Len(ms) - (k + 1) + 1 : back[i] = ms[k + 1 + i - 1]
    BY <2>1, <2>2, SubSeqProperties
  <2> HIDE DEF back
  <2>4. \A i \in 1 .. Len(ms) - k : i \in 1 .. Len(ms) - (k + 1) + 1 /\ k + 1 + i - 1 = k + i
    BY <1>1
  <2>5. Len(back) = Len(ms) - k
    <3>1. Len(ms) \in Int /\ k \in Int /\ k <= Len(ms)
      BY <1>1
    <3>2. CASE k + 1 <= Len(ms)
      BY <2>3, <3>1, <3>2
    <3>3. CASE ~(k + 1 <= Len(ms))
      BY <2>3, <3>1, <3>3
    <3> QED
      BY <3>2, <3>3
  <2>6. \A i \in 1 .. Len(ms) - k : back[i] = ms[k + i]
    BY <2>3, <2>4
  <2> QED
    BY <2>3, <2>5, <2>6
<1> HIDE DEF id, front, back
<1>6. /\ front \o back \in Seq(Message)
      /\ Len(front \o back) = Len(front) + Len(back)
      /\ \A i \in 1 .. Len(front) + Len(back) :
           (front \o back)[i] = IF i <= Len(front) THEN front[i] ELSE back[i - Len(front)]
  BY <1>4, <1>5, ConcatProperties
<1>7. ASSUME NEW i \in 1 .. Len(ms) - 1 PROVE (front \o back)[i] = IF i < k THEN ms[i] ELSE ms[i + 1]
  <2>1. CASE i < k
    BY <1>1, <1>4, <1>5, <1>6, <2>1
  <2>2. CASE ~(i < k)
    <3>1. (front \o back)[i] = back[i - (k - 1)]
      BY <1>1, <1>4, <1>5, <1>6, <2>2
    <3>2. i - (k - 1) \in 1 .. Len(ms) - k /\ k + (i - (k - 1)) = i + 1
      BY <1>1, <2>2
    <3> QED
      BY <1>5, <2>2, <3>1, <3>2
  <2> QED
    BY <2>1, <2>2
<1> QED
  BY <1>1, <1>3, <1>4, <1>5, <1>6, <1>7 DEF id

LEMMA WithoutType ==
  ASSUME NEW ms \in Seq(Message), NEW id
  PROVE  Without(ms, id) \in Seq(Message)
<1> DEFINE k == CHOOSE i \in DOMAIN ms : ms[i].id = id
<1>1. CASE id \notin IdSet(ms)
  BY <1>1 DEF Without
<1>2. CASE id \in IdSet(ms)
  <2>1. k \in 1 .. Len(ms) /\ Len(ms) \in Nat
    BY <1>2 DEF IdSet
  <2>2. Without(ms, id) = SubSeq(ms, 1, k - 1) \o SubSeq(ms, k + 1, Len(ms))
    BY <1>2 DEF Without
  <2> HIDE DEF k
  <2>3. SubSeq(ms, 1, k - 1) \in Seq(Message) /\ SubSeq(ms, k + 1, Len(ms)) \in Seq(Message)
    BY <2>1, SubSeqProperties
  <2> QED
    BY <2>2, <2>3, ConcatProperties
<1> QED
  BY <1>1, <1>2

(* The list new is ms with a checkpoint behind its first k messages.       *)
Inserted(ms, new, c, gen, k) ==
  /\ new \in Seq(Message) /\ Len(new) = Len(ms) + 1
  /\ \A i \in 1 .. k : new[i] = ms[i]
  /\ new[k + 1].id = c /\ new[k + 1].cid = c /\ new[k + 1].gen = gen
  /\ \A i \in k + 2 .. Len(ms) + 1 : new[i] = ms[i - 1]

LEMMA InsertedIs ==
  ASSUME NEW ms \in Seq(Message), NEW c \in Checkpoints, NEW gen \in Nat, NEW k \in 0 .. Len(ms)
  PROVE  Inserted(ms, InsertCheckpoint(ms, c, gen, k), c, gen, k)
<1> DEFINE m == [id |-> c, cid |-> c, gen |-> gen]
           front == SubSeq(ms, 1, k)
           back == SubSeq(ms, k + 1, Len(ms))
<1>1. Len(ms) \in Nat /\ k \in Nat /\ k <= Len(ms)
  OBVIOUS
<1>2. m \in Message
  BY DEF Message, Messages
<1>3. front \in Seq(Message) /\ Len(front) = k /\ \A i \in 1 .. k : front[i] = ms[i]
  <2>1. \A i \in 1 .. k : ms[i] \in Message
    BY <1>1
  <2> QED
    BY <1>1, <2>1, SubSeqProperties
<1>4. back \in Seq(Message) /\ Len(back) = Len(ms) - k /\ \A i \in 1 .. Len(ms) - k : back[i] = ms[k + i]
  <2>1. \A i \in k + 1 .. Len(ms) : ms[i] \in Message
    BY <1>1
  <2>2. k + 1 \in Int /\ Len(ms) \in Int
    BY <1>1
  <2>3. /\ back \in Seq(Message) /\ Len(back) = IF k + 1 <= Len(ms) THEN Len(ms) - (k + 1) + 1 ELSE 0
        /\ \A i \in 1 .. Len(ms) - (k + 1) + 1 : back[i] = ms[k + 1 + i - 1]
    BY <2>1, <2>2, SubSeqProperties
  <2> HIDE DEF back
  <2>4. \A i \in 1 .. Len(ms) - k : i \in 1 .. Len(ms) - (k + 1) + 1 /\ k + 1 + i - 1 = k + i
    BY <1>1
  <2>5. Len(back) = Len(ms) - k
    <3>1. Len(ms) \in Int /\ k \in Int /\ k <= Len(ms)
      BY <1>1
    <3>2. CASE k + 1 <= Len(ms)
      BY <2>3, <3>1, <3>2
    <3>3. CASE ~(k + 1 <= Len(ms))
      BY <2>3, <3>1, <3>3
    <3> QED
      BY <3>2, <3>3
  <2>6. \A i \in 1 .. Len(ms) - k : back[i] = ms[k + i]
    BY <2>3, <2>4
  <2> QED
    BY <2>3, <2>5, <2>6
<1>5. <<m>> \in Seq(Message) /\ Len(<<m>>) = 1 /\ <<m>>[1] = m
  BY <1>2
<1>6. InsertCheckpoint(ms, c, gen, k) = (front \o <<m>>) \o back
  BY DEF InsertCheckpoint
<1> HIDE DEF m, front, back
<1> DEFINE head == front \o <<m>>
<1>7. /\ head \in Seq(Message) /\ Len(head) = k + 1 /\ head[k + 1] = m
      /\ \A i \in 1 .. k : head[i] = ms[i]
  <2>1. /\ head \in Seq(Message) /\ Len(head) = Len(front) + Len(<<m>>)
        /\ \A i \in 1 .. Len(front) + Len(<<m>>) :
             head[i] = IF i <= Len(front) THEN front[i] ELSE <<m>>[i - Len(front)]
    BY <1>3, <1>5, ConcatProperties
  <2>2. k + 1 \in 1 .. k + 1 /\ ~(k + 1 <= k) /\ (k + 1) - k = 1
    BY <1>1
  <2> QED
    BY <1>1, <1>3, <1>5, <2>1, <2>2
<1> HIDE DEF head
<1>8. /\ head \o back \in Seq(Message) /\ Len(head \o back) = Len(head) + Len(back)
      /\ \A i \in 1 .. Len(head) + Len(back) :
           (head \o back)[i] = IF i <= Len(head) THEN head[i] ELSE back[i - Len(head)]
  BY <1>4, <1>7, ConcatProperties
<1>9. Len(head) + Len(back) = Len(ms) + 1
  BY <1>1, <1>4, <1>7
<1>10. \A i \in 1 .. k + 1 : (head \o back)[i] = head[i]
  BY <1>1, <1>7, <1>8, <1>9
<1>11. ASSUME NEW i \in k + 2 .. Len(ms) + 1 PROVE (head \o back)[i] = ms[i - 1]
  <2>1. i \in 1 .. Len(ms) + 1 /\ ~(i <= k + 1) /\ i - (k + 1) \in 1 .. Len(ms) - k
        /\ k + (i - (k + 1)) = i - 1
    BY <1>1
  <2>2. (head \o back)[i] = back[i - (k + 1)]
    BY <1>7, <1>8, <1>9, <2>1
  <2> QED
    BY <1>4, <2>1, <2>2
<1>12. \A i \in 1 .. k : i \in 1 .. k + 1
  BY <1>1
<1>13. (head \o back)[k + 1] = m
  BY <1>1, <1>7, <1>10
<1>14. m.id = c /\ m.cid = c /\ m.gen = gen
  BY DEF m
<1> DEFINE new == head \o back
<1>15. InsertCheckpoint(ms, c, gen, k) = new
  BY <1>6 DEF head
<1>16. new \in Seq(Message) /\ Len(new) = Len(ms) + 1
  BY <1>8, <1>9
<1>17. \A i \in 1 .. k : new[i] = ms[i]
  BY <1>7, <1>10, <1>12
<1>18. \A i \in k + 2 .. Len(ms) + 1 : new[i] = ms[i - 1]
  BY <1>11
<1> HIDE DEF new
<1>19. new[k + 1] = m
  BY <1>13 DEF new
<1> QED
  BY <1>14, <1>15, <1>16, <1>17, <1>18, <1>19 DEF Inserted

-----------------------------------------------------------------------------
(* What every variable holds.                                              *)

(* What a load of the tables may answer.                                   *)
Given == Surface \cup {NoSurface}

Begun == {c \in Checkpoints : comp[c].pc \notin {"idle", "planned"}}

(* A list of messages of the session, none of them there twice, when n     *)
(* messages were added and the compactions in b were begun.                *)
Listed(ms, n, b) ==
  /\ ms \in Seq(Message)
  /\ \A i, j \in 1 .. Len(ms) : ms[i].id = ms[j].id => i = j
  /\ \A i \in 1 .. Len(ms) : ms[i].id \in b \/ (ms[i].id \in Plain /\ ms[i].id <= n)

ListsTyped ==
  /\ sent \in Nat
  /\ Listed(live, sent, Begun) /\ Listed(archive, sent, Begun)
  /\ queue \in Seq(Seq(Message))
  /\ \A n \in 1 .. Len(queue) : Listed(queue[n], sent, Begun)

TablesTyped ==
  /\ surfaces \subseteq Surface
  /\ rows \in [Checkpoints -> {"none", "completed", "failed"}]
  /\ cache \in Given \cup {Forgotten}
  /\ inFlight \subseteq Checkpoints

SaveTyped ==
  /\ save.got \in Given
  /\ save.pc = "saved" => save.got \in Surface
  /\ save.pc # "idle" => queue # <<>>

TurnTyped ==
  /\ turn.got \in Given /\ turn.ahead \in Nat
  /\ turn.pc = "emptied" => turn.got \in Surface

CallTyped(c) ==
  /\ comp[c].got \in Given /\ comp[c].msgs \in Seq(Message)
  /\ comp[c].gen \in Nat /\ comp[c].ahead \in Nat
  /\ Pending(c) => LatestCheckpoint(comp[c].msgs) # 0
  /\ comp[c].pc = "returned" => comp[c].got \in Surface /\ comp[c].got.cid \in Checkpoints

TypeInv ==
  /\ ListsTyped /\ TablesTyped /\ SaveTyped /\ TurnTyped
  /\ \A c \in Checkpoints : CallTyped(c)

LEMMA ListedStays ==
  ASSUME NEW ms, NEW n \in Nat, NEW b, NEW n2 \in Nat, NEW b2,
         Listed(ms, n, b), n <= n2, b \subseteq b2
  PROVE  Listed(ms, n2, b2)
<1>1. \A i \in 1 .. Len(ms) : ms[i].id \in Plain => ms[i].id \in Nat
  BY DEF Plain
<1> QED
  BY <1>1 DEF Listed

(* The lists hold on when nothing that was begun is taken back.            *)
LEMMA ListsStay ==
  ASSUME ListsTyped, sent' \in Nat, sent <= sent', Begun \subseteq Begun'
  PROVE  \A ms : Listed(ms, sent, Begun) => Listed(ms, sent', Begun')
BY ListedStays DEF ListsTyped

LEMMA LoadTyped ==
  ASSUME TablesTyped
  PROVE  LoadLatest \in Given /\ \A g : Load(g) \in Given
<1>1. \A S \in SUBSET surfaces : OneOf(S) \in Given
  BY DEF OneOf, Given, TablesTyped
<1> QED
  BY <1>1 DEF LoadLatest, Load

LEMMA SurfaceFields ==
  /\ \A s \in Surface : /\ s.gen \in Nat /\ s.parent \in Nat \cup {NoGen}
                        /\ s.cid \in Checkpoints \cup {NoCompaction} /\ s.nodes \in Seq(Plain \cup Checkpoints)
  /\ \A s \in Given : /\ s.gen \in Nat \cup {NoGen} /\ s.parent \in Nat \cup {NoGen}
                      /\ s.cid \in Checkpoints \cup {NoCompaction} /\ s.nodes \in Seq(Plain \cup Checkpoints)
                      /\ s # Forgotten
  /\ \A g \in Nat, p \in Nat \cup {NoGen}, c \in Checkpoints \cup {NoCompaction}, nodes \in Seq(Plain \cup Checkpoints) :
       [gen |-> g, parent |-> p, cid |-> c, nodes |-> nodes] \in Surface
  /\ NoSurface \in Given /\ Forgotten.gen = -2
<1>1. \A s \in Surface : /\ s.gen \in Nat /\ s.parent \in Nat \cup {NoGen}
                         /\ s.cid \in Checkpoints \cup {NoCompaction} /\ s.nodes \in Seq(Plain \cup Checkpoints)
  BY DEF Surface
<1>2. /\ NoSurface.gen = NoGen /\ NoSurface.parent = NoGen /\ NoSurface.cid = NoCompaction
      /\ NoSurface.nodes = <<>> /\ Forgotten.gen = -2
  BY DEF NoSurface, Forgotten
<1>3. \A s \in Given : s.gen # -2
  BY <1>1, <1>2 DEF Given, NoGen
<1>4. \A g \in Nat, p \in Nat \cup {NoGen}, c \in Checkpoints \cup {NoCompaction}, nodes \in Seq(Plain \cup Checkpoints) :
       [gen |-> g, parent |-> p, cid |-> c, nodes |-> nodes] \in Surface
  BY DEF Surface
<1>5. <<>> \in Seq(Plain \cup Checkpoints)
  OBVIOUS
<1>6. \A s \in Given : /\ s.gen \in Nat \cup {NoGen} /\ s.parent \in Nat \cup {NoGen}
                       /\ s.cid \in Checkpoints \cup {NoCompaction} /\ s.nodes \in Seq(Plain \cup Checkpoints)
  BY <1>1, <1>2, <1>5 DEF Given
<1> QED
  BY <1>1, <1>2, <1>3, <1>4, <1>6 DEF Given

LEMMA SavedTyped ==
  ASSUME TablesTyped, NEW s \in Surface
  PROVE  Saved(s) \subseteq Surface
<1>1. \A t \in Surface : [t EXCEPT !.nodes = s.nodes] \in Surface
  BY DEF Surface
<1> QED
  BY <1>1 DEF Saved, TablesTyped

LEMMA ProjectionTyped ==
  ASSUME NEW s, NEW ms \in Seq(Message)
  PROVE  Projection(s, ms) \in Seq(Plain \cup Checkpoints)
BY NodesAre, WithoutType DEF Projection

LEMMA TypeInit == Init => TypeInv
<1> SUFFICES ASSUME Init PROVE TypeInv
  OBVIOUS
<1>1. <<>> \in Seq(Message) /\ <<>> \in Seq(Seq(Message)) /\ Len(<<>>) = 0
  OBVIOUS
<1>2. ListsTyped
  BY <1>1 DEF Init, ListsTyped, Listed
<1>3. TablesTyped
  BY DEF Init, TablesTyped
<1>4. SaveTyped /\ TurnTyped
  BY SurfaceFields DEF Init, SaveTyped, TurnTyped, Idle
<1>5. \A c \in Checkpoints : comp[c] = Idle
  BY DEF Init
<1>6. /\ Idle.pc = "idle" /\ Idle.got = NoSurface /\ Idle.msgs = <<>> /\ Idle.gen = 0 /\ Idle.ahead = 0
  BY DEF Idle, Unset
<1>7. ASSUME NEW c \in Checkpoints PROVE CallTyped(c)
  <2>1. /\ comp[c].pc = "idle" /\ comp[c].got \in Given /\ comp[c].msgs \in Seq(Message)
        /\ comp[c].gen = 0 /\ comp[c].ahead = 0
    BY <1>1, <1>5, <1>6 DEF Given
  <2> QED
    BY <2>1 DEF CallTyped, Pending
<1> QED
  BY <1>2, <1>3, <1>4, <1>7 DEF TypeInv

LEMMA JobDoneTyped ==
  ASSUME IInv, TypeInv, JobDone, save.pc # "idle", UNCHANGED <<live, archive, sent>>
  PROVE  ListsTyped' /\ SaveTyped' /\ TurnTyped' /\ \A c \in Checkpoints : CallTyped(c)'
<1> USE DEF IInv, CallsShaped
<1>1. /\ queue' = Tail(queue) /\ save' = [pc |-> "idle", got |-> NoSurface]
      /\ turn' = [turn EXCEPT !.ahead = Less(@)]
      /\ comp' = [c \in Checkpoints |-> [comp[c] EXCEPT !.ahead = Less(@)]]
  BY DEF JobDone
<1>2. \A n \in Nat : Less(n) \in Nat
  BY DEF Less
<1>3. \A c \in Checkpoints :
        /\ comp'[c].pc = comp[c].pc /\ comp'[c].got = comp[c].got /\ comp'[c].msgs = comp[c].msgs
        /\ comp'[c].gen = comp[c].gen /\ comp'[c].ahead = Less(comp[c].ahead)
  BY <1>1
<1>4. Begun' = Begun
  BY <1>3 DEF Begun
<1>5. queue \in Seq(Seq(Message)) /\ queue # <<>>
  BY DEF TypeInv, ListsTyped, SaveTyped
<1>6. /\ Tail(queue) \in Seq(Seq(Message)) /\ Len(Tail(queue)) = Len(queue) - 1
      /\ \A n \in 1 .. Len(Tail(queue)) : n + 1 \in 1 .. Len(queue) /\ Tail(queue)[n] = queue[n + 1]
  <2>1. Len(queue) \in Nat
    BY <1>5
  <2> QED
    BY <1>5, <2>1, HeadTailProperties
<1>7. ListsTyped'
  BY <1>1, <1>4, <1>6 DEF TypeInv, ListsTyped
<1>8. SaveTyped'
  BY <1>1, SurfaceFields DEF SaveTyped
<1>9. turn'.ahead = Less(turn.ahead) /\ turn'.got = turn.got /\ turn'.pc = turn.pc
  BY <1>1
<1>10. TurnTyped'
  BY <1>2, <1>9 DEF TypeInv, TurnTyped
<1>11. \A c \in Checkpoints : CallTyped(c)'
  BY <1>2, <1>3 DEF TypeInv, CallTyped, Pending
<1> QED
  BY <1>7, <1>8, <1>10, <1>11

LEMMA MaintainTyped ==
  ASSUME IInv, TypeInv, save.pc # "idle", NEW s \in Given, MaintainWith(s),
         UNCHANGED <<live, archive, sent>>
  PROVE  /\ ListsTyped' /\ SaveTyped' /\ TurnTyped' /\ (\A c \in Checkpoints : CallTyped(c)')
         /\ surfaces' \subseteq Surface
<1> DEFINE new == [gen |-> IF s.gen = NoGen THEN 0 ELSE s.gen,
                   parent |-> s.parent, cid |-> s.cid, nodes |-> Projection(s, Head(queue))]
<1>1. Head(queue) \in Seq(Message)
  BY HeadTailProperties DEF TypeInv, ListsTyped, SaveTyped
<1>2. new \in Surface
  <2>1. Projection(s, Head(queue)) \in Seq(Plain \cup Checkpoints)
    BY <1>1, ProjectionTyped
  <2>2. (IF s.gen = NoGen THEN 0 ELSE s.gen) \in Nat
    BY SurfaceFields
  <2> QED
    BY <2>1, <2>2, SurfaceFields
<1>3. surfaces \subseteq Surface /\ Saved(new) \subseteq Surface
  BY <1>2, SavedTyped DEF TypeInv, TablesTyped
<1>4. /\ surfaces' = surfaces \/ surfaces' = Saved(new)
      /\ JobDone \/ (save' = [pc |-> "saved", got |-> new] /\ UNCHANGED <<queue, comp, turn>>)
  BY DEF MaintainWith
<1> HIDE DEF new
<1>5. CASE JobDone
  BY <1>3, <1>4, <1>5, JobDoneTyped
<1>6. CASE save' = [pc |-> "saved", got |-> new] /\ UNCHANGED <<queue, comp, turn>>
  <2>1. SaveTyped'
    BY <1>2, <1>6 DEF TypeInv, SaveTyped, Given
  <2>2. ListsTyped' /\ TurnTyped' /\ \A c \in Checkpoints : CallTyped(c)'
    BY <1>6 DEF TypeInv, ListsTyped, Begun, TurnTyped, CallTyped, Pending
  <2> QED
    BY <1>3, <1>4, <2>1, <2>2
<1> QED
  BY <1>4, <1>5, <1>6

LEMMA SaveKeepsType ==
  ASSUME IInv, TypeInv, SaveStep
  PROVE  TypeInv'
<1> USE DEF db
<1>1. CASE SaveArchive
  <2>1. /\ save' = [save EXCEPT !.pc = "archived"] /\ queue # <<>> /\ (archive' = Head(queue) \/ archive' = archive)
        /\ UNCHANGED <<surfaces, rows, live, cache, inFlight, queue, comp, turn, sent>>
    BY <1>1 DEF SaveArchive
  <2>2. save'.pc = "archived" /\ save'.got = save.got
    BY <2>1 DEF IInv
  <2>3. Listed(Head(queue), sent, Begun)
    <3>1. Head(queue) = queue[1] /\ 1 \in 1 .. Len(queue)
      BY <2>1 DEF TypeInv, ListsTyped
    <3> QED
      BY <3>1 DEF TypeInv, ListsTyped
  <2>4. ListsTyped'
    BY <2>1, <2>3 DEF TypeInv, ListsTyped, Begun
  <2> QED
    BY <2>1, <2>2, <2>4 DEF TypeInv, TablesTyped, SaveTyped, TurnTyped, CallTyped, Pending
<1>2. CASE Maintain
  <2>1. save.pc = "archived" /\ UNCHANGED <<live, archive, sent, rows, cache, inFlight>>
    BY <1>2 DEF Maintain
  <2>2. CASE cache = Forgotten
    <3>1. UNCHANGED surfaces
      BY <1>2, <2>2 DEF Maintain
    <3>2. CASE JobDone
      BY <2>1, <3>1, <3>2, JobDoneTyped DEF TypeInv, TablesTyped
    <3>3. CASE save' = [pc |-> "loaded", got |-> LoadLatest] /\ UNCHANGED <<queue, comp, turn>>
      <4>1. LoadLatest \in Given
        BY LoadTyped DEF TypeInv
      <4>2. SaveTyped'
        BY <2>1, <3>3, <4>1 DEF TypeInv, SaveTyped
      <4> QED
        BY <2>1, <3>1, <3>3, <4>2 DEF TypeInv, ListsTyped, Begun, TablesTyped, TurnTyped, CallTyped, Pending
    <3> QED
      BY <1>2, <2>2, <3>2, <3>3 DEF Maintain
  <2>3. CASE cache # Forgotten
    <3>1. MaintainWith(cache) /\ cache \in Given
      BY <1>2, <2>3 DEF Maintain, TypeInv, TablesTyped
    <3> QED
      BY <2>1, <3>1, MaintainTyped DEF TypeInv, TablesTyped
  <2> QED
    BY <2>2, <2>3
<1>3. CASE MaintainLoaded
  <2>1. /\ save.pc = "loaded" /\ UNCHANGED <<live, archive, sent, rows, inFlight>>
        /\ cache' = save.got /\ MaintainWith(save.got) /\ save.got \in Given
    BY <1>3 DEF MaintainLoaded, TypeInv, SaveTyped
  <2> QED
    BY <2>1, MaintainTyped DEF TypeInv, TablesTyped
<1>4. CASE Maintained
  <2>1. /\ save.pc = "saved" /\ UNCHANGED <<live, archive, sent, rows, surfaces, inFlight>>
        /\ cache' = save.got /\ JobDone /\ save.got \in Given
    BY <1>4 DEF Maintained, Remember, TypeInv, SaveTyped
  <2> QED
    BY <2>1, JobDoneTyped DEF TypeInv, TablesTyped
<1> QED
  BY <1>1, <1>2, <1>3, <1>4 DEF SaveStep

LEMMA HydrateKeepsType ==
  ASSUME IInv, TypeInv, HydrateStep
  PROVE  TypeInv'
<1> USE DEF db
<1>1. UNCHANGED <<archive, rows, live, inFlight, queue, save, comp, sent>>
  BY DEF HydrateStep, Hydrate, HydrateLoaded, FallBackToParent, ParentIncomplete, TakeParent,
     DiscardAll, RebuildGenerationZero, TakeRebuilt
<1>2. ListsTyped' /\ SaveTyped' /\ \A c \in Checkpoints : CallTyped(c)'
  BY <1>1 DEF TypeInv, ListsTyped, Begun, SaveTyped, CallTyped, Pending
<1>3. ASSUME surfaces' \subseteq Surface, cache' \in Given \cup {Forgotten}, TurnTyped'
      PROVE  TypeInv'
  BY <1>1, <1>2, <1>3 DEF TypeInv, TablesTyped
<1>4. ASSUME NEW nodes, Got(nodes) PROVE TurnTyped'
  <2>1. PICK head : turn' = [Idle EXCEPT !.pc = "running", !.head = head]
    BY <1>4 DEF Got
  <2>2. turn'.pc = "running" /\ turn'.got = NoSurface /\ turn'.ahead = 0
    BY <2>1 DEF Idle
  <2> QED
    BY <2>2, SurfaceFields DEF TurnTyped
<1>5. ASSUME NEW s, HydrateWith(s) PROVE TurnTyped'
  <2>1. CASE turn' = [turn EXCEPT !.pc = "parent", !.got = Load(s.parent), !.gen = s.gen]
    <3>1. turn'.pc = "parent" /\ turn'.got = Load(s.parent) /\ turn'.ahead = turn.ahead
      BY <2>1 DEF IInv
    <3> QED
      BY <3>1, LoadTyped DEF TypeInv, TurnTyped
  <2>2. CASE turn' = [turn EXCEPT !.pc = "rebuild"]
    <3>1. turn'.pc = "rebuild" /\ turn'.got = turn.got /\ turn'.ahead = turn.ahead
      BY <2>2 DEF IInv
    <3> QED
      BY <3>1 DEF TypeInv, TurnTyped
  <2>3. CASE \E nodes : Got(nodes)
    BY <1>4, <2>3
  <2> QED
    BY <1>5, <2>1, <2>2, <2>3 DEF HydrateWith
<1>6. /\ surfaces \subseteq Surface /\ cache \in Given \cup {Forgotten} /\ turn.got \in Given /\ turn.ahead \in Nat
  BY DEF TypeInv, TablesTyped, TurnTyped
<1>7. CASE Hydrate
  <2>1. UNCHANGED <<surfaces, cache>>
    BY <1>7 DEF Hydrate
  <2>2. CASE turn' = [turn EXCEPT !.pc = "loaded", !.got = LoadLatest]
    <3>1. turn'.pc = "loaded" /\ turn'.got = LoadLatest /\ turn'.ahead = turn.ahead
      BY <2>2 DEF IInv
    <3>2. TurnTyped'
      BY <1>6, <3>1, LoadTyped DEF TypeInv, TurnTyped
    <3> QED
      BY <1>3, <1>6, <2>1, <3>2
  <2>3. CASE TurnTyped'
    BY <1>3, <1>6, <2>1, <2>3
  <2> QED
    BY <1>4, <1>5, <1>7, <2>2, <2>3 DEF Hydrate
<1>8. CASE HydrateLoaded
  BY <1>3, <1>5, <1>6, <1>8 DEF HydrateLoaded
<1>9. CASE FallBackToParent
  <2>1. turn' = [turn EXCEPT !.pc = "discarded"] /\ surfaces' \subseteq surfaces /\ UNCHANGED cache
    BY <1>9 DEF FallBackToParent
  <2>2. turn'.pc = "discarded" /\ turn'.got = turn.got /\ turn'.ahead = turn.ahead
    BY <2>1 DEF IInv
  <2> QED
    BY <1>3, <1>6, <2>1, <2>2 DEF TurnTyped
<1>10. CASE ParentIncomplete
  <2>1. turn' = [turn EXCEPT !.pc = "rebuild"] /\ UNCHANGED <<surfaces, cache>>
    BY <1>10 DEF ParentIncomplete
  <2>2. turn'.pc = "rebuild" /\ turn'.got = turn.got /\ turn'.ahead = turn.ahead
    BY <2>1 DEF IInv
  <2> QED
    BY <1>3, <1>6, <2>1, <2>2 DEF TurnTyped
<1>11. CASE TakeParent \/ TakeRebuilt
  BY <1>3, <1>4, <1>6, <1>11 DEF TakeParent, TakeRebuilt
<1>12. CASE DiscardAll
  <2>1. /\ turn' = [turn EXCEPT !.pc = "emptied",
                          !.got = [NoSurface EXCEPT !.gen = 0, !.nodes = ComputeSurfaceNodes(live)]]
        /\ surfaces' = {} /\ UNCHANGED cache
    BY <1>12 DEF DiscardAll
  <2>2. ComputeSurfaceNodes(live) \in Seq(Plain \cup Checkpoints)
    BY NodesAre DEF TypeInv, ListsTyped, Listed
  <2>3. ASSUME NEW nodes \in Seq(Plain \cup Checkpoints)
        PROVE  [NoSurface EXCEPT !.gen = 0, !.nodes = nodes] \in Surface
    BY DEF NoSurface, Surface, NoGen
  <2>4. /\ turn'.got = [NoSurface EXCEPT !.gen = 0, !.nodes = ComputeSurfaceNodes(live)]
        /\ turn'.ahead = turn.ahead
    BY <2>1 DEF IInv
  <2> QED
    BY <1>3, <1>6, <2>1, <2>2, <2>3, <2>4 DEF TurnTyped, Given
<1>13. CASE RebuildGenerationZero
  <2>1. /\ turn.pc = "emptied" /\ turn' = [turn EXCEPT !.pc = "rebuilt"] /\ surfaces' = Saved(turn.got) /\ UNCHANGED cache
    BY <1>13 DEF RebuildGenerationZero
  <2>2. turn'.pc = "rebuilt" /\ turn'.got = turn.got /\ turn'.ahead = turn.ahead
    BY <2>1 DEF IInv
  <2>3. Saved(turn.got) \subseteq Surface
    BY <2>1, SavedTyped DEF TypeInv, TurnTyped
  <2> QED
    BY <1>3, <1>6, <2>1, <2>2, <2>3 DEF TurnTyped
<1> QED
  BY <1>7, <1>8, <1>9, <1>10, <1>11, <1>12, <1>13 DEF HydrateStep

(* The lists after one of the steps that change them.                      *)
LEMMA AppendListed ==
  ASSUME NEW ms, NEW n \in Nat, NEW b \in SUBSET Checkpoints, Listed(ms, n, b),
         NEW m \in Message, m.id = n + 1, n + 1 \in Plain
  PROVE  Listed(Append(ms, m), n + 1, b)
<1>1. ms \in Seq(Message) /\ Len(ms) \in Nat
  BY DEF Listed
<1>2. /\ Append(ms, m) \in Seq(Message) /\ Len(Append(ms, m)) = Len(ms) + 1
      /\ Append(ms, m)[Len(ms) + 1] = m
      /\ \A i \in 1 .. Len(ms) : Append(ms, m)[i] = ms[i]
  BY <1>1
<1>3. \A i \in 1 .. Len(ms) : ms[i].id # n + 1
  <2>1. n + 1 \notin b
    BY SurfaceConstants
  <2> QED
    BY <2>1 DEF Listed, Plain
<1>4. \A i \in 1 .. Len(ms) + 1 : i = Len(ms) + 1 \/ i \in 1 .. Len(ms)
  BY <1>1
<1>5. \A i \in 1 .. Len(ms) : ms[i].id \in Plain /\ ms[i].id <= n => ms[i].id <= n + 1
  BY DEF Plain
<1> HIDE DEF Message
<1>6. \A i, j \in 1 .. Len(ms) + 1 : Append(ms, m)[i].id = Append(ms, m)[j].id => i = j
  BY <1>2, <1>3, <1>4 DEF Listed
<1>7. \A i \in 1 .. Len(ms) + 1 :
        Append(ms, m)[i].id \in b \/ (Append(ms, m)[i].id \in Plain /\ Append(ms, m)[i].id <= n + 1)
  BY <1>2, <1>4, <1>5 DEF Listed
<1> QED
  BY <1>2, <1>6, <1>7 DEF Listed

LEMMA InsertListed ==
  ASSUME NEW ms, NEW n \in Nat, NEW b \in SUBSET Checkpoints, Listed(ms, n, b),
         NEW c \in Checkpoints, c \notin b, NEW gen \in Nat, NEW k \in 0 .. Len(ms)
  PROVE  Listed(InsertCheckpoint(ms, c, gen, k), n, b \cup {c})
<1> DEFINE new == InsertCheckpoint(ms, c, gen, k)
<1>1. ms \in Seq(Message) /\ Len(ms) \in Nat
  BY DEF Listed
<1>i. Inserted(ms, new, c, gen, k)
  BY <1>1, InsertedIs
<1> HIDE DEF new
<1>2. /\ new \in Seq(Message) /\ Len(new) = Len(ms) + 1
      /\ \A i \in 1 .. k : new[i] = ms[i]
      /\ new[k + 1].id = c
      /\ \A i \in k + 2 .. Len(ms) + 1 : new[i] = ms[i - 1]
  BY <1>i DEF Inserted
<1> DEFINE old(i) == IF i <= k THEN i ELSE i - 1
<1>3. \A i \in 1 .. Len(ms) + 1 : i = k + 1 \/ (i # k + 1 /\ old(i) \in 1 .. Len(ms) /\ new[i] = ms[old(i)])
  BY <1>1, <1>2
<1>4. \A i, j \in 1 .. Len(ms) + 1 : i # k + 1 /\ j # k + 1 /\ old(i) = old(j) => i = j
  BY <1>1
<1> HIDE DEF old
<1>5. \A i \in 1 .. Len(ms) : ms[i].id # c
  BY SurfaceConstants DEF Listed, Plain
<1>6. ASSUME NEW i \in 1 .. Len(ms) + 1, NEW j \in 1 .. Len(ms) + 1, new[i].id = new[j].id PROVE i = j
  <2>1. CASE i = k + 1 \/ j = k + 1
    BY <1>2, <1>3, <1>5, <1>6, <2>1
  <2>2. CASE i # k + 1 /\ j # k + 1
    BY <1>3, <1>4, <1>6, <2>2 DEF Listed
  <2> QED
    BY <2>1, <2>2
<1>7. \A i \in 1 .. Len(ms) + 1 : new[i].id \in b \cup {c} \/ (new[i].id \in Plain /\ new[i].id <= n)
  BY <1>2, <1>3 DEF Listed
<1> QED
  BY <1>2, <1>6, <1>7 DEF Listed, new

LEMMA WithoutListed ==
  ASSUME NEW ms, NEW n, NEW b, Listed(ms, n, b), NEW id
  PROVE  Listed(Without(ms, id), n, b)
<1>1. ms \in Seq(Message) /\ Len(ms) \in Nat /\ DOMAIN ms = 1 .. Len(ms)
  BY DEF Listed
<1>2. CASE id \notin IdSet(ms)
  BY <1>2 DEF Without
<1>3. CASE id \in IdSet(ms)
  <2>1. PICK k \in 1 .. Len(ms) : ms[k].id = id
    BY <1>1, <1>3 DEF IdSet
  <2>2. \A i \in 1 .. Len(ms) : ms[i].id = ms[k].id => i = k
    BY DEF Listed
  <2> DEFINE new == Without(ms, id)
             old(i) == IF i < k THEN i ELSE i + 1
  <2>3. /\ new \in Seq(Message) /\ Len(new) = Len(ms) - 1
        /\ \A i \in 1 .. Len(ms) - 1 : new[i] = ms[old(i)]
    BY <1>1, <2>1, <2>2, DroppedIs
  <2> HIDE DEF new
  <2>4. \A i \in 1 .. Len(ms) - 1 : old(i) \in 1 .. Len(ms)
    BY <1>1
  <2>5. \A i, j \in 1 .. Len(ms) - 1 : old(i) = old(j) => i = j
    BY <1>1
  <2> HIDE DEF old
  <2>6. \A i, j \in 1 .. Len(ms) - 1 : new[i].id = new[j].id => i = j
    BY <2>3, <2>4, <2>5 DEF Listed
  <2>7. \A i \in 1 .. Len(ms) - 1 : new[i].id \in b \/ (new[i].id \in Plain /\ new[i].id <= n)
    BY <2>3, <2>4 DEF Listed
  <2> QED
    BY <2>3, <2>6, <2>7 DEF Listed, new
<1> QED
  BY <1>2, <1>3

LEMMA PrefixListed ==
  ASSUME NEW ms, NEW n, NEW b, Listed(ms, n, b), NEW k \in 0 .. Len(ms)
  PROVE  Listed(SubSeq(ms, 1, k), n, b)
<1>1. ms \in Seq(Message) /\ Len(ms) \in Nat /\ k \in Nat
  BY DEF Listed
<1>2. \A i \in 1 .. k : i \in 1 .. Len(ms) /\ ms[i] \in Message
  BY <1>1
<1>3. SubSeq(ms, 1, k) \in Seq(Message) /\ Len(SubSeq(ms, 1, k)) = k /\ \A i \in 1 .. k : SubSeq(ms, 1, k)[i] = ms[i]
  BY <1>1, <1>2, SubSeqProperties
<1> QED
  BY <1>2, <1>3 DEF Listed

(* Two lists that name the same messages.                                  *)
LEMMA RenamedListed ==
  ASSUME NEW ms, NEW n, NEW b, Listed(ms, n, b), NEW new \in Seq(Message), Len(new) = Len(ms),
         \A i \in 1 .. Len(ms) : new[i].id = ms[i].id
  PROVE  Listed(new, n, b)
BY DEF Listed

LEMMA EnqueueTyped ==
  ASSUME NEW n, NEW b, NEW ms, Enqueue(ms), Listed(ms, n, b),
         queue \in Seq(Seq(Message)), \A i \in 1 .. Len(queue) : Listed(queue[i], n, b)
  PROVE  /\ queue' \in Seq(Seq(Message)) /\ queue' # <<>>
         /\ \A i \in 1 .. Len(queue') : Listed(queue'[i], n, b)
<1>1. ms \in Seq(Message) /\ Len(queue) \in Nat
  BY DEF Listed
<1>2. /\ queue' \in Seq(Seq(Message)) /\ Len(queue') = Len(queue) + 1
      /\ queue'[Len(queue) + 1] = ms
      /\ \A i \in 1 .. Len(queue) : queue'[i] = queue[i]
  BY <1>1 DEF Enqueue
<1>3. \A i \in 1 .. Len(queue) + 1 : i = Len(queue) + 1 \/ i \in 1 .. Len(queue)
  BY <1>1
<1>4. queue' # <<>>
  BY <1>1, <1>2
<1> QED
  BY <1>2, <1>3, <1>4

(* A compaction's call was given the checkpoint's own list.                *)
LEMMA RequestedTyped ==
  ASSUME NEW c \in Checkpoints, CallTyped(c), Pending(c)
  PROVE  Requested(c) \in Checkpoints
<1> DEFINE k == LatestCheckpoint(comp[c].msgs)
<1>1. comp[c].msgs \in Seq(Message) /\ k # 0
  BY DEF CallTyped
<1>2. k \in 1 .. Len(comp[c].msgs) /\ comp[c].msgs[k].id \in Checkpoints
  BY <1>1, LatestIs
<1>3. comp[c].msgs[k] \in Message
  BY <1>1, <1>2
<1> HIDE DEF k
<1> QED
  BY <1>2, <1>3 DEF Requested, Message, k

LEMMA CommitKeepsType ==
  ASSUME IInv, TypeInv, NEW c \in Checkpoints, CommitStep(c)
  PROVE  TypeInv'
<1> USE DEF IInv, CallsShaped, db
<1>1. /\ UNCHANGED <<archive, save, sent>>
      /\ comp[c].pc \in {"waiting", "read", "returned", "rejected", "verified", "failing", "marked"}
  BY DEF CommitStep, ReadSource, CommitTransaction, CommitReturned, Verify, TakeVerdict, MarkFailed, RollBack
<1>2. \A d \in Checkpoints : CallTyped(d)
  BY DEF TypeInv
<1>3. Pending(c) /\ Requested(c) \in Checkpoints
  BY <1>1, <1>2, RequestedTyped DEF Pending
<1>4. ASSUME \A d \in Checkpoints : d # c => comp'[d] = comp[d], comp'[c].pc \notin {"idle", "planned"}
      PROVE  Begun' = Begun
  BY <1>1, <1>4 DEF Begun
<1>5. Over.pc = "over" /\ Over.got \in Given /\ Over.msgs \in Seq(Message) /\ Over.gen \in Nat /\ Over.ahead \in Nat
  BY SurfaceFields DEF Over, Idle, Unset
<1>6. ASSUME \A d \in Checkpoints : d # c => comp'[d] = comp[d],
             \/ comp'[c] = Over
             \/ /\ comp'[c].got \in Given /\ comp'[c].msgs = comp[c].msgs
                /\ comp'[c].gen = comp[c].gen /\ comp'[c].ahead = comp[c].ahead
                /\ comp'[c].pc \in {"read", "rejected", "verified", "failing", "marked"}
                   \/ (comp'[c].pc = "returned" /\ comp'[c].got \in Surface /\ comp'[c].got.cid \in Checkpoints)
      PROVE  (\A d \in Checkpoints : CallTyped(d)') /\ Begun' = Begun
  <2>1. comp'[c].pc \notin {"idle", "planned"}
    BY <1>5, <1>6
  <2>2. CallTyped(c)'
    BY <1>2, <1>3, <1>5, <1>6 DEF CallTyped, Pending
  <2>3. \A d \in Checkpoints : d # c => CallTyped(d)'
    BY <1>2, <1>6 DEF CallTyped, Pending
  <2> QED
    BY <1>4, <1>6, <2>1, <2>2, <2>3
<1>7. ASSUME UNCHANGED <<live, queue>>, Begun' = Begun PROVE ListsTyped' /\ SaveTyped'
  BY <1>1, <1>7 DEF TypeInv, ListsTyped, SaveTyped
<1>8. ASSUME turn'.pc = turn.pc, turn'.got = turn.got, turn'.ahead = turn.ahead PROVE TurnTyped'
  BY <1>8 DEF TypeInv, TurnTyped
<1>9. LoadLatest \in Given /\ TablesTyped
  BY LoadTyped DEF TypeInv
<1>10. CASE ReadSource(c)
  <2>1. /\ UNCHANGED <<live, queue, turn, surfaces, rows, cache, inFlight>>
        /\ \/ comp' = [comp EXCEPT ![c].pc = "read", ![c].got = LoadLatest]
           \/ comp' = [comp EXCEPT ![c].pc = "rejected"]
    BY <1>10 DEF ReadSource
  <2>0. comp[c].got \in Given
    BY <1>2 DEF CallTyped
  <2>2. (\A d \in Checkpoints : CallTyped(d)') /\ Begun' = Begun
    BY <1>6, <1>9, <2>0, <2>1
  <2>3. TablesTyped'
    BY <1>9, <2>1 DEF TablesTyped
  <2> QED
    BY <1>7, <1>8, <2>1, <2>2, <2>3 DEF TypeInv
<1>11. CASE CommitTransaction(c)
  <2> DEFINE r == Requested(c)
             source == SourceOf(comp[c].got)
             new == [gen |-> source + 1, parent |-> source, cid |-> r,
                     nodes |-> ComputeSurfaceNodes(comp[c].msgs)]
  <2>1. source \in Nat
    BY <1>2, SurfaceFields DEF SourceOf, CallTyped
  <2>2. ComputeSurfaceNodes(comp[c].msgs) \in Seq(Plain \cup Checkpoints)
    BY <1>2, NodesAre DEF CallTyped
  <2>3. new \in Surface /\ new.cid = r
    <3>1. source + 1 \in Nat /\ source \in Nat \cup {NoGen} /\ r \in Checkpoints \cup {NoCompaction}
      BY <1>3, <2>1
    <3> HIDE DEF r, source
    <3>2. new \in Surface
      BY <2>2, <3>1, SurfaceFields
    <3> QED
      BY <3>2
  <2>4. PICK pc \in {"returned", "rejected"} : comp' = [comp EXCEPT ![c].pc = pc, ![c].got = new]
    BY <1>11 DEF CommitTransaction
  <2>5. /\ UNCHANGED <<live, queue, turn>> /\ cache' = comp[c].got /\ inFlight' = inFlight \cup {r}
        /\ \/ UNCHANGED <<surfaces, rows>>
           \/ surfaces' = surfaces \cup {new} /\ rows' = [rows EXCEPT ![r] = "completed"]
    BY <1>11 DEF CommitTransaction
  <2> HIDE DEF r, source, new
  <2>6. new \in Given
    BY <2>3 DEF Given
  <2>7. (\A d \in Checkpoints : CallTyped(d)') /\ Begun' = Begun
    BY <1>3, <1>6, <2>3, <2>4, <2>6 DEF r
  <2>8. rows' \in [Checkpoints -> {"none", "completed", "failed"}]
    BY <1>9, <2>5 DEF TablesTyped
  <2>9. surfaces' \subseteq Surface /\ inFlight' \subseteq Checkpoints /\ cache' \in Given
    BY <1>2, <1>3, <1>9, <2>3, <2>5 DEF TablesTyped, CallTyped, r
  <2>10. TablesTyped'
    BY <2>8, <2>9 DEF TablesTyped
  <2> QED
    BY <1>7, <1>8, <2>5, <2>7, <2>10 DEF TypeInv
<1>12. CASE CommitReturned(c)
  <2>1. /\ comp[c].pc = "returned" /\ comp' = [comp EXCEPT ![c] = Over] /\ cache' = comp[c].got
        /\ UNCHANGED <<surfaces, rows, queue>> /\ inFlight' = inFlight \ {c, comp[c].got.cid}
        /\ live' = [i \in DOMAIN live |->
                IF live[i].id = c THEN [id |-> c, cid |-> comp[c].got.cid, gen |-> comp[c].got.gen]
                                  ELSE live[i]]
        /\ turn' = turn \/ turn' = [turn EXCEPT !.head = c]
    BY <1>12 DEF CommitReturned, Remember
  <2>2. comp[c].got \in Surface /\ comp[c].got.cid \in Checkpoints /\ comp[c].got.gen \in Nat
    BY <1>2, <2>1, SurfaceFields DEF CallTyped
  <2>3. [id |-> c, cid |-> comp[c].got.cid, gen |-> comp[c].got.gen] \in Message
    BY <2>2 DEF Message, Messages
  <2>4. live \in Seq(Message) /\ DOMAIN live = 1 .. Len(live)
    BY DEF TypeInv, ListsTyped, Listed
  <2>5. live' \in Seq(Message) /\ Len(live') = Len(live) /\ \A i \in 1 .. Len(live) : live'[i].id = live[i].id
    <3>1. /\ \A i \in 1 .. Len(live) : live'[i] \in Message /\ live'[i].id = live[i].id
          /\ DOMAIN live' = 1 .. Len(live) /\ live' = [i \in 1 .. Len(live) |-> live'[i]]
      BY <2>1, <2>3, <2>4
    <3>2. Len(live) \in Nat
      BY <2>4
    <3>3. live' \in [1 .. Len(live) -> Message]
      BY <3>1
    <3> QED
      BY <3>1, <3>2, <3>3
  <2>6. (\A d \in Checkpoints : CallTyped(d)') /\ Begun' = Begun
    BY <1>6, <2>1
  <2>7. Listed(live', sent, Begun)
    BY <2>5, RenamedListed DEF TypeInv, ListsTyped
  <2>8. ListsTyped' /\ SaveTyped'
    BY <1>1, <2>1, <2>6, <2>7 DEF TypeInv, ListsTyped, SaveTyped
  <2>9. TablesTyped'
    BY <1>9, <2>1, <2>2 DEF TablesTyped, Given
  <2>10. TurnTyped'
    BY <1>8, <2>1
  <2> QED
    BY <2>6, <2>8, <2>9, <2>10 DEF TypeInv
<1>13. CASE Verify(c)
  <2>1. /\ UNCHANGED <<live, queue, turn, surfaces, rows, cache>> /\ inFlight' \subseteq inFlight
        /\ \/ comp' = [comp EXCEPT ![c].pc = "verified", ![c].got = LoadLatest]
           \/ comp' = [comp EXCEPT ![c].pc = "failing"]
    BY <1>13 DEF Verify
  <2>0. comp[c].got \in Given
    BY <1>2 DEF CallTyped
  <2>2. (\A d \in Checkpoints : CallTyped(d)') /\ Begun' = Begun
    BY <1>6, <1>9, <2>0, <2>1
  <2>3. TablesTyped'
    BY <1>9, <2>1 DEF TablesTyped
  <2> QED
    BY <1>7, <1>8, <2>1, <2>2, <2>3 DEF TypeInv
<1>14. CASE TakeVerdict(c)
  <2>1. /\ UNCHANGED <<live, queue, turn, surfaces, rows, inFlight>> /\ cache' = comp[c].got
        /\ \/ comp' = [comp EXCEPT ![c] = Over]
           \/ comp' = [comp EXCEPT ![c].pc = "failing"]
    BY <1>14 DEF TakeVerdict, Remember
  <2>2. (\A d \in Checkpoints : CallTyped(d)') /\ Begun' = Begun
    BY <1>2, <1>6, <2>1 DEF CallTyped
  <2>3. TablesTyped'
    BY <1>2, <1>9, <2>1 DEF TablesTyped, CallTyped
  <2> QED
    BY <1>7, <1>8, <2>1, <2>2, <2>3 DEF TypeInv
<1>15. CASE MarkFailed(c)
  <2>1. /\ UNCHANGED <<live, queue, turn, surfaces, cache, inFlight>>
        /\ comp' = [comp EXCEPT ![c].pc = "marked"]
        /\ rows' = rows \/ rows' = [rows EXCEPT ![c] = Failed(@)]
    BY <1>15 DEF MarkFailed
  <2>2. (\A d \in Checkpoints : CallTyped(d)') /\ Begun' = Begun
    BY <1>2, <1>6, <2>1 DEF CallTyped
  <2>3. rows' \in [Checkpoints -> {"none", "completed", "failed"}]
    BY <1>9, <2>1 DEF TablesTyped, Failed
  <2>4. TablesTyped'
    BY <1>9, <2>1, <2>3 DEF TablesTyped
  <2> QED
    BY <1>7, <1>8, <2>1, <2>2, <2>4 DEF TypeInv
<1>16. CASE RollBack(c)
  <2>1. /\ UNCHANGED <<turn, surfaces, rows, cache, inFlight>> /\ Enqueue(live') /\ live' = Without(live, c)
        /\ comp' = [comp EXCEPT ![c] = Over]
    BY <1>16 DEF RollBack, RolledBack
  <2>2. (\A d \in Checkpoints : CallTyped(d)') /\ Begun' = Begun
    BY <1>6, <2>1
  <2>3. Listed(live', sent, Begun)
    BY <2>1, WithoutListed DEF TypeInv, ListsTyped
  <2>4. /\ queue' \in Seq(Seq(Message)) /\ queue' # <<>>
        /\ \A i \in 1 .. Len(queue') : Listed(queue'[i], sent, Begun)
    BY <2>1, <2>3, EnqueueTyped DEF TypeInv, ListsTyped
  <2>5. ListsTyped' /\ SaveTyped'
    BY <1>1, <2>2, <2>3, <2>4 DEF TypeInv, ListsTyped, SaveTyped
  <2>6. TablesTyped'
    BY <1>9, <2>1 DEF TablesTyped
  <2> QED
    BY <1>8, <2>1, <2>2, <2>5, <2>6 DEF TypeInv
<1> QED
  BY <1>10, <1>11, <1>12, <1>13, <1>14, <1>15, <1>16 DEF CommitStep

LEMMA OtherKeepsType ==
  ASSUME IInv, TypeInv,
         \/ AddMessage \/ SendMessage \/ TurnEnds \/ Reset \/ Restart
         \/ \E c \in Checkpoints : Plan(c) \/ AbandonPlan(c) \/ InsertPlanned(c) \/ InsertMidLoop(c)
                                   \/ CommitTimesOut(c)
  PROVE  TypeInv'
<1> USE DEF IInv, CallsShaped, db
<1>1. /\ Idle.pc = "idle" /\ Idle.got \in Given /\ Idle.msgs \in Seq(Message) /\ Idle.gen \in Nat /\ Idle.ahead \in Nat
      /\ Over.pc = "over" /\ Over.got \in Given /\ Over.msgs \in Seq(Message) /\ Over.gen \in Nat /\ Over.ahead \in Nat
  BY SurfaceFields DEF Over, Idle, Unset
<1>2. /\ ListsTyped /\ TablesTyped /\ SaveTyped /\ TurnTyped /\ \A c \in Checkpoints : CallTyped(c)
      /\ Len(queue) \in Nat /\ sent \in Nat /\ Begun \subseteq Checkpoints
      /\ MaxMsgs \in Nat
  <2>1. queue \in Seq(Seq(Message))
    BY DEF TypeInv, ListsTyped
  <2>2. Len(queue) \in Nat
    BY <2>1
  <2> QED
    BY <2>2, SurfaceConstants DEF TypeInv, ListsTyped, Begun
<1>3. ASSUME UNCHANGED <<surfaces, rows, cache, inFlight>> PROVE TablesTyped'
  BY <1>2, <1>3 DEF TablesTyped
<1>4. ASSUME UNCHANGED comp PROVE (\A c \in Checkpoints : CallTyped(c)') /\ Begun' = Begun
  BY <1>2, <1>4 DEF CallTyped, Pending, Begun
<1>5. ASSUME UNCHANGED save, queue # <<>> => queue' # <<>> PROVE SaveTyped'
  BY <1>2, <1>5 DEF SaveTyped
<1>6. ASSUME NEW ms, Enqueue(ms) \/ UNCHANGED queue,
             sent' \in Nat, sent <= sent', Begun \subseteq Begun',
             Enqueue(ms) => Listed(ms, sent', Begun'),
             Listed(live', sent', Begun'), UNCHANGED <<archive, save>>
      PROVE  ListsTyped' /\ SaveTyped'
  <2>0. \A l : Listed(l, sent, Begun) => Listed(l, sent', Begun')
    BY <1>2, <1>6, ListsStay
  <2>1. /\ queue' \in Seq(Seq(Message))
        /\ \A n \in 1 .. Len(queue') : Listed(queue'[n], sent', Begun')
        /\ queue # <<>> => queue' # <<>>
    <3>1. queue \in Seq(Seq(Message)) /\ \A n \in 1 .. Len(queue) : Listed(queue[n], sent', Begun')
      BY <1>2, <2>0 DEF ListsTyped
    <3>2. CASE UNCHANGED queue
      BY <3>1, <3>2
    <3>3. CASE Enqueue(ms)
      BY <1>6, <3>1, <3>3, EnqueueTyped
    <3> QED
      BY <1>6, <3>2, <3>3
  <2>2. Listed(archive', sent', Begun')
    BY <1>2, <1>6, <2>0 DEF ListsTyped
  <2> QED
    BY <1>5, <1>6, <2>1, <2>2 DEF ListsTyped
<1>7. ASSUME sent < MaxMsgs, live' = Append(live, NewMessage), sent' = sent + 1, UNCHANGED comp
      PROVE  Listed(live', sent', Begun') /\ sent' \in Nat /\ sent <= sent' /\ Begun \subseteq Begun'
  <2>1. sent + 1 \in Plain /\ sent + 1 \in Nat
    BY <1>2, <1>7 DEF Plain
  <2>2. NewMessage \in Message /\ NewMessage.id = sent + 1
    <3>1. NewMessage.id = sent + 1 /\ NewMessage.cid = NoCompaction /\ NewMessage.gen = 0
      BY DEF NewMessage, Unset
    <3>2. NewMessage \in Messages
      BY <2>1 DEF NewMessage, Unset, Messages
    <3>3. NewMessage.id \notin Checkpoints
      BY <3>1, <2>1, SurfaceConstants
    <3> QED
      BY <3>1, <3>2, <3>3 DEF Message
  <2>3. Listed(live, sent, Begun)
    BY <1>2 DEF ListsTyped
  <2>4. Listed(Append(live, NewMessage), sent + 1, Begun)
    BY <1>2, <2>1, <2>2, <2>3, AppendListed
  <2>5. Begun' = Begun
    BY <1>4, <1>7
  <2> QED
    BY <1>2, <1>7, <2>1, <2>4, <2>5
<1>8. CASE AddMessage
  <2>1. /\ sent < MaxMsgs /\ live' = Append(live, NewMessage) /\ sent' = sent + 1
        /\ Enqueue(live') \/ UNCHANGED queue
        /\ UNCHANGED <<archive, surfaces, rows, cache, inFlight, save, comp, turn>>
    BY <1>8 DEF AddMessage
  <2>2. ListsTyped' /\ SaveTyped'
    BY <1>6, <1>7, <2>1
  <2>3. TurnTyped'
    BY <1>2, <2>1 DEF TurnTyped
  <2> QED
    BY <1>3, <1>4, <2>1, <2>2, <2>3 DEF TypeInv
<1>9. CASE SendMessage
  <2>1. /\ sent < MaxMsgs /\ live' = Append(live, NewMessage) /\ sent' = sent + 1
        /\ Enqueue(live')
        /\ turn' = [Idle EXCEPT !.pc = "waiting", !.ahead = Len(queue')]
        /\ UNCHANGED <<archive, surfaces, rows, cache, inFlight, save, comp>>
    BY <1>9 DEF SendMessage
  <2>2. ListsTyped' /\ SaveTyped'
    BY <1>6, <1>7, <2>1
  <2>3. TurnTyped'
    <3>1. queue' \in Seq(Seq(Message))
      BY <2>2 DEF ListsTyped
    <3>2. Len(queue') \in Nat
      BY <3>1
    <3>3. turn'.pc = "waiting" /\ turn'.ahead = Len(queue') /\ turn'.got = Idle.got
      BY <2>1 DEF Idle
    <3> QED
      BY <1>1, <3>2, <3>3 DEF TurnTyped
  <2> QED
    BY <1>3, <1>4, <2>1, <2>2, <2>3 DEF TypeInv
<1>10. CASE TurnEnds
  <2>1. /\ turn' = Idle /\ Enqueue(live)
        /\ UNCHANGED <<archive, surfaces, rows, live, sent, cache, inFlight, save, comp>>
    BY <1>10 DEF TurnEnds
  <2>2. Begun' = Begun /\ Listed(live, sent, Begun)
    BY <1>2, <1>4, <2>1 DEF ListsTyped
  <2>3. ListsTyped' /\ SaveTyped'
    BY <1>2, <1>6, <2>1, <2>2
  <2>4. TurnTyped'
    BY <1>1, <2>1 DEF TurnTyped
  <2> QED
    BY <1>3, <1>4, <2>1, <2>3, <2>4 DEF TypeInv
<1>11. CASE Reset
  <2>1. PICK k \in 0 .. Len(live) - 1 : live' = SubSeq(live, 1, k)
    BY <1>11 DEF Reset
  <2>2. /\ Enqueue(live') /\ cache' = Forgotten
        /\ UNCHANGED <<archive, surfaces, rows, sent, inFlight, save, comp, turn>>
    BY <1>11 DEF Reset
  <2>3. live \in Seq(Message)
    BY <1>2 DEF ListsTyped, Listed
  <2>4. k \in 0 .. Len(live)
    BY <2>3
  <2>5. Begun' = Begun /\ Listed(live', sent, Begun)
    BY <1>2, <1>4, <2>1, <2>2, <2>4, PrefixListed DEF ListsTyped
  <2>6. ListsTyped' /\ SaveTyped'
    BY <1>2, <1>6, <2>2, <2>5
  <2>7. TurnTyped' /\ TablesTyped'
    BY <1>2, <2>2 DEF TurnTyped, TablesTyped
  <2> QED
    BY <1>4, <2>2, <2>6, <2>7 DEF TypeInv
<1>12. CASE Restart
  <2>1. /\ live' = archive /\ cache' = Forgotten /\ inFlight' = {}
        /\ queue' = <<>> /\ save' = [pc |-> "idle", got |-> NoSurface]
        /\ comp' = [c \in Checkpoints |-> IF comp[c].pc = "idle" THEN Idle ELSE Over]
        /\ turn' = Idle /\ UNCHANGED <<archive, surfaces, rows, sent>>
    BY <1>12 DEF Restart
  <2>2. Begun \subseteq Begun'
    BY <1>1, <2>1 DEF Begun
  <2>3. \A l : Listed(l, sent, Begun) => Listed(l, sent', Begun')
    BY <1>2, <2>1, <2>2, ListsStay
  <2>4. ListsTyped'
    <3>1. Listed(live', sent', Begun') /\ Listed(archive', sent', Begun')
      BY <1>2, <2>1, <2>3 DEF ListsTyped
    <3>2. queue' \in Seq(Seq(Message)) /\ 1 .. Len(queue') = {}
      BY <2>1
    <3> QED
      BY <1>2, <2>1, <3>1, <3>2 DEF ListsTyped
  <2>5. SaveTyped'
    BY <2>1, SurfaceFields DEF SaveTyped
  <2>6. TurnTyped' /\ TablesTyped'
    BY <1>1, <1>2, <2>1 DEF TurnTyped, TablesTyped
  <2>7. \A c \in Checkpoints : CallTyped(c)'
    BY <1>1, <2>1 DEF CallTyped, Pending
  <2> QED
    BY <2>4, <2>5, <2>6, <2>7 DEF TypeInv
<1>13. ASSUME NEW c \in Checkpoints, Plan(c) PROVE TypeInv'
  <2> DEFINE s == IF cache = Forgotten THEN LoadLatest ELSE cache
             g == IF s.gen = NoGen THEN 1 ELSE s.gen + 1
  <2>1. /\ cache' = s /\ comp' = [comp EXCEPT ![c] = [Idle EXCEPT !.pc = "planned", !.msgs = live, !.gen = g]]
        /\ UNCHANGED <<archive, surfaces, rows, live, sent, inFlight, queue, save, turn>>
        /\ comp[c].pc = "idle"
    BY <1>13 DEF Plan
  <2>2. s \in Given
    BY <1>2, LoadTyped DEF TablesTyped
  <2>3. g \in Nat
    BY <2>2, SurfaceFields
  <2> HIDE DEF s, g
  <2>4. /\ comp'[c].pc = "planned" /\ comp'[c].msgs = live /\ comp'[c].gen = g
        /\ comp'[c].got = Idle.got /\ comp'[c].ahead = Idle.ahead
        /\ \A d \in Checkpoints : d # c => comp'[d] = comp[d]
    BY <2>1 DEF Idle
  <2>5. Begun' = Begun
    BY <2>1, <2>4 DEF Begun
  <2>6. ListsTyped' /\ SaveTyped' /\ TurnTyped'
    BY <1>2, <2>1, <2>5 DEF ListsTyped, SaveTyped, TurnTyped
  <2>7. TablesTyped'
    BY <1>2, <2>1, <2>2 DEF TablesTyped
  <2>8. live \in Seq(Message)
    BY <1>2 DEF ListsTyped, Listed
  <2>9. \A d \in Checkpoints : CallTyped(d)'
    BY <1>1, <1>2, <2>3, <2>4, <2>8 DEF CallTyped, Pending
  <2> QED
    BY <2>6, <2>7, <2>9 DEF TypeInv
<1>14. ASSUME NEW c \in Checkpoints, AbandonPlan(c) PROVE TypeInv'
  <2>1. /\ comp' = [comp EXCEPT ![c] = Over]
        /\ UNCHANGED <<archive, surfaces, rows, live, sent, cache, inFlight, queue, save, turn>>
    BY <1>14 DEF AbandonPlan
  <2>2. Begun \subseteq Begun'
    BY <1>1, <2>1 DEF Begun
  <2>3. \A l : Listed(l, sent, Begun) => Listed(l, sent', Begun')
    BY <1>2, <2>1, <2>2, ListsStay
  <2>4. ListsTyped' /\ SaveTyped' /\ TurnTyped'
    BY <1>2, <2>1, <2>3 DEF ListsTyped, SaveTyped, TurnTyped
  <2>5. \A d \in Checkpoints : CallTyped(d)'
    BY <1>1, <1>2, <2>1 DEF CallTyped, Pending
  <2> QED
    BY <1>3, <2>1, <2>4, <2>5 DEF TypeInv
<1>15. ASSUME NEW c \in Checkpoints, CommitTimesOut(c) PROVE TypeInv'
  <2>1. UNCHANGED <<archive, surfaces, rows, live, sent, cache, inFlight, queue, save, turn, comp>>
    BY <1>15 DEF CommitTimesOut
  <2>2. ListsTyped' /\ SaveTyped' /\ TurnTyped'
    BY <1>2, <1>4, <2>1 DEF ListsTyped, SaveTyped, TurnTyped
  <2> QED
    BY <1>3, <1>4, <2>1, <2>2 DEF TypeInv
<1>16. ASSUME NEW c \in Checkpoints, InsertPlanned(c) \/ InsertMidLoop(c) PROVE TypeInv'
  <2>1. PICK gen \in Nat, k \in 0 .. Len(live) : Insert(c, gen, k)
    <3>1. live \in Seq(Message) /\ DOMAIN live = 1 .. Len(live) /\ Len(live) \in Nat
      BY <1>2 DEF ListsTyped, Listed
    <3>2. CASE InsertPlanned(c)
      <4>1. PICK k \in LatestCheckpoint(comp[c].msgs) + 1 .. Len(comp[c].msgs) :
              SafeInsert(comp[c].msgs, k) /\ Insert(c, comp[c].gen, k)
        BY <3>2 DEF InsertPlanned
      <4>2. comp[c].msgs \in Seq(Message) /\ comp[c].gen \in Nat /\ Len(comp[c].msgs) \in Nat
        BY <1>2 DEF CallTyped
      <4>3. LatestCheckpoint(comp[c].msgs) \in Nat
        BY <4>2, LatestIs
      <4>4. k \in 0 .. Len(live)
        BY <3>1, <4>1, <4>2, <4>3 DEF SafeInsert
      <4> QED
        BY <4>1, <4>2, <4>4
    <3>3. CASE InsertMidLoop(c)
      <4>1. PICK k \in DOMAIN live : Insert(c, Unset, k)
        BY <3>3 DEF InsertMidLoop
      <4>2. k \in 0 .. Len(live) /\ Unset \in Nat
        BY <3>1, <4>1 DEF Unset
      <4> QED
        BY <4>1, <4>2
    <3> QED
      BY <1>16, <3>2, <3>3
  <2>2. /\ comp[c].pc \in {"idle", "planned"}
        /\ UNCHANGED <<archive, surfaces, rows, cache, save, sent>>
        /\ turn' = turn \/ turn' = [turn EXCEPT !.cut = c]
    BY <1>16 DEF InsertPlanned, InsertMidLoop
  <2>3. /\ live' = InsertCheckpoint(live, c, gen, k) /\ inFlight' = inFlight \cup {c} /\ Enqueue(live')
        /\ comp' = [comp EXCEPT ![c] = [Idle EXCEPT !.pc = "waiting", !.msgs = live', !.gen = gen,
                                                   !.ahead = Len(queue')]]
    BY <2>1 DEF Insert
  <2>4. /\ comp'[c].pc = "waiting" /\ comp'[c].msgs = live' /\ comp'[c].gen = gen
        /\ comp'[c].got = Idle.got /\ comp'[c].ahead = Len(queue')
        /\ \A d \in Checkpoints : d # c => comp'[d] = comp[d]
    BY <2>3 DEF Idle
  <2>5. Begun' = Begun \cup {c} /\ c \notin Begun
    BY <2>2, <2>4 DEF Begun
  <2>6. Listed(live', sent, Begun \cup {c})
    BY <1>2, <2>3, <2>5, InsertListed DEF ListsTyped
  <2>7. ListsTyped' /\ SaveTyped'
    BY <1>2, <1>6, <2>2, <2>3, <2>5, <2>6
  <2>8. Len(queue') \in Nat
    <3>1. queue' \in Seq(Seq(Message))
      BY <2>7 DEF ListsTyped
    <3> QED
      BY <3>1
  <2>9. live' \in Seq(Message) /\ LatestCheckpoint(live') # 0
    <3>1. live \in Seq(Message) /\ Len(live) \in Nat
      BY <1>2 DEF ListsTyped, Listed
    <3>2. live' \in Seq(Message) /\ Len(live') = Len(live) + 1 /\ live'[k + 1].id = c
      BY <2>3, <3>1, InsertedIs DEF Inserted
    <3>3. k + 1 \in 1 .. Len(live') /\ k \in Nat
      BY <3>1, <3>2
    <3>4. k + 1 <= LatestCheckpoint(live')
      BY <3>2, <3>3, LatestIs
    <3> QED
      BY <3>2, <3>3, <3>4
  <2>10. CallTyped(c)'
    BY <1>1, <2>4, <2>8, <2>9 DEF CallTyped
  <2>11. \A d \in Checkpoints : CallTyped(d)'
    BY <1>2, <2>4, <2>10 DEF CallTyped, Pending
  <2>12. TablesTyped' /\ TurnTyped'
    BY <1>2, <2>2, <2>3 DEF TablesTyped, TurnTyped
  <2> QED
    BY <2>7, <2>11, <2>12 DEF TypeInv
<1> QED
  BY <1>8, <1>9, <1>10, <1>11, <1>12, <1>13, <1>14, <1>15, <1>16

LEMMA TypeNext == IInv /\ TypeInv /\ [Next]_vars => TypeInv'
<1>1. ASSUME IInv, TypeInv, Next PROVE TypeInv'
  BY <1>1, SaveKeepsType, HydrateKeepsType, CommitKeepsType, OtherKeepsType DEF Next
<1>2. ASSUME TypeInv, UNCHANGED vars PROVE TypeInv'
  <2>1. Begun' = Begun
    BY <1>2 DEF Begun, vars
  <2>2. ListsTyped' /\ TablesTyped' /\ SaveTyped' /\ TurnTyped'
    BY <1>2, <2>1 DEF vars, TypeInv, ListsTyped, TablesTyped, SaveTyped, TurnTyped
  <2>3. \A c \in Checkpoints : CallTyped(c)'
    BY <1>2 DEF vars, TypeInv, CallTyped, Pending
  <2> QED
    BY <2>2, <2>3 DEF TypeInv
<1> QED
  BY <1>1, <1>2

-----------------------------------------------------------------------------
(* Every variable keeps its shape, no two messages of the session have one *)
(* id, and nobody waits for fewer than no jobs: the bookkeeping of         *)
(* saveMessageBatch, save_context_surface and commitCheckpointOrdered.     *)
THEOREM TypeCorrect == Spec => []TypeOK
<1>1. ASSUME TypeInv PROVE TypeOK
  <2>1. /\ \A ms, n, b : Listed(ms, n, b) => ms \in Seq(Messages)
        /\ DOMAIN live = 1 .. Len(live)
    <3>1. Message \subseteq Messages
      BY DEF Message
    <3>2. \A ms \in Seq(Message) : ms \in Seq(Messages) /\ DOMAIN ms = 1 .. Len(ms)
      BY <3>1
    <3> QED
      BY <1>1, <3>2 DEF Listed, TypeInv, ListsTyped
  <2>2. /\ archive \in Seq(Messages) /\ live \in Seq(Messages)
        /\ \A i, j \in DOMAIN live : live[i].id = live[j].id => i = j
    BY <1>1, <2>1 DEF TypeInv, ListsTyped, Listed
  <2>3. /\ surfaces \subseteq Surface
        /\ rows \in [Checkpoints -> {"none", "completed", "failed"}]
        /\ cache \in Surface \cup {NoSurface, Forgotten}
        /\ inFlight \subseteq Checkpoints
    BY <1>1 DEF TypeInv, TablesTyped, Given
  <2>4. (\A c \in Checkpoints : comp[c].ahead \in Nat) /\ turn.ahead \in Nat
    BY <1>1 DEF TypeInv, CallTyped, TurnTyped
  <2> QED
    BY <2>2, <2>3, <2>4 DEF TypeOK
<1> QED
  BY <1>1, TypeInit, TypeNext, IInvInit, IInvNext, PTL DEF Spec

-----------------------------------------------------------------------------
(* No orphan's message gets into a generation that a compaction made.      *)

Steady == Calm({"restart"})

(* The conditions of AdoptedCommitted.                                     *)
Smooth == Calm({"archive refused", "precedes"})
Once == AtMostOnce("restart")
Sound == Serial /\ Smooth /\ Once

Ended == {c \in Checkpoints : comp[c].pc = "over"}

(* Where the checkpoints of a list stand.                                  *)
Points(ms) == {i \in 1 .. Len(ms) : ms[i].id \in Checkpoints}

(* Checkpoints without a commit in a list of the running application: one  *)
(* orphan, left behind by a crash, and the one whose compaction is under   *)
(* way, which is the last checkpoint.                                      *)
Kept(ms, done, ended, crashed) ==
  /\ \A i, j \in Points(ms) : ms[i].id \in ended \ done /\ ms[j].id \in ended \ done => i = j
  /\ \A i \in Points(ms) : ms[i].id \in ended \ done => crashed
  /\ \A i, j \in Points(ms) : ms[i].id \notin done \cup ended => j <= i

(* In every list the last committed checkpoint is that of the latest       *)
(* generation, and one after it has a number no generation has.            *)
LastDone(ms, i, done) == \A j \in Points(ms) : j > i => ms[j].id \notin done

Headed(ms, done, S) ==
  /\ \A i \in Points(ms) : ms[i].cid = ms[i].id
  /\ \A t \in S : t.cid # NoCompaction /\ (\A u \in S : u.gen <= t.gen) =>
       \E i \in Points(ms) : ms[i].id = t.cid /\ LastDone(ms, i, done)
  /\ \A i \in Points(ms) :
       ms[i].id \notin done /\ ms[i].gen # Unset /\ LastDone(ms, i, done) => \A t \in S : t.gen < ms[i].gen

(* The lists of the running application, and all that a later step may     *)
(* find.                                                                   *)
Fresh == {live} \cup {queue[n] : n \in 1 .. Len(queue)}
Copies == Fresh \cup {archive}

(* A waiting save holds no message that the ones after it do not.          *)
Chained ==
  /\ \A m, n \in 1 .. Len(queue) : m <= n => IdSet(queue[m]) \subseteq IdSet(queue[n])
  /\ \A n \in 1 .. Len(queue) : IdSet(queue[n]) \subseteq IdSet(live)

(* The archive holds one orphan at most for the first crash to leave.      *)
OneStored ==
  Steady => \A i, j \in Points(archive) :
              archive[i].id \notin Completed /\ archive[j].id \notin Completed => i = j

ListsSound ==
  /\ \A ms \in Fresh : Kept(ms, Completed, Ended, ~Steady)
  /\ \A ms \in Copies : Headed(ms, Completed, surfaces)
  /\ OneStored /\ Chained

(* A surface says of its generation what the tables S say.                 *)
Faithful(s, S) ==
  /\ s.gen <= 0 => s.cid = NoCompaction
  /\ s.gen > 0 => \E t \in S : t.gen = s.gen
  /\ \A t \in S : t.gen = s.gen => t.cid = s.cid

(* Its checkpoints are committed ones; a generation no compaction made may *)
(* hold an orphan.                                                         *)
Clean(s, done, ended) ==
  \A d \in RangeOf(s.nodes) \cap Checkpoints : d \in done \/ (s.cid = NoCompaction /\ d \in ended)

(* Its nodes are in every list: no hydration finds it incomplete.          *)
Present(s, copies) == \A ms \in copies : RangeOf(s.nodes) \subseteq IdSet(ms)

SaneIn(s, S, done, ended, copies) ==
  s.gen \in Int /\ Faithful(s, S) /\ Clean(s, done, ended) /\ Present(s, copies)

Sane(s) == SaneIn(s, surfaces, Completed, Ended, Copies)

SurfacesSound ==
  /\ \A s \in surfaces : Sane(s)
  /\ Sane(cache) /\ Sane(save.got) /\ Sane(turn.got)
  /\ \A c \in Checkpoints : comp[c].pc \in {"read", "returned", "verified"} => Sane(comp[c].got)
  /\ turn.pc \in {"idle", "waiting", "loaded", "running"}

(* Its compaction is that of the latest generation.                        *)
Top(S, c) == S # {} /\ \A t \in S : (\A u \in S : u.gen <= t.gen) => t.cid = c

(* What becomes of a commit: until its call returns it did not land, and a *)
(* rejected one that did is the latest generation.                         *)
Fate(c) ==
  /\ comp[c].pc \in {"idle", "planned", "waiting", "read", "failing", "marked"} => c \notin Completed
  /\ comp[c].pc = "rejected" /\ c \in Completed => ~Replied /\ Top(surfaces, c)
  /\ comp[c].pc = "verified" /\ c \in Completed => comp[c].got.cid = c
  /\ comp[c].pc = "returned" => comp[c].got.cid = c

(* What a compaction works on: nobody adds a message meanwhile, and its    *)
(* commit finds the list it is about in the archive.                       *)
InHand(c) ==
  /\ comp[c].pc = "planned" => comp[c].msgs = live /\ \A t \in surfaces : t.gen < comp[c].gen
  /\ Pending(c) =>
       /\ comp[c].msgs = live
       /\ \E i \in Points(live) : live[i].id = c /\ \A j \in Points(live) : j <= i
       /\ IF queue # <<>> THEN queue[Len(queue)] = live ELSE archive = live
  /\ comp[c].pc = "waiting" => c \in inFlight

Orderly ==
  /\ ListsSound /\ SurfacesSound
  /\ \A c \in Checkpoints : Fate(c) /\ InHand(c)
  /\ save.pc # "idle" => archive = Head(queue)

OrphanInv == Sound => Orderly

(* A second restart is not the first.                                      *)
Counted == Once => \A u \in upset : u[1] = "restart" => u = <<"restart", 1>>

-----------------------------------------------------------------------------
(* The checkpoints of a list that changes.                                 *)

LEMMA AppendPoints ==
  ASSUME NEW ms \in Seq(Message), NEW m \in Message, m.id \notin Checkpoints
  PROVE  /\ Points(Append(ms, m)) = Points(ms) /\ IdSet(ms) \subseteq IdSet(Append(ms, m))
         /\ \A i \in Points(ms) : Append(ms, m)[i] = ms[i]
<1>1. Len(ms) \in Nat /\ DOMAIN ms = 1 .. Len(ms)
  OBVIOUS
<1> DEFINE new == Append(ms, m)
<1>2. /\ new \in Seq(Message) /\ Len(new) = Len(ms) + 1 /\ new[Len(ms) + 1] = m
      /\ DOMAIN new = 1 .. Len(ms) + 1
      /\ \A i \in 1 .. Len(ms) : new[i] = ms[i]
  BY <1>1
<1>3. \A i \in 1 .. Len(ms) + 1 : i = Len(ms) + 1 \/ i \in 1 .. Len(ms)
  BY <1>1
<1>4. \A i \in 1 .. Len(ms) : i \in 1 .. Len(ms) + 1
  BY <1>1
<1> HIDE DEF new, Message
<1>5. Points(new) = Points(ms) /\ \A i \in Points(ms) : new[i] = ms[i]
  BY <1>2, <1>3, <1>4 DEF Points
<1>6. IdSet(ms) \subseteq IdSet(new)
  BY <1>1, <1>2, <1>4 DEF IdSet
<1> QED
  BY <1>5, <1>6 DEF new

LEMMA InsertPoints ==
  ASSUME NEW ms \in Seq(Message), NEW c \in Checkpoints, NEW gen \in Nat, NEW k \in 0 .. Len(ms),
         LatestCheckpoint(ms) <= k
  PROVE  /\ Points(InsertCheckpoint(ms, c, gen, k)) = Points(ms) \cup {k + 1}
         /\ \A i \in Points(ms) : i <= k /\ InsertCheckpoint(ms, c, gen, k)[i] = ms[i]
         /\ IdSet(ms) \subseteq IdSet(InsertCheckpoint(ms, c, gen, k))
<1>1. Len(ms) \in Nat /\ DOMAIN ms = 1 .. Len(ms) /\ k \in Nat
  OBVIOUS
<1> DEFINE new == InsertCheckpoint(ms, c, gen, k)
<1>i. Inserted(ms, new, c, gen, k)
  BY InsertedIs
<1> HIDE DEF new, Message
<1>2. /\ new \in Seq(Message) /\ Len(new) = Len(ms) + 1
      /\ \A i \in 1 .. k : new[i] = ms[i]
      /\ new[k + 1].id = c
      /\ \A i \in k + 2 .. Len(ms) + 1 : new[i] = ms[i - 1]
  BY <1>i DEF Inserted
<1>0. DOMAIN new = 1 .. Len(ms) + 1
  BY <1>2
<1>3. \A i \in Points(ms) : i \in 1 .. k
  <2>1. LatestCheckpoint(ms) \in Nat
    BY <1>1, LatestIs
  <2>2. \A i \in Points(ms) : i \in 1 .. Len(ms) /\ i <= LatestCheckpoint(ms)
    BY LatestIs DEF Points
  <2> QED
    BY <1>1, <2>1, <2>2
<1>4. \A i \in 1 .. Len(ms) + 1 : i \in 1 .. k \/ i = k + 1 \/ (i \in k + 2 .. Len(ms) + 1 /\ i - 1 \in 1 .. Len(ms) /\ i - 1 \notin 1 .. k)
  BY <1>1
<1>5. k + 1 \in 1 .. Len(ms) + 1 /\ \A i \in 1 .. k : i \in 1 .. Len(ms) /\ i \in 1 .. Len(ms) + 1
  BY <1>1
<1>6. Points(new) \subseteq Points(ms) \cup {k + 1}
  <2> SUFFICES ASSUME NEW i \in Points(new), i # k + 1 PROVE i \in Points(ms)
    OBVIOUS
  <2>1. i \in 1 .. Len(ms) + 1 /\ new[i].id \in Checkpoints
    BY <1>2 DEF Points
  <2>2. CASE i \in 1 .. k
    BY <1>2, <1>5, <2>1, <2>2 DEF Points
  <2>3. CASE i \in k + 2 .. Len(ms) + 1 /\ i - 1 \in 1 .. Len(ms) /\ i - 1 \notin 1 .. k
    <3>1. i - 1 \in Points(ms)
      BY <1>2, <2>1, <2>3 DEF Points
    <3> QED
      BY <1>3, <2>3, <3>1
  <2> QED
    BY <1>4, <2>1, <2>2, <2>3
<1>7. Points(ms) \cup {k + 1} \subseteq Points(new)
  BY <1>2, <1>3, <1>5 DEF Points
<1>8. \A i \in Points(ms) : i <= k /\ new[i] = ms[i]
  BY <1>1, <1>2, <1>3
<1>9. IdSet(ms) \subseteq IdSet(new)
  <2>1. ASSUME NEW i \in 1 .. Len(ms) PROVE ms[i].id \in IdSet(new)
    <3>1. CASE i <= k
      <4>1. i \in 1 .. Len(ms) + 1 /\ new[i] = ms[i]
        BY <1>1, <1>2, <3>1
      <4> QED
        BY <1>0, <4>1 DEF IdSet
    <3>2. CASE ~(i <= k)
      <4>1. i + 1 \in k + 2 .. Len(ms) + 1 /\ i + 1 \in 1 .. Len(ms) + 1 /\ (i + 1) - 1 = i
        BY <1>1, <3>2
      <4>2. new[i + 1] = ms[i]
        BY <1>2, <4>1
      <4> QED
        BY <1>0, <4>1, <4>2 DEF IdSet
    <3> QED
      BY <3>1, <3>2
  <2> QED
    BY <1>1, <2>1 DEF IdSet
<1> QED
  BY <1>6, <1>7, <1>8, <1>9 DEF new

LEMMA DropPoints ==
  ASSUME NEW ms \in Seq(Message), NEW k \in Points(ms), \A j \in Points(ms) : j <= k,
         \A i, j \in 1 .. Len(ms) : ms[i].id = ms[j].id => i = j
  PROVE  /\ Points(Without(ms, ms[k].id)) = Points(ms) \ {k}
         /\ \A i \in Points(ms) \ {k} : Without(ms, ms[k].id)[i] = ms[i]
         /\ IdSet(Without(ms, ms[k].id)) = IdSet(ms) \ {ms[k].id}
         /\ Without(ms, ms[k].id) \in Seq(Message)
<1> DEFINE new == Without(ms, ms[k].id)
<1>1. Len(ms) \in Nat /\ DOMAIN ms = 1 .. Len(ms) /\ k \in 1 .. Len(ms) /\ k \in Nat
  BY DEF Points
<1>2. /\ new \in Seq(Message) /\ Len(new) = Len(ms) - 1
      /\ \A i \in 1 .. Len(ms) - 1 : new[i] = IF i < k THEN ms[i] ELSE ms[i + 1]
  BY <1>1, DroppedIs
<1>3. DOMAIN new = 1 .. Len(ms) - 1
  BY <1>2
<1> HIDE DEF new, Message
<1>4. \A i \in 1 .. Len(ms) - 1 : (i < k /\ i \in 1 .. Len(ms)) \/ (~(i < k) /\ i + 1 \in 1 .. Len(ms) /\ i + 1 > k)
  BY <1>1
<1>5. \A i \in 1 .. Len(ms) : (i < k /\ i \in 1 .. Len(ms) - 1) \/ i = k \/ (i > k /\ i - 1 \in 1 .. Len(ms) - 1 /\ ~(i - 1 < k) /\ (i - 1) + 1 = i)
  BY <1>1
<1>6. \A i \in Points(ms) : i \in 1 .. Len(ms) /\ (i = k \/ (i < k /\ i \in 1 .. Len(ms) - 1))
  BY <1>1, <1>5 DEF Points
<1>7. Points(new) \subseteq Points(ms) \ {k}
  <2> SUFFICES ASSUME NEW i \in Points(new) PROVE i \in Points(ms) /\ i # k
    OBVIOUS
  <2>1. i \in 1 .. Len(ms) - 1 /\ new[i].id \in Checkpoints
    BY <1>2 DEF Points
  <2>2. CASE i < k /\ i \in 1 .. Len(ms)
    BY <1>1, <1>2, <2>1, <2>2 DEF Points
  <2>3. CASE ~(i < k) /\ i + 1 \in 1 .. Len(ms) /\ i + 1 > k
    <3>1. new[i] = ms[i + 1]
      BY <1>2, <2>1, <2>3
    <3>2. i + 1 \in Points(ms)
      BY <2>1, <2>3, <3>1 DEF Points
    <3> QED
      BY <1>1, <2>1, <2>3, <3>2
  <2> QED
    BY <1>4, <2>1, <2>2, <2>3
<1>8. \A i \in Points(ms) \ {k} : i \in Points(new) /\ new[i] = ms[i]
  BY <1>2, <1>6 DEF Points
<1>9. IdSet(new) \subseteq IdSet(ms) \ {ms[k].id}
  <2>1. ASSUME NEW j \in 1 .. Len(ms), j # k PROVE ms[j].id \in IdSet(ms) \ {ms[k].id}
    BY <1>1, <2>1 DEF IdSet
  <2>2. ASSUME NEW i \in 1 .. Len(ms) - 1 PROVE new[i].id \in IdSet(ms) \ {ms[k].id}
    <3>1. CASE i < k /\ i \in 1 .. Len(ms)
      <4>1. new[i] = ms[i] /\ i # k
        BY <1>1, <1>2, <3>1
      <4> QED
        BY <2>1, <3>1, <4>1
    <3>2. CASE ~(i < k) /\ i + 1 \in 1 .. Len(ms) /\ i + 1 > k
      <4>1. new[i] = ms[i + 1] /\ i + 1 # k
        BY <1>1, <1>2, <3>2
      <4> QED
        BY <2>1, <3>2, <4>1
    <3> QED
      BY <1>4, <3>1, <3>2
  <2>3. IdSet(new) = {new[i].id : i \in 1 .. Len(ms) - 1}
    BY <1>3 DEF IdSet
  <2> QED
    BY <2>2, <2>3
<1>10. IdSet(ms) \ {ms[k].id} \subseteq IdSet(new)
  <2>1. ASSUME NEW j \in 1 .. Len(ms) - 1 PROVE new[j].id \in IdSet(new)
    BY <1>3 DEF IdSet
  <2>2. ASSUME NEW i \in 1 .. Len(ms), i # k PROVE ms[i].id \in IdSet(new)
    <3>1. CASE i < k /\ i \in 1 .. Len(ms) - 1
      <4>1. new[i] = ms[i]
        BY <1>2, <3>1
      <4> QED
        BY <2>1, <3>1, <4>1
    <3>2. CASE i > k /\ i - 1 \in 1 .. Len(ms) - 1 /\ ~(i - 1 < k) /\ (i - 1) + 1 = i
      <4>1. new[i - 1] = ms[i]
        BY <1>2, <3>2
      <4> QED
        BY <2>1, <3>2, <4>1
    <3> QED
      BY <1>5, <2>2, <3>1, <3>2
  <2>3. IdSet(ms) = {ms[i].id : i \in 1 .. Len(ms)}
    BY <1>1 DEF IdSet
  <2> QED
    BY <2>2, <2>3
<1> QED
  BY <1>2, <1>7, <1>8, <1>9, <1>10 DEF new

(* A surface's nodes are messages of the list it is computed from.         *)
LEMMA NodesIn ==
  ASSUME NEW ms \in Seq(Message)
  PROVE  RangeOf(ComputeSurfaceNodes(ms)) \subseteq IdSet(ms)
<1> DEFINE k == LatestCheckpoint(ms)
           a == IF k = 0 THEN 1 ELSE k
           tail == SubSeq(ms, a, Len(ms))
<1>1. k \in 0 .. Len(ms) /\ Len(ms) \in Nat /\ DOMAIN ms = 1 .. Len(ms)
  BY LatestIs
<1> HIDE DEF k
<1>2. a \in Nat /\ a >= 1
  BY <1>1
<1> HIDE DEF a, Message
<1>3. \A i \in a .. Len(ms) : i \in 1 .. Len(ms) /\ ms[i] \in Message
  BY <1>1, <1>2
<1>4. /\ tail \in Seq(Message) /\ Len(tail) = IF a <= Len(ms) THEN Len(ms) - a + 1 ELSE 0
      /\ \A i \in 1 .. Len(ms) - a + 1 : tail[i] = ms[a + i - 1]
  BY <1>1, <1>2, <1>3, SubSeqProperties
<1>5. ComputeSurfaceNodes(ms) = IdsOf(tail)
  BY <1>2, IdsOfTail DEF ComputeSurfaceNodes, k, a
<1> HIDE DEF tail
<1>6. \A i \in 1 .. Len(tail) : i \in 1 .. Len(ms) - a + 1 /\ a + i - 1 \in 1 .. Len(ms)
  BY <1>1, <1>2, <1>4
<1>7. DOMAIN tail = 1 .. Len(tail)
  BY <1>4
<1>8. IdsOf(tail) = [i \in 1 .. Len(tail) |-> tail[i].id]
  BY <1>7 DEF IdsOf
<1>9. ASSUME NEW x \in RangeOf(IdsOf(tail)) PROVE x \in IdSet(ms)
  <2>1. PICK i \in 1 .. Len(tail) : x = tail[i].id
    BY <1>8 DEF RangeOf
  <2>2. x = ms[a + i - 1].id /\ a + i - 1 \in 1 .. Len(ms)
    BY <1>4, <1>6, <2>1
  <2> QED
    BY <1>1, <2>2 DEF IdSet
<1> QED
  BY <1>5, <1>9

-----------------------------------------------------------------------------
(* What a change of the tables leaves as it was.                           *)

(* The generations and their compactions stay; one that no compaction made *)
(* may come first.                                                         *)
Relabels(S, S2) ==
  /\ \A u \in S2 : (\E t \in S : t.gen = u.gen /\ t.cid = u.cid) \/ (u.gen = 0 /\ u.cid = NoCompaction)
  /\ \A t \in S : \E u \in S2 : u.gen = t.gen /\ u.cid = t.cid

LEMMA SameRelabels == \A S : Relabels(S, S)
BY DEF Relabels

LEMMA KeptStays ==
  ASSUME NEW ms, NEW done, NEW ended, NEW crashed, NEW done2, NEW ended2, NEW crashed2,
         Kept(ms, done, ended, crashed), done \subseteq done2, ended \subseteq ended2,
         \A i \in Points(ms) : ms[i].id \in ended2 => ms[i].id \in ended \cup done2,
         crashed => crashed2
  PROVE  Kept(ms, done2, ended2, crashed2)
BY DEF Kept

LEMMA HeadedStays ==
  ASSUME NEW ms \in Seq(Message), NEW done, NEW S, NEW S2, Headed(ms, done, S), Relabels(S, S2),
         \A t \in S : t.gen \in Nat
  PROVE  Headed(ms, done, S2)
<1>1. \A i \in Points(ms) : ms[i].gen \in Nat
  BY DEF Points, Message, Messages
<1>2. ASSUME NEW u \in S2, u.cid # NoCompaction, \A v \in S2 : v.gen <= u.gen
      PROVE  \E i \in Points(ms) : ms[i].id = u.cid /\ LastDone(ms, i, done)
  <2>1. PICK t \in S : t.gen = u.gen /\ t.cid = u.cid
    BY <1>2 DEF Relabels
  <2>2. \A v \in S : v.gen <= t.gen
    BY <1>2, <2>1 DEF Relabels
  <2> QED
    BY <1>2, <2>1, <2>2 DEF Headed
<1>3. ASSUME NEW i \in Points(ms), ms[i].id \notin done, ms[i].gen # Unset, LastDone(ms, i, done), NEW u \in S2
      PROVE  u.gen < ms[i].gen
  <2>1. CASE u.gen = 0
    BY <1>1, <1>3, <2>1 DEF Unset
  <2>2. CASE \E t \in S : t.gen = u.gen
    BY <1>3, <2>2 DEF Headed
  <2> QED
    BY <2>1, <2>2 DEF Relabels
<1> QED
  BY <1>2, <1>3 DEF Headed

LEMMA FaithfulStays ==
  ASSUME NEW s, NEW S, NEW S2, s.gen \in Int, Faithful(s, S), Relabels(S, S2)
  PROVE  Faithful(s, S2)
<1>1. s.gen > 0 => \E u \in S2 : u.gen = s.gen
  BY DEF Faithful, Relabels
<1>2. \A u \in S2 : u.gen = s.gen => u.cid = s.cid
  BY DEF Faithful, Relabels
<1> QED
  BY <1>1, <1>2 DEF Faithful

LEMMA SaneStays ==
  ASSUME NEW s, NEW S, NEW done, NEW ended, NEW copies, NEW S2, NEW done2, NEW ended2, NEW copies2,
         SaneIn(s, S, done, ended, copies), Relabels(S, S2), done \subseteq done2, ended \subseteq ended2,
         \A ms \in copies2 : ms \in copies \/ \E l \in copies : IdSet(l) \subseteq IdSet(ms)
  PROVE  SaneIn(s, S2, done2, ended2, copies2)
<1>1. Faithful(s, S2)
  BY FaithfulStays DEF SaneIn
<1>2. Clean(s, done2, ended2)
  BY DEF SaneIn, Clean
<1>3. Present(s, copies2)
  BY DEF SaneIn, Present
<1> QED
  BY <1>1, <1>2, <1>3 DEF SaneIn

(* The tables after a save of the surface s.                               *)
LEMMA SavedIs ==
  ASSUME TablesTyped, NEW s \in Surface
  PROVE  /\ \A u \in Saved(s) :
              \/ u = s /\ \A t \in surfaces : t.gen # s.gen
              \/ u \in surfaces /\ u.gen # s.gen
              \/ /\ u.gen = s.gen /\ u.nodes = s.nodes
                 /\ \E t \in surfaces : t.gen = u.gen /\ t.cid = u.cid
         /\ \A t \in surfaces : \E u \in Saved(s) : u.gen = t.gen /\ u.cid = t.cid
<1> DEFINE new(t) == IF t.gen = s.gen THEN [t EXCEPT !.nodes = s.nodes] ELSE t
<1>1. CASE \E t \in surfaces : t.gen = s.gen
  <2>1. Saved(s) = {new(t) : t \in surfaces}
    BY <1>1 DEF Saved
  <2>2. \A t \in surfaces : /\ t.gen # s.gen => new(t) = t
                            /\ t.gen = s.gen => new(t).gen = s.gen /\ new(t).cid = t.cid /\ new(t).nodes = s.nodes
    BY DEF TablesTyped, Surface
  <2> HIDE DEF new
  <2> QED
    BY <2>1, <2>2
<1>2. CASE ~\E t \in surfaces : t.gen = s.gen
  <2>1. Saved(s) = surfaces \cup {s}
    BY <1>2 DEF Saved
  <2> QED
    BY <1>2, <2>1
<1> QED
  BY <1>1, <1>2

(* The lists of the save queue.                                            *)
LEMMA QueueGrows ==
  ASSUME queue \in Seq(Seq(Message)), Chained,
         Enqueue(live') \/ queue' = queue,
         IdSet(live) \subseteq IdSet(live') \/ queue = <<>>
  PROVE  /\ Chained' /\ Fresh' \subseteq Fresh \cup {live'}
         /\ Enqueue(live') => queue' # <<>> /\ queue'[Len(queue')] = live'
         /\ queue # <<>> => Head(queue') = Head(queue)
<1>1. Len(queue) \in Nat
  OBVIOUS
<1>2. \A m \in 1 .. Len(queue) : IdSet(queue[m]) \subseteq IdSet(live')
  <2>1. CASE queue = <<>>
    BY <1>1, <2>1
  <2>2. CASE IdSet(live) \subseteq IdSet(live')
    BY <2>2 DEF Chained
  <2> QED
    BY <2>1, <2>2
<1>3. CASE queue' = queue
  <2>1. Chained'
    BY <1>2, <1>3 DEF Chained
  <2>2. Fresh' \subseteq Fresh \cup {live'}
    BY <1>3 DEF Fresh
  <2> QED
    BY <1>3, <2>1, <2>2, <1>1 DEF Enqueue
<1>4. CASE Enqueue(live')
  <2>1. queue' = Append(queue, live')
    BY <1>4 DEF Enqueue
  <2>2. /\ Len(queue') = Len(queue) + 1 /\ queue'[Len(queue) + 1] = live'
        /\ \A n \in 1 .. Len(queue) : queue'[n] = queue[n]
    BY <1>1, <2>1
  <2>3. \A n \in 1 .. Len(queue) + 1 : n = Len(queue) + 1 \/ n \in 1 .. Len(queue)
    BY <1>1
  <2>4. ASSUME NEW m \in 1 .. Len(queue'), NEW n \in 1 .. Len(queue'), m <= n
        PROVE  IdSet(queue'[m]) \subseteq IdSet(queue'[n])
    <3>1. CASE n = Len(queue) + 1
      BY <1>2, <2>2, <2>3, <3>1
    <3>2. CASE n \in 1 .. Len(queue)
      <4>1. m \in 1 .. Len(queue)
        BY <1>1, <2>2, <2>4, <3>2
      <4> QED
        BY <2>2, <2>4, <3>2, <4>1 DEF Chained
    <3> QED
      BY <2>2, <2>3, <3>1, <3>2
  <2>5. \A n \in 1 .. Len(queue') : IdSet(queue'[n]) \subseteq IdSet(live')
    BY <1>2, <2>2, <2>3
  <2>6. Fresh' \subseteq Fresh \cup {live'}
    BY <2>2, <2>3 DEF Fresh
  <2>7. queue' # <<>>
    BY <1>1, <2>2
  <2>8. queue # <<>> => Head(queue') = Head(queue)
    BY <2>1
  <2> QED
    BY <2>2, <2>4, <2>5, <2>6, <2>7, <2>8 DEF Chained
<1> QED
  BY <1>3, <1>4

LEMMA QueueShrinks ==
  ASSUME queue \in Seq(Seq(Message)), queue # <<>>, Chained, queue' = Tail(queue), UNCHANGED live
  PROVE  /\ Chained' /\ Fresh' \subseteq Fresh
         /\ queue' # <<>> => queue'[Len(queue')] = queue[Len(queue)]
         /\ queue' = <<>> => Head(queue) = queue[Len(queue)]
         /\ Head(queue) \in Fresh
<1>1. Len(queue) \in Nat /\ Len(queue) > 0 /\ Head(queue) = queue[1]
  OBVIOUS
<1>2. /\ queue' \in Seq(Seq(Message)) /\ Len(queue') = Len(queue) - 1
      /\ \A n \in 1 .. Len(queue) - 1 : queue'[n] = queue[n + 1]
  BY <1>1
<1>0. \A q \in Seq(Seq(Message)) : Len(q) \in Nat /\ (Len(q) = 0 <=> q = <<>>)
  OBVIOUS
<1>3. \A n \in 1 .. Len(queue) - 1 : n + 1 \in 1 .. Len(queue)
  BY <1>1
<1>4. Chained'
  <2>1. ASSUME NEW m \in 1 .. Len(queue'), NEW n \in 1 .. Len(queue'), m <= n
        PROVE  IdSet(queue'[m]) \subseteq IdSet(queue'[n])
    <3>1. m + 1 <= n + 1 /\ m + 1 \in 1 .. Len(queue) /\ n + 1 \in 1 .. Len(queue)
      BY <1>1, <1>2, <2>1
    <3> QED
      BY <1>2, <3>1 DEF Chained
  <2>2. \A n \in 1 .. Len(queue') : IdSet(queue'[n]) \subseteq IdSet(live')
    BY <1>2, <1>3 DEF Chained
  <2> QED
    BY <2>1, <2>2 DEF Chained
<1>5. Fresh' \subseteq Fresh
  BY <1>2, <1>3 DEF Fresh
<1>6. queue' # <<>> => queue'[Len(queue')] = queue[Len(queue)]
  <2> SUFFICES ASSUME queue' # <<>> PROVE queue'[Len(queue')] = queue[Len(queue)]
    OBVIOUS
  <2>1. Len(queue') \in 1 .. Len(queue) - 1 /\ Len(queue') + 1 = Len(queue)
    <3>1. Len(queue') \in Nat /\ Len(queue') # 0
      BY <1>0, <1>2
    <3> QED
      BY <1>1, <1>2, <3>1
  <2> QED
    BY <1>2, <2>1
<1>7. queue' = <<>> => Len(queue) = 1
  <2>1. queue' = <<>> => Len(queue') = 0
    BY <1>0, <1>2
  <2>2. Len(queue') = Len(queue) - 1
    BY <1>2
  <2> QED
    BY <1>1, <2>1, <2>2
<1>8. Head(queue) \in Fresh
  BY <1>1 DEF Fresh
<1> QED
  BY <1>1, <1>4, <1>5, <1>6, <1>7, <1>8

-----------------------------------------------------------------------------
(* What disturbed the session.                                             *)

LEMMA OneUpset ==
  ASSUME [Next]_vars
  PROVE  UNCHANGED upset \/ \E d : Happens(d) /\ (d = "restart" => Restart)
<1> DEFINE Told == UNCHANGED upset \/ \E d : Happens(d) /\ (d = "restart" => Restart)
<1>0. /\ UNCHANGED upset => Told
      /\ \A d : Happens(d) /\ d # "restart" => Told
      /\ Restart => Told
  BY DEF Restart
<1> SUFFICES Told
  OBVIOUS
<1> HIDE DEF Told
<1>1. CASE SaveStep
  <2>1. \A s : MaintainWith(s) => Told
    BY <1>0 DEF MaintainWith
  <2>2. SaveArchive => Told
    BY <1>0 DEF SaveArchive
  <2>3. Maintain => Told
    BY <1>0, <2>1 DEF Maintain
  <2>4. MaintainLoaded => Told
    BY <1>0, <2>1 DEF MaintainLoaded
  <2>5. Maintained => Told
    BY <1>0 DEF Maintained
  <2> QED
    BY <1>1, <2>2, <2>3, <2>4, <2>5 DEF SaveStep
<1>2. CASE HydrateStep
  BY <1>0, <1>2 DEF HydrateStep, Hydrate, HydrateLoaded, FallBackToParent, ParentIncomplete,
     TakeParent, DiscardAll, RebuildGenerationZero, TakeRebuilt
<1>3. CASE \E c \in Checkpoints : CommitStep(c)
  <2>1. ASSUME NEW c \in Checkpoints, CommitTransaction(c) PROVE Told
    BY <1>0, <2>1 DEF CommitTransaction
  <2> QED
    BY <1>0, <1>3, <2>1 DEF CommitStep, ReadSource, CommitReturned, Verify, TakeVerdict, MarkFailed, RollBack
<1>4. CASE \E c \in Checkpoints : Plan(c) \/ AbandonPlan(c) \/ InsertPlanned(c)
                                  \/ InsertMidLoop(c) \/ CommitTimesOut(c)
  BY <1>0, <1>4 DEF Plan, AbandonPlan, InsertPlanned, InsertMidLoop, CommitTimesOut
<1>5. CASE AddMessage \/ SendMessage \/ TurnEnds \/ Reset \/ Restart
  BY <1>0, <1>5 DEF AddMessage, SendMessage, TurnEnds, Reset, Restart
<1>6. CASE UNCHANGED vars
  BY <1>0, <1>6 DEF vars
<1> QED
  BY <1>1, <1>2, <1>3, <1>4, <1>5, <1>6 DEF Next

LEMMA StillSound ==
  ASSUME [Next]_vars
  PROVE  (Sound' => Sound) /\ (~Steady => ~Steady') /\ (Once' => Once)
<1>1. upset \subseteq upset'
  BY OneUpset DEF Happens
<1> QED
  BY <1>1, StillSerial, Undisturbed DEF Sound, Smooth, Steady, Once, AtMostOnce

LEMMA NoHitch ==
  ASSUME Smooth', NEW d, Happens(d)
  PROVE  d \notin {"archive refused", "precedes"}
<1>1. PICK n : <<d, n>> \in upset'
  BY DEF Happens
<1>2. <<d, n>>[1] = d
  OBVIOUS
<1> QED
  BY <1>1, <1>2 DEF Smooth, Calm

LEMMA FirstRestart ==
  ASSUME Counted, Once, Once', Happens("restart")
  PROVE  Steady /\ ~Steady' /\ upset' = upset \cup {<<"restart", 1>>}
<1> DEFINE them == {u \in upset : u[1] = "restart"}
<1>1. upset' = upset \cup {<<"restart", Cardinality(them) + 1>>}
  BY DEF Happens
<1>2. Steady
  <2> SUFFICES ASSUME ~Steady PROVE FALSE
    OBVIOUS
  <2>1. PICK u \in upset : u[1] = "restart"
    BY DEF Steady, Calm
  <2>2. them = {<<"restart", 1>>}
    BY <2>1 DEF Counted
  <2>3. Cardinality(them) = 1
    BY <2>2, FS_Singleton
  <2>4. <<"restart", 2>> \in upset'
    BY <1>1, <2>3
  <2> QED
    BY <2>4 DEF Once, AtMostOnce
<1>3. them = {}
  BY <1>2 DEF Steady, Calm
<1>4. Cardinality(them) = 0
  BY <1>3, FS_EmptySet
<1>5. upset' = upset \cup {<<"restart", 1>>}
  BY <1>1, <1>4
<1>6. <<"restart", 1>> \in upset' /\ <<"restart", 1>>[1] = "restart"
  BY <1>5
<1>7. ~Steady'
  BY <1>6 DEF Steady, Calm
<1> QED
  BY <1>2, <1>5, <1>7

LEMMA CountedInit == Init => Counted
BY DEF Init, Counted

LEMMA CountedNext ==
  ASSUME Counted, [Next]_vars
  PROVE  Counted'
<1> SUFFICES ASSUME Once', NEW u \in upset', u[1] = "restart" PROVE u = <<"restart", 1>>
  BY DEF Counted
<1>1. Once
  BY StillSound
<1>2. CASE UNCHANGED upset
  BY <1>1, <1>2 DEF Counted
<1>3. ASSUME NEW d, Happens(d) PROVE u = <<"restart", 1>>
  <2>1. CASE d = "restart"
    BY <1>1, <1>3, <2>1, FirstRestart DEF Counted
  <2>2. CASE d # "restart"
    <3>1. PICK n : upset' = upset \cup {<<d, n>>}
      BY <1>3 DEF Happens
    <3>2. <<d, n>>[1] = d
      OBVIOUS
    <3>3. u \in upset
      BY <2>2, <3>1, <3>2
    <3> QED
      BY <1>1, <3>3 DEF Counted
  <2> QED
    BY <2>1, <2>2
<1> QED
  BY <1>2, <1>3, OneUpset

-----------------------------------------------------------------------------
(* What a save writes.                                                     *)

LEMMA CopiesListed ==
  ASSUME TypeInv
  PROVE  /\ \A ms \in Copies : Listed(ms, sent, Begun) /\ ms \in Seq(Message)
         /\ \A t \in surfaces : t.gen \in Nat
         /\ queue \in Seq(Seq(Message)) /\ Fresh \subseteq Copies
<1>1. \A ms \in Copies : Listed(ms, sent, Begun)
  BY DEF TypeInv, ListsTyped, Copies, Fresh
<1>2. \A t \in surfaces : t.gen \in Nat
  BY SurfaceFields DEF TypeInv, TablesTyped
<1> QED
  BY <1>1, <1>2 DEF Listed, TypeInv, ListsTyped, Copies

(* An orphan is left out of a list that is saved: the checkpoints left     *)
(* among the nodes are committed.                                          *)
LEMMA ProjectionClean ==
  ASSUME TypeInv, IInv, Alone, ListsSound, \A c \in Checkpoints : InHand(c),
         queue # <<>>, ~Skipped(Head(queue)),
         NEW s, s \in Given, Certified(s), Dominates(s), Faithful(s, surfaces)
  PROVE  /\ \A d \in RangeOf(Projection(s, Head(queue))) \cap Checkpoints :
              d \in Completed \/ (s.cid = NoCompaction /\ d \in Ended)
         /\ RangeOf(Projection(s, Head(queue))) \subseteq IdSet(Head(queue))
<1> DEFINE ms == Head(queue)
           k == LatestCheckpoint(ms)
           rest == Without(ms, ms[k].id)
<1>1. ms \in Fresh /\ ms \in Copies
  <2>1. queue \in Seq(Seq(Message)) /\ Fresh \subseteq Copies
    BY CopiesListed
  <2>2. Len(queue) \in Nat /\ Len(queue) > 0 /\ Head(queue) = queue[1]
    BY <2>1
  <2> QED
    BY <2>1, <2>2 DEF Fresh
<1>2. /\ ms \in Seq(Message) /\ Listed(ms, sent, Begun)
      /\ Kept(ms, Completed, Ended, ~Steady) /\ Headed(ms, Completed, surfaces)
      /\ \A t \in surfaces : t.gen \in Nat
  BY <1>1, CopiesListed DEF ListsSound
<1>3. /\ k \in 0 .. Len(ms) /\ Len(ms) \in Nat
      /\ k # 0 => k \in Points(ms)
      /\ \A i \in Points(ms) : i <= k
  BY <1>2, LatestIs DEF Points
<1> HIDE DEF ms, k
<1>4. \A d \in RangeOf(ComputeSurfaceNodes(ms)) \cap Checkpoints : k # 0 /\ d = ms[k].id
  BY <1>2, NodesAre DEF k
<1>5. RangeOf(ComputeSurfaceNodes(ms)) \subseteq IdSet(ms)
  BY <1>2, NodesIn
<1>6. CASE k = 0
  <2>1. Projection(s, ms) = ComputeSurfaceNodes(ms)
    BY <1>6 DEF Projection, k
  <2> QED
    BY <1>4, <1>5, <1>6, <2>1 DEF ms
<1>7. CASE k # 0
  <2>1. k \in Points(ms) /\ ms[k].id \in Checkpoints /\ ms[k].cid = ms[k].id /\ ms[k] \in Message /\ k \in 1 .. Len(ms)
    BY <1>2, <1>3, <1>7 DEF Headed, Points
  <2>2. /\ rest \in Seq(Message) /\ Points(rest) = Points(ms) \ {k}
        /\ \A i \in Points(ms) \ {k} : rest[i] = ms[i]
        /\ IdSet(rest) \subseteq IdSet(ms)
    BY <1>2, <1>3, <2>1, DropPoints DEF Listed
  <2>3. RangeOf(ComputeSurfaceNodes(rest)) \subseteq IdSet(ms)
    BY <2>2, NodesIn
  <2>4. \A d \in RangeOf(ComputeSurfaceNodes(rest)) \cap Checkpoints :
          \E i \in Points(ms) \ {k} : d = ms[i].id
    <3>1. \A d \in RangeOf(ComputeSurfaceNodes(rest)) \cap Checkpoints :
            LatestCheckpoint(rest) # 0 /\ d = rest[LatestCheckpoint(rest)].id
      BY <2>2, NodesAre
    <3>2. LatestCheckpoint(rest) # 0 => LatestCheckpoint(rest) \in Points(rest)
      BY <2>2, LatestIs DEF Points
    <3> HIDE DEF rest
    <3> QED
      BY <2>2, <3>1, <3>2
  <2>5. \A i \in Points(ms) \ {k} : ms[i].id \in Completed \cup Ended
    <3>1. \A i \in Points(ms) \ {k} : ~(k <= i)
      BY <1>3, <2>1 DEF Points
    <3> QED
      BY <1>2, <2>1, <3>1 DEF Kept
  <2>6. LastDone(ms, k, Completed)
    BY <1>3, <2>1 DEF LastDone, Points
  <2>7. ms[k].id \in Completed \cup Ended
    <3> SUFFICES ASSUME ms[k].id \notin Completed \cup Ended PROVE FALSE
      OBVIOUS
    <3> DEFINE c == ms[k].id
    <3>1. c \in Begun
      BY <1>2, <2>1, SurfaceConstants DEF Listed, Plain
    <3>2. Pending(c)
      BY <3>1 DEF Begun, Ended, Pending
    <3>3. comp[c].pc = "waiting"
      BY <2>1, <3>2 DEF Alone
    <3>4. c \in inFlight
      BY <2>1, <3>3 DEF InHand
    <3>5. Skipped(ms)
      BY <1>7, <2>1, <3>4 DEF Skipped, k
    <3> QED
      BY <3>5 DEF ms
  <2>8. ASSUME s.cid # NoCompaction
        PROVE  /\ s.gen # NoGen
               /\ ms[k].id \in Completed => MatchesActive(s, ms[k])
               /\ ms[k].id \notin Completed => ~MatchesActive(s, ms[k])
    <3>1. s.gen > 0 /\ s.gen # NoGen /\ SourceOf(s) = s.gen
      <4>1. s.gen \in Nat \cup {NoGen}
        BY SurfaceFields
      <4>2. s.gen > 0
        BY <2>8, <4>1 DEF Faithful, NoGen
      <4> QED
        BY <4>2 DEF SourceOf, NoGen
    <3>2. PICK t \in surfaces : t.gen = s.gen /\ t.cid = s.cid
      BY <3>1 DEF Faithful
    <3>3. \A u \in surfaces : u.gen <= t.gen
      BY <3>1, <3>2 DEF Dominates
    <3>4. PICK i \in Points(ms) : ms[i].id = s.cid /\ LastDone(ms, i, Completed)
      BY <1>2, <2>8, <3>2, <3>3 DEF Headed
    <3>5. ms[k].id \in Completed => i = k
      <4>1. i <= k /\ i \in Nat /\ k \in Nat
        BY <1>3, <2>1 DEF Points
      <4>2. k > i => ms[k].id \notin Completed
        BY <2>1, <3>4 DEF LastDone
      <4> QED
        BY <4>1, <4>2
    <3>6. s.cid \in Completed
      BY <2>8 DEF Certified, Completed
    <3>7. ms[k].id \notin Completed => ~(ms[k].gen # Unset /\ ms[k].gen = s.gen)
      <4>1. ms[k].id \notin Completed /\ ms[k].gen # Unset => t.gen < ms[k].gen
        BY <1>2, <2>1, <2>6, <3>2 DEF Headed
      <4>2. ms[k].gen \in Nat /\ t.gen \in Nat
        BY <1>2, <2>1, <3>2 DEF Message, Messages
      <4> QED
        BY <3>2, <4>1, <4>2
    <3> QED
      BY <2>1, <3>1, <3>4, <3>5, <3>6, <3>7 DEF MatchesActive
  <2>9. \/ Projection(s, ms) = ComputeSurfaceNodes(ms)
           /\ (s.cid # NoCompaction => ms[k].id \in Completed)
        \/ Projection(s, ms) = ComputeSurfaceNodes(rest)
           /\ (s.cid # NoCompaction => ms[k].id \notin Completed)
    BY <1>7, <2>8 DEF Projection, k
  <2>10. s.cid # NoCompaction /\ ms[k].id \notin Completed =>
           \A i \in Points(ms) \ {k} : ms[i].id \in Completed
    BY <1>2, <2>1, <2>5, <2>7 DEF Kept
  <2> HIDE DEF rest
  <2>11. CASE Projection(s, ms) = ComputeSurfaceNodes(ms) /\ (s.cid # NoCompaction => ms[k].id \in Completed)
    BY <1>4, <1>5, <2>7, <2>11 DEF ms
  <2>12. CASE Projection(s, ms) = ComputeSurfaceNodes(rest) /\ (s.cid # NoCompaction => ms[k].id \notin Completed)
    BY <2>3, <2>4, <2>5, <2>10, <2>12 DEF ms
  <2> QED
    BY <2>9, <2>11, <2>12
<1> QED
  BY <1>6, <1>7

LEMMA WriteSane ==
  ASSUME TypeInv, IInv, Alone, ListsSound, \A c \in Checkpoints : InHand(c),
         queue # <<>>, archive = Head(queue), ~Skipped(Head(queue)), \A t \in surfaces : Sane(t),
         NEW s, s \in Given, Certified(s), Dominates(s), Sane(s),
         NEW new, new \in Surface, new.gen = IF s.gen = NoGen THEN 0 ELSE s.gen, new.cid = s.cid,
         new.nodes = Projection(s, Head(queue))
  PROVE  /\ Relabels(surfaces, Saved(new))
         /\ \A t \in Saved(new) : SaneIn(t, Saved(new), Completed, Ended, Copies)
         /\ SaneIn(new, Saved(new), Completed, Ended, Copies)
<1> DEFINE S2 == Saved(new)
<1>1. /\ \A u \in S2 :
            \/ u = new /\ \A t \in surfaces : t.gen # new.gen
            \/ u \in surfaces /\ u.gen # new.gen
            \/ /\ u.gen = new.gen /\ u.nodes = new.nodes
               /\ \E t \in surfaces : t.gen = u.gen /\ t.cid = u.cid
      /\ \A t \in surfaces : \E u \in S2 : u.gen = t.gen /\ u.cid = t.cid
  BY SavedIs DEF TypeInv
<1> HIDE DEF S2
<1>2. s.gen \in Nat \cup {NoGen} /\ new.gen \in Nat
  BY SurfaceFields
<1>3. Faithful(s, surfaces) /\ \A t \in surfaces : Faithful(t, surfaces) /\ t.gen \in Nat
  BY CopiesListed DEF Sane, SaneIn
<1>4. (\A t \in surfaces : t.gen = new.gen => t.cid = new.cid) /\ (new.gen = 0 => new.cid = NoCompaction)
  <2>1. CASE s.gen = NoGen
    <3>1. new.gen = 0 /\ new.cid = NoCompaction
      BY <1>3, <2>1 DEF Faithful, NoGen
    <3> QED
      BY <1>3, <3>1 DEF Faithful
  <2>2. CASE s.gen # NoGen
    BY <1>2, <1>3, <2>2 DEF Faithful
  <2> QED
    BY <2>1, <2>2
<1>5. (\A t \in surfaces : t.gen # new.gen) => new.gen = 0
  BY <1>2, <1>3 DEF Faithful
<1>6. Relabels(surfaces, S2)
  BY <1>1, <1>4, <1>5 DEF Relabels
<1>7. Faithful(new, S2)
  <2>1. \A u \in S2 : u.gen = new.gen => u.cid = new.cid
    BY <1>1, <1>4
  <2>2. new.gen > 0 => \E u \in S2 : u.gen = new.gen
    BY <1>1, <1>5
  <2> QED
    BY <1>2, <1>4, <2>1, <2>2 DEF Faithful
<1>8. Clean(new, Completed, Ended) /\ RangeOf(new.nodes) \subseteq IdSet(archive)
  BY <1>3, ProjectionClean DEF Clean
<1>9. Present(new, Copies)
  <2>1. queue \in Seq(Seq(Message))
    BY CopiesListed
  <2>2. Len(queue) \in Nat /\ Len(queue) > 0 /\ Head(queue) = queue[1]
    BY <2>1
  <2>3. ASSUME NEW ms \in Copies PROVE IdSet(archive) \subseteq IdSet(ms)
    <3>1. 1 \in 1 .. Len(queue) /\ archive = queue[1] /\ Chained
      BY <2>2 DEF ListsSound
    <3>2. CASE ms = live
      BY <3>1, <3>2 DEF Chained
    <3>3. CASE \E n \in 1 .. Len(queue) : ms = queue[n]
      <4>1. PICK n \in 1 .. Len(queue) : ms = queue[n]
        BY <3>3
      <4>2. 1 <= n
        BY <4>1
      <4> QED
        BY <3>1, <4>1, <4>2 DEF Chained
    <3>4. CASE ms = archive
      BY <3>4
    <3> QED
      BY <3>2, <3>3, <3>4 DEF Copies, Fresh
  <2> QED
    BY <1>8, <2>3 DEF Present
<1>10. SaneIn(new, S2, Completed, Ended, Copies)
  BY <1>2, <1>7, <1>8, <1>9 DEF SaneIn
<1>11. ASSUME NEW u \in S2 PROVE SaneIn(u, S2, Completed, Ended, Copies)
  <2>1. CASE u = new
    BY <1>10, <2>1
  <2>2. CASE u \in surfaces
    <3>1. SaneIn(u, surfaces, Completed, Ended, Copies)
      BY <2>2 DEF Sane
    <3> QED
      BY <1>6, <3>1, SaneStays
  <2>3. CASE u.gen = new.gen /\ u.nodes = new.nodes /\ \E t \in surfaces : t.gen = u.gen /\ t.cid = u.cid
    <3>1. u.cid = new.cid
      BY <1>4, <2>3
    <3>2. Faithful(u, S2)
      BY <1>7, <2>3, <3>1 DEF Faithful
    <3>3. Clean(u, Completed, Ended) /\ Present(u, Copies)
      BY <1>8, <1>9, <2>3, <3>1 DEF Clean, Present
    <3> QED
      BY <1>2, <2>3, <3>2, <3>3 DEF SaneIn
  <2> QED
    BY <1>1, <2>1, <2>2, <2>3
<1> QED
  BY <1>6, <1>10, <1>11 DEF S2

-----------------------------------------------------------------------------
(* What a step leaves of the order.                                        *)

LEMMA ListsGrow ==
  ASSUME TypeInv, ListsSound, Completed' = Completed, Relabels(surfaces, surfaces'),
         ~Steady => ~Steady', Ended \subseteq Ended',
         \A ms \in Fresh : \A i \in Points(ms) : ms[i].id \in Ended' => ms[i].id \in Ended \cup Completed,
         UNCHANGED archive, Fresh' \subseteq Fresh \cup {live'}, Chained',
         live' \in Fresh \/ (Kept(live', Completed, Ended', ~Steady') /\ Headed(live', Completed, surfaces'))
  PROVE  ListsSound'
<1>1. /\ \A ms \in Copies : ms \in Seq(Message)
      /\ \A t \in surfaces : t.gen \in Nat
      /\ Fresh \subseteq Copies
  BY CopiesListed
<1>2. \A ms \in Fresh : Kept(ms, Completed, Ended', ~Steady')
  BY KeptStays DEF ListsSound
<1>3. \A ms \in Copies : Headed(ms, Completed, surfaces')
  BY <1>1, HeadedStays DEF ListsSound
<1>4. \A ms \in Fresh' : Kept(ms, Completed', Ended', ~Steady')
  BY <1>2
<1>5. \A ms \in Copies' : Headed(ms, Completed', surfaces')
  <2>1. \A ms \in Copies' : ms \in Copies \/ ms = live'
    BY DEF Copies
  <2> QED
    BY <1>1, <1>3, <2>1
<1>6. OneStored'
  BY DEF ListsSound, OneStored
<1> QED
  BY <1>4, <1>5, <1>6 DEF ListsSound

LEMMA SurfacesGrow ==
  ASSUME SurfacesSound, Relabels(surfaces, surfaces'), Completed \subseteq Completed', Ended \subseteq Ended',
         \A ms \in Copies' : ms \in Copies \/ \E l \in Copies : IdSet(l) \subseteq IdSet(ms),
         \A s \in surfaces' \cup {cache', save'.got, turn'.got} :
           Sane(s) \/ SaneIn(s, surfaces', Completed', Ended', Copies'),
         \A c \in Checkpoints : comp'[c].pc \in {"read", "returned", "verified"} =>
           Sane(comp'[c].got) \/ SaneIn(comp'[c].got, surfaces', Completed', Ended', Copies'),
         turn'.pc \in {"idle", "waiting", "loaded", "running"}
  PROVE  SurfacesSound'
<1>1. \A s : Sane(s) => SaneIn(s, surfaces', Completed', Ended', Copies')
  BY SaneStays DEF Sane
<1>2. \A s \in surfaces' : Sane(s)'
  BY <1>1 DEF Sane
<1>3. Sane(cache)' /\ Sane(save.got)' /\ Sane(turn.got)'
  BY <1>1 DEF Sane
<1>4. \A c \in Checkpoints : comp'[c].pc \in {"read", "returned", "verified"} => Sane(comp[c].got)'
  BY <1>1 DEF Sane
<1> QED
  BY <1>2, <1>3, <1>4 DEF SurfacesSound

LEMMA NothingSane ==
  ASSUME TypeInv
  PROVE  Sane(NoSurface) /\ Sane(Forgotten)
<1>1. \A t \in surfaces : t.gen \in Nat
  BY CopiesListed
<1>2. /\ NoSurface.gen = -1 /\ NoSurface.cid = NoCompaction /\ RangeOf(NoSurface.nodes) = {}
      /\ Forgotten.gen = -2 /\ Forgotten.cid = NoCompaction /\ RangeOf(Forgotten.nodes) = {}
  BY DEF NoSurface, Forgotten, NoGen, RangeOf
<1> QED
  BY <1>1, <1>2 DEF Sane, SaneIn, Faithful, Clean, Present

LEMMA LoadSane ==
  ASSUME TypeInv, SurfacesSound
  PROVE  Sane(LoadLatest)
<1>1. LoadLatest \in surfaces \cup {NoSurface}
  BY DEF LoadLatest, OneOf
<1> QED
  BY <1>1, NothingSane DEF SurfacesSound

(* A compaction that this step is not about.                               *)
LEMMA CallStays ==
  ASSUME TypeInv, NEW c \in Checkpoints, Fate(c), InHand(c),
         comp[c].pc = "planned" => comp[c].gen # Unset,
         comp'[c].pc = comp[c].pc, comp'[c].got = comp[c].got, comp'[c].msgs = comp[c].msgs,
         comp'[c].gen = comp[c].gen,
         UNCHANGED live, Completed' = Completed, Relabels(surfaces, surfaces'),
         ~Replied => ~Replied',
         comp[c].pc = "rejected" => surfaces' = surfaces,
         Pending(c) => IF queue' # <<>> THEN queue'[Len(queue')] = live ELSE archive' = live,
         comp[c].pc = "waiting" => c \in inFlight'
  PROVE  Fate(c)' /\ InHand(c)'
<1>1. Fate(c)'
  BY DEF Fate
<1>2. ASSUME comp[c].pc = "planned", NEW u \in surfaces' PROVE u.gen < comp[c].gen
  <2>1. comp[c].gen \in Nat /\ comp[c].gen # 0
    BY <1>2 DEF TypeInv, CallTyped, Unset
  <2>2. CASE \E t \in surfaces : t.gen = u.gen
    BY <1>2, <2>2 DEF InHand
  <2>3. CASE u.gen = 0
    BY <2>1, <2>3
  <2> QED
    BY <2>2, <2>3 DEF Relabels
<1>3. InHand(c)'
  BY <1>2 DEF InHand, Pending
<1> QED
  BY <1>1, <1>3

LEMMA CallQuiet ==
  ASSUME NEW c \in Checkpoints, comp'[c].pc \in {"idle", "over"}, comp'[c].pc = "idle" => c \notin Completed'
  PROVE  Fate(c)' /\ InHand(c)'
BY DEF Fate, InHand, Pending

-----------------------------------------------------------------------------
(* The save queue keeps the order.                                         *)

(* All that is known before a step of a session on the conditions of       *)
(* AdoptedCommitted, and that nothing which happened is forgotten by it.   *)
Known ==
  /\ IInv /\ TypeInv /\ Alone /\ Latest /\ Orderly
  /\ ~Steady => ~Steady'
  /\ ~Replied => ~Replied'
  /\ Sound'

LEMMA JobDoneOrderly ==
  ASSUME Known, save.pc # "idle", JobDone, UNCHANGED <<live, archive, rows, inFlight>>,
         Relabels(surfaces, surfaces'),
         \A s \in surfaces' \cup {cache'} : Sane(s) \/ SaneIn(s, surfaces', Completed, Ended, Copies)
  PROVE  Orderly'
<1> USE DEF Known, IInv, CallsShaped
<1>1. /\ queue' = Tail(queue) /\ save' = [pc |-> "idle", got |-> NoSurface]
      /\ turn' = [turn EXCEPT !.ahead = Less(@)]
      /\ comp' = [c \in Checkpoints |-> [comp[c] EXCEPT !.ahead = Less(@)]]
  BY DEF JobDone
<1>2. \A c \in Checkpoints :
        /\ comp'[c].pc = comp[c].pc /\ comp'[c].got = comp[c].got /\ comp'[c].msgs = comp[c].msgs
        /\ comp'[c].gen = comp[c].gen
  BY <1>1
<1>3. turn'.got = turn.got /\ turn'.pc = turn.pc /\ save'.got = NoSurface /\ save'.pc = "idle"
  BY <1>1
<1>4. Ended' = Ended /\ Completed' = Completed
  BY <1>2 DEF Ended, Completed
<1>5. queue \in Seq(Seq(Message)) /\ queue # <<>> /\ archive = Head(queue)
  BY CopiesListed DEF Alone, Orderly
<1>6. /\ Chained' /\ Fresh' \subseteq Fresh
      /\ queue' # <<>> => queue'[Len(queue')] = queue[Len(queue)]
      /\ queue' = <<>> => archive = queue[Len(queue)]
  BY <1>1, <1>5, QueueShrinks DEF Orderly, ListsSound
<1>7. Copies' \subseteq Copies
  BY <1>6 DEF Copies
<1>8. ListsSound'
  <2>1. live' \in Fresh
    BY DEF Fresh
  <2> QED
    BY <1>4, <1>6, <2>1, ListsGrow DEF Orderly
<1>9. SurfacesSound'
  <2>1. \A s : SaneIn(s, surfaces', Completed, Ended, Copies) => SaneIn(s, surfaces', Completed', Ended', Copies')
    BY <1>4, <1>7 DEF SaneIn, Present
  <2>2. Sane(save'.got) /\ Sane(turn'.got) /\ turn'.pc \in {"idle", "waiting", "loaded", "running"}
    BY <1>3, NothingSane DEF Orderly, SurfacesSound
  <2>3. \A c \in Checkpoints : comp'[c].pc \in {"read", "returned", "verified"} => Sane(comp'[c].got)
    BY <1>2 DEF Orderly, SurfacesSound
  <2>4. \A s \in surfaces' \cup {cache', save'.got, turn'.got} :
           Sane(s) \/ SaneIn(s, surfaces', Completed', Ended', Copies')
    BY <2>1, <2>2
  <2> QED
    BY <1>4, <1>7, <2>2, <2>3, <2>4, SurfacesGrow DEF Orderly
<1>10. ASSUME NEW c \in Checkpoints PROVE Fate(c)' /\ InHand(c)'
  <2>1. comp[c].pc \in {"idle", "over", "planned", "waiting"}
    BY <1>5 DEF Alone, Pending
  <2>2. comp[c].pc = "planned" => comp[c].gen # Unset
    BY DEF Alone, Active
  <2>3. Pending(c) => IF queue' # <<>> THEN queue'[Len(queue')] = live ELSE archive' = live
    BY <1>5, <1>6 DEF Orderly, InHand
  <2>4. comp[c].pc = "waiting" => c \in inFlight'
    BY DEF Orderly, InHand
  <2> QED
    BY <1>2, <1>4, <2>1, <2>2, <2>3, <2>4, CallStays DEF Orderly
<1> QED
  BY <1>3, <1>8, <1>9, <1>10 DEF Orderly

(* A step of a job before its last one.                                    *)
LEMMA JobOrderly ==
  ASSUME Known, queue # <<>>, UNCHANGED <<live, queue, rows, comp, turn, inFlight>>,
         archive' = Head(queue), Relabels(surfaces, surfaces'),
         \A s \in surfaces' \cup {cache', save'.got} : Sane(s) \/ SaneIn(s, surfaces', Completed, Ended, Copies)
  PROVE  Orderly'
<1> USE DEF Known
<1>1. Ended' = Ended /\ Completed' = Completed /\ Fresh' = Fresh
  BY DEF Ended, Completed, Fresh
<1>2. queue \in Seq(Seq(Message)) /\ Fresh \subseteq Copies
  BY CopiesListed
<1>3. Head(queue) = queue[1] /\ 1 \in 1 .. Len(queue)
  BY <1>2
<1>4. archive' \in Fresh /\ Copies' \subseteq Copies
  BY <1>1, <1>3 DEF Fresh, Copies
<1>5. \A ms \in Copies : Headed(ms, Completed, surfaces')
  BY CopiesListed, HeadedStays DEF Orderly, ListsSound
<1>6. OneStored'
  <2> SUFFICES ASSUME Steady', NEW i \in Points(archive'), NEW j \in Points(archive'),
                      archive'[i].id \notin Completed, archive'[j].id \notin Completed
               PROVE  i = j
    BY <1>1 DEF OneStored
  <2>1. Kept(archive', Completed, Ended, ~Steady) /\ Steady
    BY <1>4 DEF Orderly, ListsSound
  <2>2. archive'[i].id \notin Ended /\ archive'[j].id \notin Ended
    BY <2>1 DEF Kept
  <2>3. j <= i /\ i <= j
    BY <2>1, <2>2 DEF Kept
  <2>4. i \in Int /\ j \in Int
    BY DEF Points
  <2> QED
    BY <2>3, <2>4
<1>7. \A ms \in Fresh' : Kept(ms, Completed', Ended', ~Steady')
  <2>1. \A ms \in Fresh : Kept(ms, Completed, Ended, ~Steady')
    BY DEF Orderly, ListsSound, Kept
  <2> QED
    BY <1>1, <2>1
<1>8. ListsSound'
  <2>1. Chained'
    BY DEF Orderly, ListsSound, Chained
  <2> QED
    BY <1>1, <1>4, <1>5, <1>6, <1>7, <2>1 DEF ListsSound
<1>9. SurfacesSound'
  <2>1. \A s : SaneIn(s, surfaces', Completed, Ended, Copies) => SaneIn(s, surfaces', Completed', Ended', Copies')
    BY <1>1, <1>4 DEF SaneIn, Present
  <2>2. Sane(turn'.got) /\ turn'.pc \in {"idle", "waiting", "loaded", "running"}
    BY DEF Orderly, SurfacesSound
  <2>3. \A c \in Checkpoints : comp'[c].pc \in {"read", "returned", "verified"} => Sane(comp'[c].got)
    BY DEF Orderly, SurfacesSound
  <2>4. \A s \in surfaces' \cup {cache', save'.got, turn'.got} :
           Sane(s) \/ SaneIn(s, surfaces', Completed', Ended', Copies')
    BY <2>1, <2>2
  <2> QED
    BY <1>1, <1>4, <2>2, <2>3, <2>4, SurfacesGrow DEF Orderly
<1>10. ASSUME NEW c \in Checkpoints PROVE Fate(c)' /\ InHand(c)'
  <2>1. comp[c].pc \in {"idle", "over", "planned", "waiting"}
    BY DEF Alone, Pending
  <2>2. comp[c].pc = "planned" => comp[c].gen # Unset
    BY DEF Alone, Active
  <2>3. Pending(c) => IF queue' # <<>> THEN queue'[Len(queue')] = live ELSE archive' = live
    BY DEF Orderly, InHand
  <2>4. comp[c].pc = "waiting" => c \in inFlight'
    BY DEF Orderly, InHand
  <2> QED
    BY <1>1, <2>1, <2>2, <2>3, <2>4, CallStays DEF Orderly
<1> QED
  BY <1>8, <1>9, <1>10 DEF Orderly

(* A job writes the surface s, or leaves the tables alone.                 *)
LEMMA MaintainOrderly ==
  ASSUME Known, save.pc # "idle", NEW s, s \in Given, Certified(s), Dominates(s), Sane(s), MaintainWith(s),
         UNCHANGED <<live, archive, rows, inFlight>>, Sane(cache')
  PROVE  Orderly'
<1> DEFINE new == [gen |-> IF s.gen = NoGen THEN 0 ELSE s.gen,
                   parent |-> s.parent, cid |-> s.cid, nodes |-> Projection(s, Head(queue))]
<1>1. queue \in Seq(Seq(Message)) /\ queue # <<>> /\ archive = Head(queue)
  BY CopiesListed DEF Known, Alone, Orderly
<1>2. /\ new \in Surface /\ new.gen = (IF s.gen = NoGen THEN 0 ELSE s.gen) /\ new.cid = s.cid
      /\ new.nodes = Projection(s, Head(queue))
  <2>1. Head(queue) \in Seq(Message)
    BY <1>1, HeadTailProperties
  <2>2. Projection(s, Head(queue)) \in Seq(Plain \cup Checkpoints)
    BY <2>1, ProjectionTyped
  <2>3. (IF s.gen = NoGen THEN 0 ELSE s.gen) \in Nat
    BY SurfaceFields
  <2>4. new \in Surface
    BY <2>2, <2>3, SurfaceFields
  <2> QED
    BY <2>4
<1>3. \/ JobDone /\ surfaces' = surfaces
      \/ /\ ~Skipped(Head(queue)) /\ surfaces' = Saved(new)
         /\ JobDone \/ (save' = [pc |-> "saved", got |-> new] /\ UNCHANGED <<queue, comp, turn>>)
  BY DEF MaintainWith
<1> HIDE DEF new
<1>4. CASE JobDone /\ surfaces' = surfaces
  <2>1. \A t \in surfaces' \cup {cache'} : Sane(t)
    BY <1>4 DEF Known, Orderly, SurfacesSound
  <2> QED
    BY <1>4, <2>1, SameRelabels, JobDoneOrderly
<1>5. CASE /\ ~Skipped(Head(queue)) /\ surfaces' = Saved(new)
           /\ JobDone \/ (save' = [pc |-> "saved", got |-> new] /\ UNCHANGED <<queue, comp, turn>>)
  <2>1. /\ Relabels(surfaces, surfaces')
        /\ \A t \in surfaces' : SaneIn(t, surfaces', Completed, Ended, Copies)
        /\ SaneIn(new, surfaces', Completed, Ended, Copies)
    BY <1>1, <1>2, <1>5, WriteSane DEF Known, Orderly, SurfacesSound
  <2>2. CASE JobDone
    BY <2>1, <2>2, JobDoneOrderly
  <2>3. CASE save' = [pc |-> "saved", got |-> new] /\ UNCHANGED <<queue, comp, turn>>
    <3>1. save'.got = new
      BY <2>3
    <3> QED
      BY <1>1, <2>1, <2>3, <3>1, JobOrderly
  <2> QED
    BY <1>5, <2>2, <2>3
<1> QED
  BY <1>3, <1>4, <1>5

LEMMA SaveOrderly ==
  ASSUME Known, SaveStep
  PROVE  Orderly'
<1> USE DEF db
<1>1. CASE SaveArchive
  <2>1. /\ save.pc = "idle" /\ queue # <<>> /\ save' = [save EXCEPT !.pc = "archived"]
        /\ UNCHANGED <<surfaces, rows, live, cache, inFlight, queue, comp, turn>>
        /\ archive' = Head(queue)
    BY <1>1, NoHitch DEF SaveArchive, Known, Sound
  <2>2. save'.got = save.got
    BY <2>1 DEF Known, IInv
  <2>3. \A t \in surfaces' \cup {cache', save'.got} : Sane(t)
    BY <2>1, <2>2 DEF Known, Orderly, SurfacesSound
  <2> QED
    BY <2>1, <2>3, SameRelabels, JobOrderly
<1>2. CASE Maintain
  <2>1. save.pc = "archived" /\ UNCHANGED <<live, archive, rows, cache, inFlight>>
    BY <1>2 DEF Maintain
  <2>2. queue # <<>> /\ archive = Head(queue)
    BY <2>1 DEF Known, Alone, Orderly
  <2>3. (\A t \in surfaces : Sane(t)) /\ Sane(cache) /\ Sane(LoadLatest)
    BY LoadSane DEF Known, Orderly, SurfacesSound
  <2>4. CASE cache = Forgotten
    <3>1. UNCHANGED surfaces
      BY <1>2, <2>4 DEF Maintain
    <3>2. CASE JobDone
      BY <2>1, <2>3, <3>1, <3>2, SameRelabels, JobDoneOrderly
    <3>3. CASE save' = [pc |-> "loaded", got |-> LoadLatest] /\ UNCHANGED <<queue, comp, turn>>
      <4>1. save'.got = LoadLatest
        BY <3>3
      <4> QED
        BY <2>1, <2>2, <2>3, <3>1, <3>3, <4>1, SameRelabels, JobOrderly
    <3> QED
      BY <1>2, <2>4, <3>2, <3>3 DEF Maintain
  <2>5. CASE cache # Forgotten
    <3>1. MaintainWith(cache)
      BY <1>2, <2>5 DEF Maintain
    <3>2. cache \in Given /\ Certified(cache)
      BY <2>5 DEF Known, TypeInv, TablesTyped, IInv
    <3>3. Dominates(cache)
      <4>1. \A c \in Checkpoints : ~Unseen(c)
        BY <2>2 DEF Known, Alone, Pending, Unseen
      <4> QED
        BY <2>5, <4>1 DEF Known, Latest
    <3> QED
      BY <2>1, <2>3, <3>1, <3>2, <3>3, MaintainOrderly
  <2> QED
    BY <2>4, <2>5
<1>3. CASE MaintainLoaded
  <2>1. /\ save.pc = "loaded" /\ UNCHANGED <<live, archive, rows, inFlight>>
        /\ cache' = save.got /\ MaintainWith(save.got)
    BY <1>3 DEF MaintainLoaded
  <2>2. save.got \in Given /\ Certified(save.got) /\ Dominates(save.got) /\ Sane(save.got)
    BY <2>1 DEF Known, TypeInv, SaveTyped, IInv, Latest, Orderly, SurfacesSound
  <2> QED
    BY <2>1, <2>2, MaintainOrderly
<1>4. CASE Maintained
  <2>1. /\ save.pc = "saved" /\ cache' = save.got /\ JobDone
        /\ UNCHANGED <<archive, surfaces, rows, live, inFlight>>
    BY <1>4 DEF Maintained, Remember
  <2>2. \A t \in surfaces' \cup {cache'} : Sane(t)
    BY <2>1 DEF Known, Orderly, SurfacesSound
  <2> QED
    BY <2>1, <2>2, SameRelabels, JobDoneOrderly
<1> QED
  BY <1>1, <1>2, <1>3, <1>4 DEF SaveStep

(* A turn finds every surface complete and gets its history.               *)
LEMMA HydrateOrderly ==
  ASSUME Known, HydrateStep
  PROVE  Orderly'
<1> USE DEF Known, db
<1>1. turn.pc \in {"idle", "waiting", "loaded", "running"}
  BY DEF Orderly, SurfacesSound
<1>2. Hydrate \/ HydrateLoaded
  BY <1>1 DEF HydrateStep, FallBackToParent, ParentIncomplete, TakeParent, DiscardAll, RebuildGenerationZero, TakeRebuilt
<1>3. UNCHANGED <<archive, surfaces, rows, live, inFlight, queue, save, comp>>
  BY <1>2 DEF Hydrate, HydrateLoaded
<1>4. Sane(LoadLatest) /\ Sane(cache) /\ Sane(turn.got) /\ Sane(NoSurface)
  BY LoadSane, NothingSane DEF Orderly, SurfacesSound
<1>5. ASSUME NEW nodes, Got(nodes) PROVE turn'.pc = "running" /\ turn'.got = NoSurface
  BY <1>5 DEF Got, Idle
<1>6. ASSUME NEW s, Sane(s), HydrateWith(s) PROVE turn'.pc = "running" /\ turn'.got = NoSurface
  <2>1. Complete(s)
    <3>1. live \in Copies
      BY DEF Copies, Fresh
    <3> QED
      BY <1>6, <3>1 DEF Complete, Sane, SaneIn, Present
  <2> QED
    BY <1>5, <1>6, <2>1 DEF HydrateWith
<1>7. /\ turn'.pc \in {"loaded", "running"}
      /\ Sane(turn'.got) /\ Sane(cache')
  <2>1. CASE Hydrate
    <3>1. cache' = cache
      BY <2>1 DEF Hydrate
    <3>2. CASE turn' = [turn EXCEPT !.pc = "loaded", !.got = LoadLatest]
      <4>1. turn'.pc = "loaded" /\ turn'.got = LoadLatest
        BY <3>2 DEF IInv
      <4> QED
        BY <1>4, <3>1, <4>1
    <3>3. CASE \E nodes : Got(nodes)
      BY <1>4, <1>5, <3>1, <3>3
    <3>4. CASE HydrateWith(cache)
      BY <1>4, <1>6, <3>1, <3>4
    <3> QED
      BY <2>1, <3>2, <3>3, <3>4 DEF Hydrate
  <2>2. CASE HydrateLoaded
    <3>1. cache' = turn.got /\ HydrateWith(turn.got)
      BY <2>2 DEF HydrateLoaded
    <3> QED
      BY <1>4, <1>6, <3>1
  <2> QED
    BY <1>2, <2>1, <2>2
<1>8. Ended' = Ended /\ Completed' = Completed /\ Fresh' = Fresh /\ Copies' = Copies
  BY <1>3 DEF Ended, Completed, Fresh, Copies
<1>9. ListsSound'
  <2>1. Chained' /\ live' \in Fresh
    BY <1>3 DEF Orderly, ListsSound, Chained, Fresh
  <2> QED
    BY <1>3, <1>8, <2>1, SameRelabels, ListsGrow DEF Orderly
<1>10. SurfacesSound'
  <2>1. \A s \in surfaces' \cup {cache', save'.got, turn'.got} : Sane(s)
    BY <1>3, <1>7 DEF Orderly, SurfacesSound
  <2>2. \A c \in Checkpoints : comp'[c].pc \in {"read", "returned", "verified"} => Sane(comp'[c].got)
    BY <1>3 DEF Orderly, SurfacesSound
  <2> QED
    BY <1>3, <1>7, <1>8, <2>1, <2>2, SameRelabels, SurfacesGrow DEF Orderly
<1>11. ASSUME NEW c \in Checkpoints PROVE Fate(c)' /\ InHand(c)'
  <2>1. comp[c].pc = "planned" => comp[c].gen # Unset
    BY DEF Alone, Active
  <2>2. /\ Pending(c) => IF queue' # <<>> THEN queue'[Len(queue')] = live ELSE archive' = live
        /\ comp[c].pc = "waiting" => c \in inFlight'
    BY <1>3 DEF Orderly, InHand
  <2> QED
    BY <1>3, <1>8, <2>1, <2>2, SameRelabels, CallStays DEF Orderly
<1> QED
  BY <1>3, <1>9, <1>10, <1>11 DEF Orderly

-----------------------------------------------------------------------------
(* A commit keeps the order.                                               *)

(* It is about its own checkpoint, the last one, and finds the list that   *)
(* was handed to it in the archive.                                        *)
LEMMA CommitFinds ==
  ASSUME Known, NEW c \in Checkpoints, CommitStep(c)
  PROVE  /\ Pending(c) /\ queue = <<>> /\ save.pc = "idle"
         /\ \A d \in Checkpoints : d # c => comp[d].pc \in {"idle", "over"} /\ comp'[d] = comp[d]
         /\ comp[c].msgs = live /\ archive = live /\ Fresh = {live} /\ Copies = {live}
         /\ LatestCheckpoint(live) \in Points(live) /\ live[LatestCheckpoint(live)].id = c
         /\ \A j \in Points(live) : j <= LatestCheckpoint(live)
         /\ Requested(c) = c
<1> USE DEF Known, IInv, CallsShaped
<1>1. comp[c].pc \in {"waiting", "read", "returned", "rejected", "verified", "failing", "marked"}
  BY DEF CommitStep, ReadSource, CommitTransaction, CommitReturned, Verify, TakeVerdict, MarkFailed, RollBack
<1>2. \A d \in Checkpoints : d # c => comp'[d] = comp[d]
  BY DEF CommitStep, ReadSource, CommitTransaction, CommitReturned, Verify, TakeVerdict, MarkFailed, RollBack
<1>3. Pending(c) /\ Active(c)
  BY <1>1 DEF Pending, Active
<1>4. queue \in Seq(Seq(Message)) /\ live \in Seq(Message)
  BY DEF TypeInv, ListsTyped, Listed
<1>5. queue = <<>>
  <2>1. CASE comp[c].pc = "waiting"
    <3>1. comp[c].ahead = 0
      BY <2>1 DEF CommitStep, ReadSource, CommitTransaction, CommitReturned, Verify, TakeVerdict, MarkFailed, RollBack
    <3> QED
      BY <1>4, <2>1, <3>1, QueueSteps DEF Alone
  <2> QED
    BY <1>3, <2>1 DEF Alone
<1>6. save.pc = "idle" /\ \A d \in Checkpoints : d # c => comp[d].pc \in {"idle", "over"}
  BY <1>3, <1>5 DEF Alone, Active
<1>7. comp[c].msgs = live /\ archive = live
  BY <1>3, <1>5 DEF Orderly, InHand
<1>8. 1 .. Len(queue) = {}
  BY <1>5
<1>9. Fresh = {live} /\ Copies = {live}
  BY <1>7, <1>8 DEF Fresh, Copies
<1>10. PICK i \in Points(live) : live[i].id = c /\ \A j \in Points(live) : j <= i
  BY <1>3 DEF Orderly, InHand
<1>11. LatestCheckpoint(live) = i
  <2>1. i \in 1 .. Len(live) /\ \A j \in 1 .. Len(live) : live[j].id \in Checkpoints => j <= i
    BY <1>10 DEF Points
  <2> QED
    BY <1>4, <1>10, <2>1, LatestAt
<1>12. live[i].cid = live[i].id
  BY <1>9 DEF Orderly, ListsSound, Headed
<1>13. Requested(c) = c
  BY <1>7, <1>10, <1>11, <1>12 DEF Requested
<1> QED
  BY <1>2, <1>3, <1>5, <1>6, <1>7, <1>9, <1>10, <1>11, <1>13

(* A step of the call that leaves the messages and the generations alone.  *)
LEMMA CallMoves ==
  ASSUME Known, NEW c \in Checkpoints, CommitStep(c),
         UNCHANGED <<archive, surfaces, live, queue, save, turn>>, Completed' = Completed,
         comp'[c].pc \in {"read", "rejected", "verified", "failing", "marked", "over"},
         comp'[c].pc = "over" => c \in Completed,
         comp'[c].pc # "over" => comp'[c].msgs = comp[c].msgs,
         Sane(cache'), comp'[c].pc \in {"read", "verified"} => Sane(comp'[c].got),
         Fate(c)'
  PROVE  Orderly'
<1> USE DEF Known
<1>1. /\ Pending(c) /\ queue = <<>> /\ save.pc = "idle"
      /\ \A d \in Checkpoints : d # c => comp[d].pc \in {"idle", "over"} /\ comp'[d] = comp[d]
      /\ comp[c].msgs = live /\ archive = live
      /\ LatestCheckpoint(live) \in Points(live) /\ live[LatestCheckpoint(live)].id = c
      /\ \A j \in Points(live) : j <= LatestCheckpoint(live)
  BY CommitFinds
<1>2. Ended \subseteq Ended' /\ Ended' \subseteq Ended \cup Completed
  BY <1>1 DEF Ended, Pending
<1>3. Fresh' = Fresh /\ Copies' = Copies
  BY DEF Fresh, Copies
<1>4. ListsSound'
  <2>1. Chained' /\ live' \in Fresh
    BY DEF Orderly, ListsSound, Chained, Fresh
  <2> QED
    BY <1>2, <1>3, <2>1, SameRelabels, ListsGrow DEF Orderly
<1>5. SurfacesSound'
  <2>1. \A s \in surfaces' \cup {cache', save'.got, turn'.got} : Sane(s)
    BY DEF Orderly, SurfacesSound
  <2>2. \A d \in Checkpoints : comp'[d].pc \in {"read", "returned", "verified"} => Sane(comp'[d].got)
    BY <1>1 DEF Orderly, SurfacesSound
  <2>3. turn'.pc \in {"idle", "waiting", "loaded", "running"}
    BY DEF Orderly, SurfacesSound
  <2> QED
    BY <1>2, <1>3, <2>1, <2>2, <2>3, SameRelabels, SurfacesGrow DEF Orderly
<1>6. InHand(c)'
  BY <1>1 DEF InHand, Pending
<1>7. \A d \in Checkpoints : d # c => Fate(d)' /\ InHand(d)'
  BY <1>1, CallQuiet DEF Orderly, Fate
<1> QED
  BY <1>1, <1>4, <1>5, <1>6, <1>7 DEF Orderly

LEMMA LoadFindsTop ==
  ASSUME TablesNumbered, NEW c, Top(surfaces, c)
  PROVE  LoadLatest \in surfaces /\ LoadLatest.cid = c /\ \A t \in surfaces : t.gen <= LoadLatest.gen
<1>1. LoadLatest \in surfaces /\ \A t \in surfaces : t.gen <= LoadLatest.gen
  BY DEF TablesNumbered, Top, LoadLatest, OneOf
<1> QED
  BY <1>1 DEF Top

(* It reads, asks what became of it, and marks itself failed.              *)
LEMMA CallOrderly ==
  ASSUME Known, NEW c \in Checkpoints,
         ReadSource(c) \/ Verify(c) \/ TakeVerdict(c) \/ MarkFailed(c)
  PROVE  Orderly'
<1> USE DEF Known, IInv, CallsShaped, db
<1>0. CommitStep(c)
  BY DEF CommitStep
<1>1. Fate(c) /\ Sane(LoadLatest) /\ Sane(cache) /\ UNCHANGED <<archive, surfaces, live, queue, save, turn>>
  BY LoadSane DEF Orderly, SurfacesSound, ReadSource, Verify, TakeVerdict, MarkFailed
<1>2. CASE ReadSource(c)
  <2>1. /\ UNCHANGED <<rows, cache>> /\ comp[c].pc = "waiting"
        /\ \/ comp' = [comp EXCEPT ![c].pc = "read", ![c].got = LoadLatest]
           \/ comp' = [comp EXCEPT ![c].pc = "rejected"]
    BY <1>2 DEF ReadSource
  <2>2. /\ \/ comp'[c].pc = "read" /\ comp'[c].got = LoadLatest
           \/ comp'[c].pc = "rejected"
        /\ comp'[c].msgs = comp[c].msgs
    BY <2>1
  <2>3. Completed' = Completed /\ c \notin Completed
    BY <1>1, <2>1 DEF Completed, Fate
  <2>4. Fate(c)'
    BY <2>2, <2>3 DEF Fate
  <2> QED
    BY <1>0, <1>1, <2>1, <2>2, <2>3, <2>4, CallMoves
<1>3. CASE Verify(c)
  <2>1. /\ UNCHANGED <<rows, cache>> /\ comp[c].pc = "rejected"
        /\ \/ comp' = [comp EXCEPT ![c].pc = "verified", ![c].got = LoadLatest]
           \/ comp' = [comp EXCEPT ![c].pc = "failing"] /\ Replied'
    BY <1>3, NoDisturbance DEF Verify, Sound
  <2>2. /\ \/ comp'[c].pc = "verified" /\ comp'[c].got = LoadLatest
           \/ comp'[c].pc = "failing" /\ Replied'
        /\ comp'[c].msgs = comp[c].msgs
    BY <2>1
  <2>3. Completed' = Completed /\ (c \in Completed => ~Replied /\ Top(surfaces, c))
    BY <1>1, <2>1 DEF Completed, Fate
  <2>4. c \in Completed => LoadLatest.cid = c
    BY <2>3, LoadFindsTop DEF Latest
  <2>5. Fate(c)'
    BY <2>2, <2>3, <2>4 DEF Fate
  <2> QED
    BY <1>0, <1>1, <2>1, <2>2, <2>3, <2>5, CallMoves
<1>4. CASE TakeVerdict(c)
  <2>1. /\ comp[c].pc = "verified" /\ cache' = comp[c].got /\ UNCHANGED rows
        /\ comp' = [comp EXCEPT ![c] = IF Landed(c) THEN Over ELSE [@ EXCEPT !.pc = "failing"]]
    BY <1>4 DEF TakeVerdict, Remember
  <2>2. \/ comp'[c].pc = "over" /\ comp[c].got.cid = c
        \/ comp'[c].pc = "failing" /\ comp'[c].msgs = comp[c].msgs /\ comp[c].got.cid # c
    BY <2>1 DEF Over, Idle, Landed
  <2>3. Completed' = Completed /\ (c \in Completed => comp[c].got.cid = c)
    BY <1>1, <2>1 DEF Completed, Fate
  <2>4. Sane(comp[c].got) /\ (comp[c].got.cid = c => c \in Completed)
    BY <2>1, SurfaceConstants DEF Orderly, SurfacesSound, Trusted, Certified, Completed
  <2>5. Fate(c)'
    BY <2>2, <2>3 DEF Fate
  <2> QED
    BY <1>0, <1>1, <2>1, <2>2, <2>3, <2>4, <2>5, CallMoves
<1>5. CASE MarkFailed(c)
  <2>1. /\ comp[c].pc = "failing" /\ comp' = [comp EXCEPT ![c].pc = "marked"] /\ UNCHANGED cache
        /\ rows' = [rows EXCEPT ![c] = Failed(@)] \/ UNCHANGED rows
    BY <1>5 DEF MarkFailed
  <2>2. comp'[c].pc = "marked" /\ comp'[c].msgs = comp[c].msgs
    BY <2>1
  <2>3. Completed' = Completed /\ c \notin Completed
    BY <1>1, <2>1 DEF Completed, Fate, Failed
  <2>4. Fate(c)'
    BY <2>2, <2>3 DEF Fate
  <2> QED
    BY <1>0, <1>1, <2>1, <2>2, <2>3, <2>4, CallMoves
<1> QED
  BY <1>2, <1>3, <1>4, <1>5

LEMMA NextNumber ==
  ASSUME TablesNumbered, NEW s, Numbered(s), Dominates(s)
  PROVE  SourceOf(s) \in Nat /\ \A t \in surfaces : t.gen < SourceOf(s) + 1
<1>1. SourceOf(s) \in Nat
  BY DEF Numbered, SourceOf, NoGen
<1>2. \A t \in surfaces : t.gen \in Nat /\ t.gen <= SourceOf(s)
  BY DEF TablesNumbered, Dominates
<1> QED
  BY <1>1, <1>2

(* A commit that is accepted makes the latest generation.                  *)
LEMMA TransactionOrderly ==
  ASSUME Known, NEW c \in Checkpoints, CommitTransaction(c)
  PROVE  Orderly'
<1> DEFINE source == SourceOf(comp[c].got)
           new == [gen |-> source + 1, parent |-> source, cid |-> c, nodes |-> ComputeSurfaceNodes(live)]
           k == LatestCheckpoint(live)
<1>0. CommitStep(c)
  BY DEF CommitStep
<1>1. /\ Pending(c) /\ queue = <<>> /\ save.pc = "idle"
      /\ \A d \in Checkpoints : d # c => comp[d].pc \in {"idle", "over"} /\ comp'[d] = comp[d]
      /\ comp[c].msgs = live /\ archive = live /\ Fresh = {live} /\ Copies = {live}
      /\ k \in Points(live) /\ live[k].id = c
      /\ \A j \in Points(live) : j <= k
      /\ Requested(c) = c
  BY <1>0, CommitFinds
<1> DEFINE Steps == (~Steady => ~Steady') /\ (~Replied => ~Replied')
<1>a. Orderly /\ Latest /\ TypeInv /\ Serial' /\ DOMAIN comp = Checkpoints /\ DOMAIN rows = Checkpoints /\ {"pc", "got", "msgs"} \subseteq DOMAIN comp[c] /\ Steps
  BY DEF Known, IInv, CallsShaped, Sound
<1> HIDE DEF Steps
<1>2. /\ comp[c].pc = "read" /\ cache' = comp[c].got
      /\ UNCHANGED <<archive, live, queue, save, turn>>
  BY DEF CommitTransaction
<1>3. /\ comp'[c].pc \in {"returned", "rejected"} /\ comp'[c].got = new /\ comp'[c].msgs = comp[c].msgs
      /\ comp'[c].pc = "returned" => c \in Completed'
      /\ \/ UNCHANGED <<surfaces, rows>>
         \/ /\ surfaces' = surfaces \cup {new} /\ rows' = [rows EXCEPT ![c] = "completed"]
            /\ comp'[c].pc = "returned" \/ ~Replied'
  <2>1. PICK how \in {"answered", "commit refused", "commit lost"} :
          /\ how = "commit lost" => Happens(how)
          /\ \/ UNCHANGED <<surfaces, rows>>
             \/ /\ how # "commit refused"
                /\ surfaces' = surfaces \cup {new} /\ rows' = [rows EXCEPT ![c] = "completed"]
          /\ comp' = [comp EXCEPT ![c].pc = IF how = "answered" /\ c \in Completed' THEN "returned" ELSE "rejected",
                                  ![c].got = new]
    BY <1>1 DEF CommitTransaction
  <2>2. /\ comp'[c].pc = IF how = "answered" /\ c \in Completed' THEN "returned" ELSE "rejected"
        /\ comp'[c].got = new /\ comp'[c].msgs = comp[c].msgs
    BY <1>a, <2>1
  <2>3. how = "commit lost" => ~Replied'
    BY <1>a, <2>1, NoDisturbance
  <2>4. rows' = [rows EXCEPT ![c] = "completed"] => c \in Completed'
    BY <1>a DEF Completed
  <2>5. how = "commit refused" => UNCHANGED <<surfaces, rows>>
    BY <2>1
  <2>6. \/ UNCHANGED <<surfaces, rows>>
        \/ surfaces' = surfaces \cup {new} /\ rows' = [rows EXCEPT ![c] = "completed"]
    BY <2>1
  <2>7. how = "answered" /\ c \in Completed' => comp'[c].pc = "returned"
    BY <2>2
  <2>8. /\ comp'[c].pc \in {"returned", "rejected"}
        /\ comp'[c].pc = "returned" => c \in Completed'
    BY <2>2
  <2>9. how = "answered" \/ how = "commit refused" \/ how = "commit lost"
    OBVIOUS
  <2>10. comp'[c].got = new /\ comp'[c].msgs = comp[c].msgs
    BY <2>2
  <2> HIDE DEF new
  <2> QED
    BY <2>3, <2>4, <2>5, <2>6, <2>7, <2>8, <2>9, <2>10
<1>5. c \notin Completed /\ Sane(comp[c].got)
  BY <1>2, <1>a DEF Orderly, Fate, SurfacesSound
<1>6. Numbered(comp[c].got) /\ Dominates(comp[c].got) /\ \A t \in surfaces : t.gen \in Nat
  BY <1>2, <1>a DEF Latest, TablesNumbered
<1>7. source \in Nat /\ \A t \in surfaces : t.gen < source + 1
  BY <1>6, <1>a, NextNumber DEF Latest
<1>8. new.gen = source + 1 /\ new.cid = c /\ new.nodes = ComputeSurfaceNodes(live) /\ c # NoCompaction
  BY SurfaceConstants
<1> HIDE DEF new, source, k
<1>9. Ended' = Ended
  BY <1>1, <1>2, <1>3, <1>a DEF Ended
<1>10. CASE UNCHANGED <<surfaces, rows>>
  <2>1. Completed' = Completed
    BY <1>10 DEF Completed
  <2>2. Fate(c)' /\ comp'[c].pc = "rejected"
    BY <1>3, <1>5, <2>1 DEF Fate
  <2> QED
    BY <1>0, <1>2, <1>3, <1>5, <1>10, <2>1, <2>2, CallMoves
<1>11. CASE /\ surfaces' = surfaces \cup {new} /\ rows' = [rows EXCEPT ![c] = "completed"]
            /\ comp'[c].pc = "returned" \/ ~Replied'
  <2>1. Completed' = Completed \cup {c}
    BY <1>a, <1>11 DEF Completed
  <2>2. Fresh' = {live} /\ Copies' = {live}
    BY <1>1, <1>2 DEF Fresh, Copies
  <2>3. \A t \in surfaces' : (\A u \in surfaces' : u.gen <= t.gen) => t = new
    BY <1>6, <1>7, <1>8, <1>11
  <2>4. Kept(live, Completed', Ended', ~Steady')
    <3>1. Kept(live, Completed, Ended, ~Steady)
      BY <1>a, <1>1 DEF Orderly, ListsSound
    <3> QED
      BY <1>a, <1>9, <2>1, <3>1, KeptStays DEF Steps
  <2>5. \A i \in Points(live) : i # k => k > i
    <3>1. \A i \in Points(live) : i \in Int
      BY DEF Points
    <3> QED
      BY <1>1, <3>1
  <2>6. Headed(live, Completed', surfaces')
    <3>1. \A i \in Points(live) : live[i].cid = live[i].id
      BY <1>a, <1>1 DEF Orderly, ListsSound, Headed
    <3>2. LastDone(live, k, Completed')
      BY <1>1 DEF LastDone, Points
    <3>3. \A i \in Points(live) : live[i].id \notin Completed' => ~LastDone(live, i, Completed')
      BY <1>1, <2>1, <2>5 DEF LastDone
    <3> QED
      BY <1>1, <1>8, <2>3, <3>1, <3>2, <3>3 DEF Headed
  <2>7. OneStored'
    BY <1>a, <1>2, <2>1 DEF Steps, Orderly, ListsSound, OneStored
  <2>8. ListsSound'
    <3>1. Chained'
      BY <1>a, <1>2 DEF Orderly, ListsSound, Chained
    <3> QED
      BY <2>2, <2>4, <2>6, <2>7, <3>1 DEF ListsSound
  <2>9. \A s : Sane(s) => SaneIn(s, surfaces', Completed', Ended', Copies')
    <3> SUFFICES ASSUME NEW s, Sane(s) PROVE SaneIn(s, surfaces', Completed', Ended', Copies')
      OBVIOUS
    <3>1. s.gen \in Int /\ Faithful(s, surfaces) /\ Clean(s, Completed, Ended) /\ Present(s, Copies)
      BY DEF Sane, SaneIn
    <3>2. s.gen # new.gen
      <4>1. CASE s.gen <= 0
        BY <1>7, <1>8, <3>1, <4>1
      <4>2. CASE s.gen > 0
        <5>1. PICK t \in surfaces : t.gen = s.gen
          BY <3>1, <4>2 DEF Faithful
        <5> QED
          BY <1>7, <1>8, <3>1, <5>1
      <4> QED
        BY <3>1, <4>1, <4>2
    <3>3. Faithful(s, surfaces')
      BY <1>11, <3>1, <3>2 DEF Faithful
    <3>4. Clean(s, Completed', Ended') /\ Present(s, Copies')
      BY <1>1, <1>9, <2>1, <2>2, <3>1 DEF Clean
    <3> QED
      BY <3>1, <3>3, <3>4 DEF SaneIn
  <2>10. SaneIn(new, surfaces', Completed', Ended', Copies')
    <3>1. live \in Seq(Message)
      BY <1>a DEF TypeInv, ListsTyped, Listed
    <3>2. new.gen \in Int /\ new.gen > 0
      BY <1>7, <1>8
    <3>3. Faithful(new, surfaces')
      <4>1. \A t \in surfaces' : t.gen = new.gen => t = new
        BY <1>6, <1>7, <1>8, <1>11
      <4> QED
        BY <1>11, <3>2, <4>1 DEF Faithful
    <3>4. Clean(new, Completed', Ended')
      <4>1. \A d \in RangeOf(ComputeSurfaceNodes(live)) \cap Checkpoints : d = live[k].id
        BY <3>1, NodesAre DEF k
      <4> QED
        BY <1>1, <1>8, <2>1, <4>1 DEF Clean
    <3>5. Present(new, Copies')
      BY <1>8, <2>2, <3>1, NodesIn DEF Present
    <3> QED
      BY <3>2, <3>3, <3>4, <3>5 DEF SaneIn
  <2>11. SurfacesSound'
    <3>1. \A s \in surfaces' : Sane(s)'
      BY <1>a, <1>11, <2>9, <2>10 DEF Orderly, SurfacesSound, Sane
    <3>2. Sane(cache)' /\ Sane(save.got)' /\ Sane(turn.got)'
      BY <1>a, <1>2, <1>5, <2>9 DEF Orderly, SurfacesSound, Sane
    <3>3. \A d \in Checkpoints : comp'[d].pc \in {"read", "returned", "verified"} => Sane(comp[d].got)'
      BY <1>1, <1>3, <2>10 DEF Sane
    <3> QED
      BY <1>a, <1>2, <3>1, <3>2, <3>3 DEF Orderly, SurfacesSound
  <2>12. Fate(c)'
    <3>3. Top(surfaces', c)
      BY <1>8, <1>11, <2>3 DEF Top
    <3>4. comp'[c].pc \in {"returned", "rejected"} /\ comp'[c].got.cid = c
      BY <1>3, <1>8
    <3> QED
      BY <1>11, <3>3, <3>4 DEF Fate
  <2>13. InHand(c)'
    <3>1. comp'[c].pc \in {"returned", "rejected"}
      BY <1>3
    <3> QED
      BY <1>1, <1>2, <1>3, <3>1 DEF InHand
  <2>14. \A d \in Checkpoints : d # c => Fate(d)' /\ InHand(d)'
    BY <1>a, <1>1, <2>1, CallQuiet DEF Orderly, Fate
  <2> QED
    BY <1>1, <1>2, <2>8, <2>11, <2>12, <2>13, <2>14 DEF Orderly
<1> QED
  BY <1>3, <1>10, <1>11

(* The reply gives the checkpoint its generation.                          *)
LEMMA ReturnedOrderly ==
  ASSUME Known, NEW c \in Checkpoints, CommitReturned(c), live' \in Seq(Message)
  PROVE  Orderly'
<1> DEFINE k == LatestCheckpoint(live)
<1>0. CommitStep(c)
  BY DEF CommitStep
<1>1. /\ Pending(c) /\ queue = <<>> /\ save.pc = "idle"
      /\ \A d \in Checkpoints : d # c => comp[d].pc \in {"idle", "over"} /\ comp'[d] = comp[d]
      /\ archive = live /\ Fresh = {live} /\ Copies = {live}
  BY <1>0, CommitFinds
<1>2. /\ Orderly /\ TypeInv /\ IInv /\ DOMAIN comp = Checkpoints /\ "pc" \in DOMAIN turn /\ "got" \in DOMAIN turn
      /\ (~Steady => ~Steady')
  BY DEF Known, IInv, CallsShaped
<1>3. /\ comp[c].pc = "returned" /\ cache' = comp[c].got /\ comp' = [comp EXCEPT ![c] = Over]
      /\ UNCHANGED <<archive, surfaces, rows, queue, save>>
  BY DEF CommitReturned, Remember, db
<1>4. comp'[c].pc = "over" /\ Completed' = Completed
  BY <1>2, <1>3 DEF Over, Idle, Completed
<1>5. turn'.pc = turn.pc /\ turn'.got = turn.got
  <2>1. turn' = turn \/ turn' = [turn EXCEPT !.head = c]
    BY DEF CommitReturned
  <2> QED
    BY <1>2, <2>1
<1>6. comp[c].got.cid = c /\ Sane(comp[c].got) /\ c \in Completed
  <2>1. comp[c].got.cid = c /\ Sane(comp[c].got)
    BY <1>2, <1>3 DEF Orderly, Fate, SurfacesSound
  <2>2. Certified(comp[c].got)
    BY <1>2, <1>3 DEF IInv, Trusted
  <2>3. c # NoCompaction
    BY SurfaceConstants
  <2> QED
    BY <2>1, <2>2, <2>3 DEF Certified, Completed
<1>7. Ended' = Ended \cup {c}
  BY <1>1, <1>3, <1>4 DEF Ended
<1>8. /\ DOMAIN live' = DOMAIN live
      /\ \A i \in DOMAIN live : live'[i].id = live[i].id /\ (live[i].id = c => live'[i].cid = c)
      /\ \A i \in DOMAIN live : live[i].id # c => live'[i] = live[i]
  <2>1. live' = [i \in DOMAIN live |->
                   IF live[i].id = c THEN [id |-> c, cid |-> comp[c].got.cid, gen |-> comp[c].got.gen]
                                     ELSE live[i]]
    BY DEF CommitReturned
  <2> QED
    BY <1>6, <2>1
<1>9. /\ live' \in Seq(Message) /\ live \in Seq(Message)
  BY DEF Known, TypeInv, ListsTyped, Listed
<1>10. DOMAIN live = 1 .. Len(live) /\ 1 .. Len(live') = 1 .. Len(live)
  BY <1>8, <1>9
<1>11. Points(live') = Points(live) /\ \A i \in Points(live) : i \in DOMAIN live
  BY <1>8, <1>10 DEF Points
<1>12. IdSet(live') = IdSet(live)
  BY <1>8 DEF IdSet
<1>13. Kept(live', Completed, Ended', ~Steady')
  <2>1. Kept(live, Completed, Ended', ~Steady')
    <3>1. Kept(live, Completed, Ended, ~Steady)
      BY <1>1, <1>2 DEF Orderly, ListsSound
    <3> QED
      BY <1>2, <1>6, <1>7, <3>1, KeptStays
  <2> QED
    BY <1>8, <1>11, <2>1 DEF Kept
<1>14. Headed(live', Completed, surfaces')
  <2>1. Headed(live, Completed, surfaces)
    BY <1>1, <1>2 DEF Orderly, ListsSound
  <2>2. \A i \in Points(live) : LastDone(live', i, Completed) <=> LastDone(live, i, Completed)
    BY <1>8, <1>11 DEF LastDone
  <2>3. \A i \in Points(live) : live'[i].cid = live'[i].id
    BY <1>8, <1>11, <2>1 DEF Headed
  <2>4. \A i \in Points(live) : live'[i].id \notin Completed => live'[i] = live[i]
    BY <1>6, <1>8, <1>11
  <2> QED
    BY <1>3, <1>8, <1>11, <2>1, <2>2, <2>3, <2>4 DEF Headed
<1>15. /\ Chained' /\ Fresh' = {live'} /\ Copies' = {live', live}
  <2>1. 1 .. Len(queue') = {}
    BY <1>1, <1>3
  <2> QED
    BY <1>1, <1>3, <2>1 DEF Chained, Fresh, Copies
<1>16. ListsSound'
  <2>1. Ended \subseteq Ended' /\ Fresh' \subseteq Fresh \cup {live'}
    BY <1>7, <1>15
  <2>2. \A ms \in Fresh : \A i \in Points(ms) : ms[i].id \in Ended' => ms[i].id \in Ended \cup Completed
    BY <1>6, <1>7
  <2>3. ListsSound /\ Relabels(surfaces, surfaces')
    BY <1>2, <1>3, SameRelabels DEF Orderly
  <2> QED
    BY <1>2, <1>3, <1>4, <1>13, <1>14, <1>15, <2>1, <2>2, <2>3, ListsGrow
<1>17. SurfacesSound'
  <2>1. \A s \in surfaces' \cup {cache', save'.got, turn'.got} : Sane(s)
    BY <1>2, <1>3, <1>5, <1>6 DEF Orderly, SurfacesSound
  <2>2. \A d \in Checkpoints : comp'[d].pc \notin {"read", "returned", "verified"}
    BY <1>1, <1>4
  <2>3. turn'.pc \in {"idle", "waiting", "loaded", "running"}
    BY <1>2, <1>5 DEF Orderly, SurfacesSound
  <2>4. \A ms \in Copies' : ms \in Copies \/ \E l \in Copies : IdSet(l) \subseteq IdSet(ms)
    BY <1>1, <1>12, <1>15
  <2> QED
    BY <1>2, <1>3, <1>4, <1>7, <2>1, <2>2, <2>3, <2>4, SameRelabels, SurfacesGrow DEF Orderly
<1>18. ASSUME NEW d \in Checkpoints PROVE Fate(d)' /\ InHand(d)'
  <2>1. comp'[d].pc \in {"idle", "over"} /\ (comp'[d].pc = "idle" => d \notin Completed')
    BY <1>1, <1>2, <1>4 DEF Orderly, Fate
  <2> QED
    BY <2>1, CallQuiet
<1> QED
  BY <1>1, <1>3, <1>16, <1>17, <1>18 DEF Orderly

(* A checkpoint that leaves the messages was in no surface.                *)
LEMMA RollBackOrderly ==
  ASSUME Known, NEW c \in Checkpoints, RollBack(c)
  PROVE  Orderly'
<1> DEFINE k == LatestCheckpoint(live)
<1>0. CommitStep(c)
  BY DEF CommitStep
<1>1. /\ Pending(c) /\ queue = <<>> /\ save.pc = "idle"
      /\ \A d \in Checkpoints : d # c => comp[d].pc \in {"idle", "over"} /\ comp'[d] = comp[d]
      /\ archive = live /\ Fresh = {live} /\ Copies = {live}
      /\ k \in Points(live) /\ live[k].id = c
      /\ \A j \in Points(live) : j <= k
  BY <1>0, CommitFinds
<1>2. Orderly /\ TypeInv /\ IInv /\ DOMAIN comp = Checkpoints /\ (~Steady => ~Steady')
  BY DEF Known, IInv, CallsShaped
<1>3. /\ comp[c].pc = "marked" /\ live' = Without(live, c) /\ Enqueue(live') /\ comp' = [comp EXCEPT ![c] = Over]
      /\ UNCHANGED <<archive, surfaces, rows, cache, save, turn>>
  BY DEF RollBack, RolledBack, db
<1>4. comp'[c].pc = "over" /\ Completed' = Completed /\ c \notin Completed
  BY <1>2, <1>3 DEF Over, Idle, Completed, Orderly, Fate
<1>5. Ended' = Ended \cup {c} /\ c \notin Ended
  BY <1>1, <1>3, <1>4 DEF Ended
<1>6. /\ live \in Seq(Message)
      /\ \A i, j \in 1 .. Len(live) : live[i].id = live[j].id => i = j
  BY <1>2 DEF TypeInv, ListsTyped, Listed
<1> HIDE DEF k
<1>7. /\ Points(live') = Points(live) \ {k}
      /\ \A i \in Points(live) \ {k} : live'[i] = live[i]
      /\ IdSet(live') = IdSet(live) \ {c}
  BY <1>1, <1>3, <1>6, DropPoints
<1>8. \A i \in Points(live) \ {k} : live[i].id # c
  BY <1>1, <1>6 DEF Points
<1>9. /\ Chained' /\ Fresh' = {live'} /\ Copies' = {live', live}
  <2>1. queue' = <<live'>>
    BY <1>1, <1>3 DEF Enqueue
  <2>2. 1 .. Len(queue') = {1} /\ queue'[1] = live'
    BY <2>1
  <2> QED
    BY <1>1, <1>3, <2>2 DEF Chained, Fresh, Copies
<1>10. Kept(live, Completed, Ended, ~Steady) /\ Headed(live, Completed, surfaces)
  BY <1>1, <1>2 DEF Orderly, ListsSound
<1>11. Kept(live', Completed, Ended', ~Steady')
  BY <1>2, <1>5, <1>7, <1>8, <1>10 DEF Kept
<1>12. Headed(live', Completed, surfaces)
  <2>1. \A i \in Points(live') : LastDone(live', i, Completed) => LastDone(live, i, Completed)
    <3>1. \A j \in Points(live) : j = k \/ j \in Points(live')
      BY <1>7
    <3> QED
      BY <1>1, <1>4, <1>7, <3>1 DEF LastDone
  <2>2. \A i \in Points(live') : LastDone(live, i, Completed) => LastDone(live', i, Completed)
    BY <1>7 DEF LastDone
  <2>3. \A i \in Points(live') : live'[i] = live[i] /\ i \in Points(live)
    BY <1>7
  <2>4. \A t \in surfaces : t.cid # NoCompaction => t.cid # c
    BY <1>2, <1>4 DEF IInv, Certified, Completed
  <2>5. ASSUME NEW t \in surfaces, t.cid # NoCompaction, \A u \in surfaces : u.gen <= t.gen
        PROVE  \E i \in Points(live') : live'[i].id = t.cid /\ LastDone(live', i, Completed)
    <3>1. PICK i \in Points(live) : live[i].id = t.cid /\ LastDone(live, i, Completed)
      BY <1>10, <2>5 DEF Headed
    <3>2. i \in Points(live')
      BY <1>1, <1>7, <2>4, <2>5, <3>1
    <3> QED
      BY <2>2, <2>3, <3>1, <3>2
  <2> QED
    BY <1>10, <2>1, <2>3, <2>5 DEF Headed
<1>13. ListsSound'
  <2>1. OneStored'
    BY <1>2, <1>3, <1>4 DEF Orderly, ListsSound, OneStored
  <2> QED
    BY <1>3, <1>4, <1>9, <1>10, <1>11, <1>12, <2>1 DEF ListsSound
<1>14. \A s : Sane(s) => SaneIn(s, surfaces', Completed', Ended', Copies')
  <2> SUFFICES ASSUME NEW s, Sane(s) PROVE SaneIn(s, surfaces', Completed', Ended', Copies')
    OBVIOUS
  <2>1. s.gen \in Int /\ Faithful(s, surfaces) /\ Clean(s, Completed, Ended) /\ RangeOf(s.nodes) \subseteq IdSet(live)
    BY <1>1 DEF Sane, SaneIn, Present
  <2>2. c \notin RangeOf(s.nodes)
    BY <1>4, <1>5, <2>1 DEF Clean
  <2>3. Present(s, Copies')
    BY <1>7, <1>9, <2>1, <2>2 DEF Present
  <2>4. Clean(s, Completed', Ended')
    BY <1>4, <1>5, <2>1 DEF Clean
  <2> QED
    BY <1>3, <2>1, <2>3, <2>4 DEF SaneIn
<1>15. SurfacesSound'
  <2>1. \A d \in Checkpoints : comp'[d].pc \notin {"read", "returned", "verified"}
    BY <1>1, <1>4
  <2>2. (\A s \in surfaces' : Sane(s)') /\ Sane(cache)' /\ Sane(save.got)' /\ Sane(turn.got)'
    BY <1>2, <1>3, <1>14 DEF Orderly, SurfacesSound, Sane
  <2> QED
    BY <1>2, <1>3, <2>1, <2>2 DEF Orderly, SurfacesSound
<1>16. ASSUME NEW d \in Checkpoints PROVE Fate(d)' /\ InHand(d)'
  <2>1. comp'[d].pc \in {"idle", "over"} /\ (comp'[d].pc = "idle" => d \notin Completed')
    BY <1>1, <1>2, <1>4 DEF Orderly, Fate
  <2> QED
    BY <2>1, CallQuiet
<1> QED
  BY <1>1, <1>3, <1>13, <1>15, <1>16 DEF Orderly

-----------------------------------------------------------------------------
(* Turns, restarts and the beginning of a compaction keep the order.       *)

LEMMA NewMessageIs ==
  ASSUME sent \in Nat, sent < MaxMsgs
  PROVE  NewMessage \in Message /\ NewMessage.id \notin Checkpoints
<1>1. sent + 1 \in Plain /\ sent + 1 \in Int
  BY SurfaceConstants DEF Plain
<1>2. NewMessage.id = sent + 1 /\ NewMessage \in Messages
  BY <1>1 DEF NewMessage, Unset, Messages
<1>3. NewMessage.id \notin Checkpoints
  BY <1>1, <1>2, SurfaceConstants
<1> QED
  BY <1>2, <1>3 DEF Message

LEMMA Quiet ==
  ASSUME Known, NEW c \in Checkpoints, ~Active(c), UNCHANGED rows,
         comp'[c].pc = comp[c].pc \/ comp'[c].pc = "over"
  PROVE  Fate(c)' /\ InHand(c)'
<1>1. comp'[c].pc \in {"idle", "over"} /\ Completed' = Completed
  BY DEF Active, Completed
<1>2. comp'[c].pc = "idle" => c \notin Completed
  BY DEF Active, Known, Orderly, Fate
<1> QED
  BY <1>1, <1>2, CallQuiet

LEMMA TurnOrderly ==
  ASSUME Known, \A c \in Checkpoints : ~Active(c), UNCHANGED <<archive, surfaces, rows, cache, save, comp>>,
         Enqueue(live') \/ UNCHANGED queue,
         live' = live \/ (live' = Append(live, NewMessage) /\ sent < MaxMsgs),
         turn'.got = turn.got \/ turn'.got = NoSurface, turn'.pc \in {"idle", "waiting", "running"}
  PROVE  Orderly'
<1>1. /\ Orderly /\ TypeInv /\ live \in Seq(Message) /\ sent \in Nat /\ queue \in Seq(Seq(Message))
      /\ (~Steady => ~Steady') /\ (save.pc # "idle" => queue # <<>>)
  BY DEF Known, Alone, TypeInv, ListsTyped, Listed
<1>2. /\ Points(live') = Points(live) /\ IdSet(live) \subseteq IdSet(live')
      /\ \A i \in Points(live) : live'[i] = live[i]
  <2>1. CASE live' = live
    BY <2>1
  <2>2. CASE live' = Append(live, NewMessage) /\ sent < MaxMsgs
    BY <1>1, <2>2, NewMessageIs, AppendPoints
  <2> QED
    BY <2>1, <2>2
<1>3. Ended' = Ended /\ Completed' = Completed
  BY DEF Ended, Completed
<1>4. /\ Chained' /\ Fresh' \subseteq Fresh \cup {live'}
      /\ queue # <<>> => Head(queue') = Head(queue)
  BY <1>1, <1>2, QueueGrows DEF Orderly, ListsSound
<1>5. live \in Fresh /\ live \in Copies /\ \A ms \in Copies' : ms \in Copies \/ ms = live'
  BY <1>4 DEF Fresh, Copies
<1>6. Kept(live', Completed, Ended', ~Steady') /\ Headed(live', Completed, surfaces')
  <2>1. Kept(live, Completed, Ended, ~Steady) /\ Headed(live, Completed, surfaces)
    BY <1>1, <1>5 DEF Orderly, ListsSound
  <2>2. \A i \in Points(live) : LastDone(live', i, Completed) <=> LastDone(live, i, Completed)
    BY <1>2 DEF LastDone
  <2> QED
    BY <1>1, <1>2, <1>3, <2>1, <2>2 DEF Kept, Headed
<1>7. ListsSound'
  BY <1>1, <1>3, <1>4, <1>6, SameRelabels, ListsGrow DEF Orderly
<1>8. SurfacesSound'
  <2>1. \A s \in surfaces' \cup {cache', save'.got, turn'.got} : Sane(s)
    BY <1>1, NothingSane DEF Orderly, SurfacesSound
  <2>2. \A c \in Checkpoints : comp'[c].pc \in {"read", "returned", "verified"} => Sane(comp'[c].got)
    BY <1>1 DEF Orderly, SurfacesSound
  <2>3. \A ms \in Copies' : ms \in Copies \/ \E l \in Copies : IdSet(l) \subseteq IdSet(ms)
    BY <1>2, <1>5
  <2> QED
    BY <1>1, <1>3, <2>1, <2>2, <2>3, SameRelabels, SurfacesGrow DEF Orderly
<1>9. \A c \in Checkpoints : Fate(c)' /\ InHand(c)'
  BY Quiet
<1> QED
  BY <1>1, <1>4, <1>7, <1>8, <1>9 DEF Orderly

(* A crash leaves the one orphan that the archive held.                    *)
LEMMA RestartOrderly ==
  ASSUME Known, Counted, Once, Restart
  PROVE  Orderly'
<1>1. /\ live' = archive /\ cache' = Forgotten /\ queue' = <<>> /\ save' = [pc |-> "idle", got |-> NoSurface]
      /\ comp' = [c \in Checkpoints |-> IF comp[c].pc = "idle" THEN Idle ELSE Over]
      /\ turn' = Idle /\ UNCHANGED <<archive, surfaces, rows>> /\ Happens("restart")
  BY DEF Restart, db
<1>2. Orderly /\ TypeInv /\ Once'
  BY DEF Known, Sound
<1>3. Steady /\ ~Steady'
  BY <1>1, <1>2, FirstRestart
<1>4. /\ \A c \in Checkpoints : comp'[c].pc = IF comp[c].pc = "idle" THEN "idle" ELSE "over"
      /\ turn'.pc = "idle" /\ turn'.got = NoSurface /\ save'.pc = "idle" /\ save'.got = NoSurface
  BY <1>1 DEF Idle, Over
<1>5. Completed' = Completed /\ Ended \subseteq Ended' /\ Begun \subseteq Ended'
  BY <1>1, <1>4 DEF Completed, Ended, Begun
<1>6. Fresh' = {archive} /\ Copies' = {archive} /\ archive \in Copies /\ Chained'
  <2>1. 1 .. Len(queue') = {}
    BY <1>1
  <2> QED
    BY <1>1, <2>1 DEF Fresh, Copies, Chained
<1>7. \A i \in Points(archive) : archive[i].id \in Ended'
  <2>1. \A i \in Points(archive) : archive[i].id \in Begun
    <3>1. \A i \in 1 .. Len(archive) : archive[i].id \in Begun \/ archive[i].id \in Plain
      BY <1>2 DEF TypeInv, ListsTyped, Listed
    <3>2. Plain \cap Checkpoints = {}
      BY SurfaceConstants DEF Plain
    <3> QED
      BY <3>1, <3>2 DEF Points
  <2> QED
    BY <1>5, <2>1
<1>8. Kept(archive, Completed, Ended', ~Steady')
  BY <1>2, <1>3, <1>7 DEF Orderly, ListsSound, OneStored, Kept
<1>9. ListsSound'
  BY <1>1, <1>2, <1>3, <1>5, <1>6, <1>8 DEF Orderly, ListsSound, OneStored
<1>10. SurfacesSound'
  <2>1. \A s \in surfaces' \cup {cache', save'.got, turn'.got} : Sane(s)
    BY <1>1, <1>2, <1>4, NothingSane DEF Orderly, SurfacesSound
  <2>2. \A c \in Checkpoints : comp'[c].pc \notin {"read", "returned", "verified"}
    BY <1>4
  <2> QED
    BY <1>1, <1>2, <1>4, <1>5, <1>6, <2>1, <2>2, SameRelabels, SurfacesGrow DEF Orderly
<1>11. ASSUME NEW c \in Checkpoints PROVE Fate(c)' /\ InHand(c)'
  <2>1. comp'[c].pc = "idle" => c \notin Completed'
    BY <1>2, <1>4, <1>5 DEF Orderly, Fate
  <2> QED
    BY <1>4, <2>1, CallQuiet
<1> QED
  BY <1>4, <1>9, <1>10, <1>11 DEF Orderly

(* A compaction is planned, or given up before it is inserted.             *)
LEMMA PlanOrderly ==
  ASSUME Known, NEW c \in Checkpoints, Plan(c)
  PROVE  Orderly'
<1> DEFINE s == IF cache = Forgotten THEN LoadLatest ELSE cache
<1>1. /\ Orderly /\ TypeInv /\ Latest /\ Alone /\ DOMAIN comp = Checkpoints /\ (~Steady => ~Steady')
  BY DEF Known, IInv, CallsShaped
<1>2. /\ turn.pc = "idle" /\ Planned = {} /\ comp[c].pc = "idle" /\ cache' = s
      /\ UNCHANGED <<archive, surfaces, rows, live, queue, save, turn>>
  BY DEF Plan, db
<1>3. \A d \in Checkpoints : ~Active(d)
  BY <1>1, <1>2, NobodyActive
<1>4. Numbered(s) /\ Dominates(s) /\ Sane(s)
  <2>1. Sane(LoadLatest) /\ Sane(cache)
    BY <1>1, LoadSane DEF Orderly, SurfacesSound
  <2> QED
    BY <1>1, <1>3, <2>1, LoadIsLatest DEF Latest, Active, Unseen
<1>5. comp' = [comp EXCEPT ![c] = [Idle EXCEPT !.pc = "planned", !.msgs = live, !.gen = SourceOf(s) + 1]]
  <2>1. (IF s.gen = NoGen THEN 1 ELSE s.gen + 1) = SourceOf(s) + 1
    BY DEF SourceOf
  <2> QED
    BY <2>1 DEF Plan
<1> HIDE DEF s
<1>6. /\ comp'[c].pc = "planned" /\ comp'[c].msgs = live /\ comp'[c].gen = SourceOf(s) + 1
      /\ \A d \in Checkpoints : d # c => comp'[d] = comp[d]
  BY <1>1, <1>5 DEF Idle
<1>7. \A t \in surfaces : t.gen < comp'[c].gen
  BY <1>1, <1>4, <1>6, NextNumber DEF Latest
<1>8. Ended' = Ended /\ Completed' = Completed /\ Fresh' = Fresh /\ Copies' = Copies
  BY <1>2, <1>6 DEF Ended, Completed, Fresh, Copies
<1>9. ListsSound'
  <2>1. Chained' /\ live' \in Fresh
    BY <1>1, <1>2 DEF Orderly, ListsSound, Chained, Fresh
  <2> QED
    BY <1>1, <1>2, <1>8, <2>1, SameRelabels, ListsGrow DEF Orderly
<1>10. SurfacesSound'
  <2>1. \A u \in surfaces' \cup {cache', save'.got, turn'.got} : Sane(u)
    BY <1>1, <1>2, <1>4 DEF Orderly, SurfacesSound
  <2>2. \A d \in Checkpoints : comp'[d].pc \notin {"read", "returned", "verified"}
    BY <1>3, <1>6 DEF Active
  <2>3. turn'.pc \in {"idle", "waiting", "loaded", "running"}
    BY <1>2
  <2> QED
    BY <1>1, <1>2, <1>8, <2>1, <2>2, <2>3, SameRelabels, SurfacesGrow DEF Orderly
<1>11. Fate(c)' /\ InHand(c)'
  <2>1. c \notin Completed
    BY <1>1, <1>2 DEF Orderly, Fate
  <2> QED
    BY <1>2, <1>6, <1>7, <1>8, <2>1 DEF Fate, InHand, Pending
<1>12. \A d \in Checkpoints : d # c => Fate(d)' /\ InHand(d)'
  BY <1>2, <1>3, <1>6, Quiet
<1> QED
  BY <1>1, <1>2, <1>9, <1>10, <1>11, <1>12 DEF Orderly

LEMMA AbandonOrderly ==
  ASSUME Known, NEW c \in Checkpoints, AbandonPlan(c)
  PROVE  Orderly'
<1>1. /\ Orderly /\ TypeInv /\ Alone /\ DOMAIN comp = Checkpoints /\ (~Steady => ~Steady')
  BY DEF Known, IInv, CallsShaped
<1>2. /\ comp[c].pc = "planned" /\ comp' = [comp EXCEPT ![c] = Over]
      /\ UNCHANGED <<archive, surfaces, rows, live, cache, queue, save, turn>>
  BY DEF AbandonPlan, db
<1>3. /\ comp'[c].pc = "over"
      /\ \A d \in Checkpoints : d # c => comp'[d] = comp[d] /\ ~Active(d)
  BY <1>1, <1>2 DEF Over, Idle, Alone, Active
<1>4. Ended' = Ended \cup {c} /\ Completed' = Completed /\ Fresh' = Fresh /\ Copies' = Copies
  BY <1>2, <1>3 DEF Ended, Completed, Fresh, Copies
<1>5. \A ms \in Fresh : \A i \in Points(ms) : ms[i].id # c
  <2>1. c \notin Begun /\ c \notin Plain
    BY <1>2, SurfaceConstants DEF Begun, Plain
  <2>2. \A ms \in Fresh : Listed(ms, sent, Begun)
    BY <1>1, CopiesListed
  <2> QED
    BY <2>1, <2>2 DEF Listed, Points
<1>6. ListsSound'
  <2>1. Chained' /\ live' \in Fresh
    BY <1>1, <1>2 DEF Orderly, ListsSound, Chained, Fresh
  <2> QED
    BY <1>1, <1>2, <1>4, <1>5, <2>1, SameRelabels, ListsGrow DEF Orderly
<1>7. SurfacesSound'
  <2>1. \A u \in surfaces' \cup {cache', save'.got, turn'.got} : Sane(u)
    BY <1>1, <1>2 DEF Orderly, SurfacesSound
  <2>2. \A d \in Checkpoints : comp'[d].pc \notin {"read", "returned", "verified"}
    BY <1>3 DEF Active
  <2>3. turn'.pc \in {"idle", "waiting", "loaded", "running"}
    BY <1>1, <1>2 DEF Orderly, SurfacesSound
  <2> QED
    BY <1>1, <1>2, <1>4, <2>1, <2>2, <2>3, SameRelabels, SurfacesGrow DEF Orderly
<1>8. \A d \in Checkpoints : d # c => Fate(d)' /\ InHand(d)'
  BY <1>2, <1>3, Quiet
<1>9. Fate(c)' /\ InHand(c)'
  BY <1>3, CallQuiet
<1> QED
  BY <1>1, <1>2, <1>6, <1>7, <1>8, <1>9 DEF Orderly

(* A checkpoint enters the messages behind all others.                     *)
LEMMA InsertOrderly ==
  ASSUME Known, NEW c \in Checkpoints, NEW gen \in Nat, NEW k \in 0 .. Len(live),
         LatestCheckpoint(live) <= k, Insert(c, gen, k),
         comp[c].pc \in {"idle", "planned"}, \A d \in Checkpoints : d # c => ~Active(d),
         gen # Unset => \A t \in surfaces : t.gen < gen,
         UNCHANGED <<archive, surfaces, rows, cache, save>>, turn'.pc = turn.pc, turn'.got = turn.got
  PROVE  Orderly'
<1>1. /\ Orderly /\ TypeInv /\ Alone /\ DOMAIN comp = Checkpoints /\ (~Steady => ~Steady')
      /\ live \in Seq(Message) /\ Listed(live, sent, Begun) /\ queue \in Seq(Seq(Message))
      /\ (save.pc # "idle" => queue # <<>>)
  BY DEF Known, IInv, CallsShaped, TypeInv, ListsTyped, Listed, Alone
<1>2. /\ live' = InsertCheckpoint(live, c, gen, k) /\ Enqueue(live') /\ c \in inFlight'
      /\ comp' = [comp EXCEPT ![c] = [Idle EXCEPT !.pc = "waiting", !.msgs = live', !.gen = gen,
                                                 !.ahead = Len(queue')]]
  BY DEF Insert
<1>3. /\ comp'[c].pc = "waiting" /\ comp'[c].msgs = live'
      /\ \A d \in Checkpoints : d # c => comp'[d] = comp[d]
  BY <1>1, <1>2 DEF Idle
<1>4. Ended' = Ended /\ Completed' = Completed /\ c \notin Ended /\ c \notin Completed
  BY <1>1, <1>3 DEF Ended, Completed, Orderly, Fate
<1>5. /\ Points(live') = Points(live) \cup {k + 1}
      /\ \A i \in Points(live) : i <= k /\ live'[i] = live[i]
      /\ IdSet(live) \subseteq IdSet(live')
      /\ live'[k + 1].id = c /\ live'[k + 1].cid = c /\ live'[k + 1].gen = gen
  <2>1. Inserted(live, live', c, gen, k)
    BY <1>1, <1>2, InsertedIs
  <2>2. live'[k + 1].id = c /\ live'[k + 1].cid = c /\ live'[k + 1].gen = gen
    BY <2>1 DEF Inserted
  <2> QED
    BY <1>1, <1>2, <2>2, InsertPoints
<1>6. k \in Nat /\ \A i \in Points(live) : i \in Nat /\ i # k + 1 /\ i <= k + 1
  <2>1. k \in Nat
    BY <1>1
  <2>2. \A i \in Points(live) : i \in Nat
    BY DEF Points
  <2> QED
    BY <1>5, <2>1, <2>2
<1>7. \A i \in Points(live) : live[i].id \in Completed \cup Ended
  <2> SUFFICES ASSUME NEW i \in Points(live), live[i].id \notin Ended PROVE FALSE
    OBVIOUS
  <2>1. live[i].id \in Begun /\ live[i].id \in Checkpoints
    <3>1. Plain \cap Checkpoints = {}
      BY SurfaceConstants DEF Plain
    <3> QED
      BY <1>1, <3>1 DEF Listed, Points
  <2> QED
    BY <2>1 DEF Begun, Ended, Active
<1>8. /\ Chained' /\ Fresh' \subseteq Fresh \cup {live'}
      /\ queue' # <<>> /\ queue'[Len(queue')] = live'
      /\ queue # <<>> => Head(queue') = Head(queue)
  BY <1>1, <1>2, <1>5, QueueGrows DEF Orderly, ListsSound
<1>9. live \in Fresh /\ live \in Copies /\ \A ms \in Copies' : ms \in Copies \/ ms = live'
  BY <1>8 DEF Fresh, Copies
<1>10. Kept(live, Completed, Ended, ~Steady) /\ Headed(live, Completed, surfaces)
  BY <1>1, <1>9 DEF Orderly, ListsSound
<1>11. Kept(live', Completed, Ended', ~Steady')
  <2>1. \A i \in Points(live') : live'[i].id \notin Completed \cup Ended => i = k + 1
    BY <1>5, <1>7
  <2>2. \A i \in Points(live') : live'[i].id \in Ended \ Completed => i \in Points(live) /\ live'[i] = live[i]
    BY <1>4, <1>5
  <2>3. \A i \in Points(live') : i <= k + 1
    BY <1>5, <1>6
  <2> QED
    BY <1>1, <1>4, <1>10, <2>1, <2>2, <2>3 DEF Kept
<1>12. Headed(live', Completed, surfaces')
  <2>1. \A i \in Points(live) : LastDone(live', i, Completed) <=> LastDone(live, i, Completed)
    BY <1>4, <1>5 DEF LastDone
  <2>2. \A i \in Points(live') : live'[i].cid = live'[i].id
    BY <1>5, <1>10 DEF Headed
  <2>3. ASSUME NEW t \in surfaces, t.cid # NoCompaction, \A u \in surfaces : u.gen <= t.gen
        PROVE  \E i \in Points(live') : live'[i].id = t.cid /\ LastDone(live', i, Completed)
    <3>1. PICK i \in Points(live) : live[i].id = t.cid /\ LastDone(live, i, Completed)
      BY <1>10, <2>3 DEF Headed
    <3> QED
      BY <1>5, <2>1, <3>1
  <2>4. ASSUME NEW i \in Points(live'), live'[i].id \notin Completed, live'[i].gen # Unset, LastDone(live', i, Completed)
        PROVE  \A t \in surfaces : t.gen < live'[i].gen
    <3>1. CASE i = k + 1
      BY <1>5, <2>4, <3>1
    <3>2. CASE i \in Points(live)
      BY <1>5, <1>10, <2>1, <2>4, <3>2 DEF Headed
    <3> QED
      BY <1>5, <3>1, <3>2
  <2> QED
    BY <2>2, <2>3, <2>4 DEF Headed
<1>13. ListsSound'
  BY <1>1, <1>4, <1>8, <1>11, <1>12, SameRelabels, ListsGrow DEF Orderly
<1>14. SurfacesSound'
  <2>1. \A s \in surfaces' \cup {cache', save'.got, turn'.got} : Sane(s)
    BY <1>1 DEF Orderly, SurfacesSound
  <2>2. \A d \in Checkpoints : comp'[d].pc \notin {"read", "returned", "verified"}
    BY <1>3 DEF Active
  <2>3. turn'.pc \in {"idle", "waiting", "loaded", "running"}
    BY <1>1 DEF Orderly, SurfacesSound
  <2>4. \A ms \in Copies' : ms \in Copies \/ \E l \in Copies : IdSet(l) \subseteq IdSet(ms)
    BY <1>5, <1>9
  <2> QED
    BY <1>1, <1>4, <2>1, <2>2, <2>3, <2>4, SameRelabels, SurfacesGrow DEF Orderly
<1>15. Fate(c)' /\ InHand(c)'
  <2>1. \E i \in Points(live') : live'[i].id = c /\ \A j \in Points(live') : j <= i
    BY <1>5, <1>6
  <2> QED
    BY <1>2, <1>3, <1>4, <1>8, <2>1 DEF Fate, InHand, Pending
<1>16. \A d \in Checkpoints : d # c => Fate(d)' /\ InHand(d)'
  BY <1>3, Quiet
<1> QED
  BY <1>1, <1>8, <1>13, <1>14, <1>15, <1>16 DEF Orderly

LEMMA OtherOrderly ==
  ASSUME Known, Counted, Once,
         \/ AddMessage \/ SendMessage \/ TurnEnds \/ Reset \/ Restart
         \/ \E c \in Checkpoints : Plan(c) \/ AbandonPlan(c) \/ InsertPlanned(c) \/ InsertMidLoop(c)
                                   \/ CommitTimesOut(c)
  PROVE  Orderly'
<1>1. /\ Alone /\ Serial' /\ Smooth' /\ TypeInv /\ live \in Seq(Message)
      /\ {"pc", "got"} \subseteq DOMAIN turn /\ Orderly
  BY DEF Known, Sound, IInv, TypeInv, ListsTyped, Listed
<1>2. CASE AddMessage
  <2>1. /\ UNCHANGED <<archive, surfaces, rows, cache, save, comp, turn>> /\ turn.pc = "running" /\ Asked = {}
        /\ live' = Append(live, NewMessage) /\ sent < MaxMsgs
        /\ Enqueue(live') \/ UNCHANGED queue
    BY <1>2 DEF AddMessage, db
  <2> QED
    BY <1>1, <2>1, NobodyActive, TurnOrderly
<1>3. CASE SendMessage
  <2>1. /\ UNCHANGED <<archive, surfaces, rows, cache, save, comp>> /\ turn.pc = "idle"
        /\ live' = Append(live, NewMessage) /\ sent < MaxMsgs /\ Enqueue(live')
        /\ turn' = [Idle EXCEPT !.pc = "waiting", !.ahead = Len(queue')]
    BY <1>3 DEF SendMessage, db
  <2>2. turn'.pc = "waiting" /\ turn'.got = NoSurface
    BY <2>1 DEF Idle
  <2>3. Planned = {}
    BY <1>1, <1>3, NoDisturbance DEF SendMessage, Overlaps
  <2> QED
    BY <1>1, <2>1, <2>2, <2>3, NobodyActive, TurnOrderly
<1>4. CASE TurnEnds
  <2>1. Asked = {}
    BY <1>1, <1>4, NoDisturbance DEF TurnEnds, Overlaps
  <2>2. /\ UNCHANGED <<archive, surfaces, rows, live, cache, save, comp>> /\ turn.pc = "running"
        /\ turn' = Idle /\ Enqueue(live)
    BY <1>4 DEF TurnEnds, db
  <2>3. turn'.pc = "idle" /\ turn'.got = NoSurface /\ live' = live /\ Enqueue(live')
    BY <2>2 DEF Idle, Enqueue
  <2> QED
    BY <1>1, <2>1, <2>2, <2>3, NobodyActive, TurnOrderly
<1>5. CASE Reset
  BY <1>1, <1>5, NoDisturbance DEF Reset
<1>6. CASE Restart
  BY <1>6, RestartOrderly
<1>7. ASSUME NEW c \in Checkpoints, InsertPlanned(c) PROVE Orderly'
  <2>1. /\ comp[c].pc = "planned" /\ UNCHANGED <<archive, surfaces, rows, cache, save, turn>>
    BY <1>7 DEF InsertPlanned, db
  <2>2. comp[c].msgs = live /\ (\A t \in surfaces : t.gen < comp[c].gen) /\ comp[c].gen \in Nat
    BY <1>1, <2>1 DEF Orderly, InHand, TypeInv, CallTyped
  <2>3. PICK k \in LatestCheckpoint(live) + 1 .. Len(live) : Insert(c, comp[c].gen, k)
    BY <1>7, <2>2 DEF InsertPlanned
  <2>4. LatestCheckpoint(live) \in Nat
    BY <1>1, LatestIs
  <2>5. k \in 0 .. Len(live) /\ LatestCheckpoint(live) <= k
    BY <2>4
  <2>6. \A d \in Checkpoints : d # c => ~Active(d)
    BY <1>1, <2>1 DEF Alone, Active
  <2> QED
    BY <2>1, <2>2, <2>3, <2>5, <2>6, InsertOrderly
<1>8. ASSUME NEW c \in Checkpoints, InsertMidLoop(c) PROVE Orderly'
  <2>1. /\ comp[c].pc = "idle" /\ turn.pc = "running" /\ Asked = {}
        /\ UNCHANGED <<archive, surfaces, rows, cache, save>> /\ turn' = [turn EXCEPT !.cut = c]
    BY <1>8 DEF InsertMidLoop, db
  <2>2. PICK k \in DOMAIN live : Insert(c, Unset, k) /\ (k < LatestCheckpoint(live) => Happens("precedes"))
    BY <1>8 DEF InsertMidLoop
  <2>3. ~(k < LatestCheckpoint(live))
    BY <1>1, <2>2, NoHitch
  <2>4. LatestCheckpoint(live) \in Nat /\ Unset \in Nat /\ DOMAIN live = 1 .. Len(live) /\ Len(live) \in Nat
    BY <1>1, LatestIs DEF Unset
  <2>5. k \in 0 .. Len(live) /\ LatestCheckpoint(live) <= k
    BY <2>3, <2>4
  <2>6. \A d \in Checkpoints : ~Active(d)
    BY <1>1, <2>1, NobodyActive
  <2>7. turn'.pc = turn.pc /\ turn'.got = turn.got
    BY <1>1, <2>1
  <2> QED
    BY <2>1, <2>2, <2>4, <2>5, <2>6, <2>7, InsertOrderly
<1>9. ASSUME NEW c \in Checkpoints, CommitTimesOut(c) PROVE Orderly'
  BY <1>1, <1>9, NoDisturbance DEF CommitTimesOut, Overlaps
<1> QED
  BY <1>2, <1>3, <1>4, <1>5, <1>6, <1>7, <1>8, <1>9, PlanOrderly, AbandonOrderly

LEMMA OrphanInvInit == Init => OrphanInv
<1> SUFFICES ASSUME Init PROVE Orderly
  BY DEF OrphanInv
<1>1. /\ archive = <<>> /\ live = <<>> /\ queue = <<>> /\ surfaces = {} /\ cache = Forgotten
      /\ save.pc = "idle" /\ save.got = NoSurface /\ turn.pc = "idle" /\ turn.got = NoSurface
      /\ \A c \in Checkpoints : comp[c].pc = "idle" /\ rows[c] = "none"
  BY DEF Init, Idle
<1>2. 1 .. Len(<<>>) = {}
  OBVIOUS
<1>3. Points(<<>>) = {} /\ 1 .. Len(queue) = {}
  BY <1>1, <1>2 DEF Points
<1>4. Copies = {<<>>} /\ Fresh = {<<>>} /\ Completed = {}
  BY <1>1, <1>3 DEF Copies, Fresh, Completed
<1>5. ListsSound
  BY <1>1, <1>3, <1>4 DEF ListsSound, Kept, Headed, OneStored, Chained
<1>6. SurfacesSound
  <2>1. Sane(NoSurface) /\ Sane(Forgotten)
    BY TypeInit, NothingSane
  <2> QED
    BY <1>1, <2>1 DEF SurfacesSound
<1>7. \A c \in Checkpoints : Fate(c) /\ InHand(c)
  BY <1>1, <1>4 DEF Fate, InHand, Pending
<1> QED
  BY <1>1, <1>5, <1>6, <1>7 DEF Orderly

LEMMA OrphanInvNext ==
  IInv /\ CacheInv /\ TypeInv /\ Counted /\ OrphanInv /\ [Next]_vars => OrphanInv'
<1> SUFFICES ASSUME IInv, CacheInv, TypeInv, Counted, OrphanInv, [Next]_vars, Sound' PROVE Orderly'
  BY DEF OrphanInv
<1>1. Sound /\ Once /\ (~Steady => ~Steady')
  BY StillSound DEF Sound
<1>2. ~Replied => ~Replied'
  BY Undisturbed DEF Replied
<1>3. Known
  BY <1>1, <1>2 DEF Known, Sound, CacheInv, OrphanInv
<1>4. CASE Next
  <2>1. ASSUME NEW c \in Checkpoints, CommitStep(c) PROVE Orderly'
    <3>1. live' \in Seq(Message)
      BY TypeNext DEF TypeInv, ListsTyped, Listed
    <3> QED
      BY <1>3, <2>1, <3>1, CallOrderly, TransactionOrderly, ReturnedOrderly, RollBackOrderly DEF CommitStep
  <2> QED
    BY <1>1, <1>3, <1>4, <2>1, SaveOrderly, HydrateOrderly, OtherOrderly DEF Next
<1>5. CASE UNCHANGED vars
  <2>1. /\ Fresh' = Fresh /\ Copies' = Copies /\ Completed' = Completed /\ Ended' = Ended
        /\ Steady' = Steady /\ Replied' = Replied
    BY <1>5 DEF vars, Fresh, Copies, Completed, Ended, Steady, Replied, Calm
  <2>2. ListsSound'
    BY <1>3, <1>5, <2>1 DEF vars, Known, Orderly, ListsSound, OneStored, Chained
  <2>3. \A s : Sane(s) => SaneIn(s, surfaces', Completed', Ended', Copies')
    BY <1>5, <2>1 DEF vars, Sane
  <2>4. SurfacesSound'
    BY <1>3, <1>5, <2>3 DEF vars, Known, Orderly, SurfacesSound, Sane
  <2>5. \A c \in Checkpoints : Fate(c)' /\ InHand(c)'
    BY <1>3, <1>5, <2>1 DEF vars, Known, Orderly, Fate, InHand, Pending
  <2> QED
    BY <1>3, <1>5, <2>2, <2>4, <2>5 DEF vars, Known, Orderly
<1> QED
  BY <1>4, <1>5

(* No generation that a compaction made takes in the checkpoint of one     *)
(* that was not committed: AdoptedCommitted, on its conditions.            *)
THEOREM AdoptedCommittedHolds == Spec => []AdoptedCommitted
<1>1. OrphanInv => AdoptedCommitted
  <2> SUFFICES ASSUME Orderly PROVE OrphansExcluded
    <3>1. /\ Calm(Overlaps \cup {"reset", "archive refused", "precedes"}) /\ Learned /\ AtMostOnce("restart")
             => Sound
      BY DEF Sound, Serial, Smooth, Once, Calm
    <3> QED
      BY <3>1 DEF OrphanInv, AdoptedCommitted
  <2>1. ASSUME NEW s \in surfaces, s.cid # NoCompaction, NEW c \in RangeOf(s.nodes) \cap Checkpoints
        PROVE  rows[c] = "completed"
    <3>1. Clean(s, Completed, Ended)
      BY <2>1 DEF Orderly, SurfacesSound, Sane, SaneIn
    <3> QED
      BY <2>1, <3>1 DEF Clean, Completed
  <2> QED
    BY <2>1 DEF OrphansExcluded
<1> QED
  BY <1>1, IInvInit, IInvNext, CacheInvInit, CacheInvNext, TypeInit, TypeNext, CountedInit, CountedNext,
     OrphanInvInit, OrphanInvNext, PTL DEF Spec


-----------------------------------------------------------------------------
(* A turn is given everything said before it, in its own words or in a     *)
(* checkpoint.                                                             *)

(* A checkpoint stands for what is before it in a list, and for nothing    *)
(* behind it.                                                              *)
Stands(ms, cov) ==
  \A i, j \in 1 .. Len(ms) : ms[i].id \in Checkpoints /\ ms[j].id \in Plain =>
    (ms[j].id \in cov[ms[i].id] <=> j < i)

StandInv ==
  /\ DOMAIN covers = Checkpoints
  /\ \A c \in Checkpoints : \A m \in covers[c] : m \in Plain /\ m <= sent
  /\ Stands(live, covers) /\ Stands(archive, covers)
  /\ \A n \in 1 .. Len(queue) : Stands(queue[n], covers)

LEMMA AppendStands ==
  ASSUME NEW ms, NEW n \in Nat, NEW b, Listed(ms, n, b), NEW cov, Stands(ms, cov),
         \A c \in Checkpoints : \A x \in cov[c] : x \in Plain /\ x <= n,
         NEW m \in Message, m.id = n + 1
  PROVE  Stands(Append(ms, m), cov)
<1>1. ms \in Seq(Message) /\ Len(ms) \in Nat
  BY DEF Listed
<1>2. /\ Append(ms, m)[Len(ms) + 1] = m /\ Len(Append(ms, m)) = Len(ms) + 1
      /\ \A i \in 1 .. Len(ms) : Append(ms, m)[i] = ms[i]
      /\ \A i \in 1 .. Len(ms) + 1 : i \in 1 .. Len(ms) \/ i = Len(ms) + 1
  BY <1>1
<1>3. m.id \notin Checkpoints /\ \A c \in Checkpoints : m.id \notin cov[c]
  BY SurfaceConstants DEF Plain
<1> DEFINE new == Append(ms, m)
<1> HIDE DEF new, Message
<1> SUFFICES ASSUME NEW i \in 1 .. Len(ms) + 1, NEW j \in 1 .. Len(ms) + 1,
                    new[i].id \in Checkpoints, new[j].id \in Plain
             PROVE  new[j].id \in cov[new[i].id] <=> j < i
  BY <1>2 DEF Stands, new
<1>4. i \in 1 .. Len(ms) /\ new[i] = ms[i]
  BY <1>2, <1>3 DEF new
<1>5. CASE j \in 1 .. Len(ms)
  <2>1. new[j] = ms[j]
    BY <1>2, <1>5 DEF new
  <2> QED
    BY <1>4, <1>5, <2>1 DEF Stands
<1>6. CASE j = Len(ms) + 1
  <2>1. ~(j < i)
    BY <1>1, <1>4, <1>6
  <2> QED
    BY <1>2, <1>3, <1>6, <2>1 DEF new
<1> QED
  BY <1>2, <1>5, <1>6

LEMMA PrefixStands ==
  ASSUME NEW ms \in Seq(Message), NEW cov, Stands(ms, cov), NEW k \in 0 .. Len(ms)
  PROVE  Stands(SubSeq(ms, 1, k), cov)
<1>1. Len(ms) \in Nat /\ k \in Nat /\ \A i \in 1 .. k : i \in 1 .. Len(ms) /\ ms[i] \in Message
  OBVIOUS
<1>2. Len(SubSeq(ms, 1, k)) = k /\ \A i \in 1 .. k : SubSeq(ms, 1, k)[i] = ms[i]
  BY <1>1, SubSeqProperties
<1> QED
  BY <1>1, <1>2 DEF Stands

LEMMA DropStands ==
  ASSUME NEW ms, NEW n, NEW b, Listed(ms, n, b), NEW cov, Stands(ms, cov), NEW id
  PROVE  Stands(Without(ms, id), cov)
<1>1. ms \in Seq(Message) /\ Len(ms) \in Nat /\ DOMAIN ms = 1 .. Len(ms)
  BY DEF Listed
<1>2. CASE id \notin IdSet(ms)
  BY <1>2 DEF Without
<1>3. CASE id \in IdSet(ms)
  <2>1. PICK k \in 1 .. Len(ms) : ms[k].id = id
    BY <1>1, <1>3 DEF IdSet
  <2>2. \A i \in 1 .. Len(ms) : ms[i].id = ms[k].id => i = k
    BY DEF Listed
  <2> DEFINE new == Without(ms, id)
             old(i) == IF i < k THEN i ELSE i + 1
  <2>3. Len(new) = Len(ms) - 1 /\ \A i \in 1 .. Len(ms) - 1 : new[i] = ms[old(i)]
    BY <1>1, <2>1, <2>2, DroppedIs
  <2> HIDE DEF new
  <2>4. \A i \in 1 .. Len(ms) - 1 : old(i) \in 1 .. Len(ms)
    BY <1>1
  <2>5. \A i, j \in 1 .. Len(ms) - 1 : old(j) < old(i) <=> j < i
    BY <1>1
  <2> HIDE DEF old
  <2> QED
    BY <2>3, <2>4, <2>5 DEF Stands, new
<1> QED
  BY <1>2, <1>3

LEMMA RenamedStands ==
  ASSUME NEW ms, NEW cov, Stands(ms, cov), NEW new, Len(new) = Len(ms),
         \A i \in 1 .. Len(ms) : new[i].id = ms[i].id
  PROVE  Stands(new, cov)
BY DEF Stands

(* What a checkpoint stands for is settled when it is inserted.            *)
LEMMA UnnamedStands ==
  ASSUME NEW ms, NEW n, NEW b, Listed(ms, n, b), NEW cov, Stands(ms, cov),
         NEW c \in Checkpoints, c \notin b, NEW cov2, \A d \in Checkpoints : d # c => cov2[d] = cov[d]
  PROVE  Stands(ms, cov2)
<1>1. c \notin Plain
  BY SurfaceConstants DEF Plain
<1> QED
  BY <1>1 DEF Listed, Stands

LEMMA InsertStands ==
  ASSUME NEW ms, NEW n, NEW b, Listed(ms, n, b), NEW cov, Stands(ms, cov),
         NEW c \in Checkpoints, c \notin b, NEW cov2, \A d \in Checkpoints : d # c => cov2[d] = cov[d],
         NEW gen \in Nat, NEW k \in 0 .. Len(ms), NEW ids, ids = IdSet(SubSeq(ms, 1, k)),
         \A m : m \in cov2[c] <=> m \in ids \cap Plain \/ \E d \in ids \cap Checkpoints : m \in cov[d]
  PROVE  Stands(InsertCheckpoint(ms, c, gen, k), cov2)
<1> DEFINE new == InsertCheckpoint(ms, c, gen, k)
           old(i) == IF i <= k THEN i ELSE i - 1
<1>1. ms \in Seq(Message) /\ Len(ms) \in Nat /\ k \in Nat /\ k <= Len(ms)
  BY DEF Listed
<1>i. Inserted(ms, new, c, gen, k)
  BY <1>1, InsertedIs
<1> HIDE DEF new, Message
<1>3. /\ Len(new) = Len(ms) + 1 /\ new[k + 1].id = c
      /\ \A i \in 1 .. Len(ms) + 1 : i # k + 1 => old(i) \in 1 .. Len(ms) /\ new[i] = ms[old(i)]
  BY <1>1, <1>i DEF Inserted
<1>4. \A i, j \in 1 .. Len(ms) + 1 : i # k + 1 /\ j # k + 1 => (old(j) < old(i) <=> j < i)
  BY <1>1
<1>5. \A j \in 1 .. Len(ms) + 1 : j # k + 1 => (old(j) <= k <=> j < k + 1)
  BY <1>1
<1> HIDE DEF old
<1>6. ids = {ms[i].id : i \in 1 .. k}
  <2>1. \A i \in 1 .. k : i \in 1 .. Len(ms) /\ ms[i] \in Message
    BY <1>1
  <2>2. SubSeq(ms, 1, k) \in Seq(Message) /\ Len(SubSeq(ms, 1, k)) = k /\ \A i \in 1 .. k : SubSeq(ms, 1, k)[i] = ms[i]
    BY <1>1, <2>1, SubSeqProperties
  <2>3. DOMAIN SubSeq(ms, 1, k) = 1 .. k
    BY <2>2
  <2> DEFINE front == SubSeq(ms, 1, k)
  <2> HIDE DEF front
  <2>4. IdSet(front) = {front[i].id : i \in 1 .. k}
    BY <2>3 DEF IdSet, front
  <2>5. \A i \in 1 .. k : front[i].id = ms[i].id
    BY <2>2 DEF front
  <2> QED
    BY <2>4, <2>5 DEF front
<1>7. c \notin Plain /\ \A i \in 1 .. Len(ms) : ms[i].id # c
  BY SurfaceConstants DEF Plain, Listed
<1>8. ASSUME NEW j \in 1 .. Len(ms), ms[j].id \in Plain PROVE ms[j].id \in cov2[c] <=> j <= k
  <2>1. CASE j <= k
    <3>1. j \in 1 .. k
      BY <1>1, <2>1
    <3> QED
      BY <1>6, <1>8, <2>1, <3>1
  <2>2. CASE ~(j <= k)
    <3>1. \A i \in 1 .. k : i \in 1 .. Len(ms) /\ i # j /\ ~(j < i)
      BY <1>1, <2>2
    <3>2. ms[j].id \notin ids
      BY <1>6, <3>1 DEF Listed
    <3>3. \A d \in ids \cap Checkpoints : ms[j].id \notin cov[d]
      BY <1>6, <1>8, <3>1 DEF Stands
    <3> QED
      BY <2>2, <3>2, <3>3
  <2> QED
    BY <2>1, <2>2
<1> SUFFICES ASSUME NEW i \in 1 .. Len(ms) + 1, NEW j \in 1 .. Len(ms) + 1,
                    new[i].id \in Checkpoints, new[j].id \in Plain
             PROVE  new[j].id \in cov2[new[i].id] <=> j < i
  BY <1>3 DEF Stands, new
<1>9. j # k + 1 /\ old(j) \in 1 .. Len(ms) /\ new[j] = ms[old(j)]
  BY <1>3, <1>7
<1>10. CASE i = k + 1
  <2>1. new[j].id \in cov2[c] <=> old(j) <= k
    BY <1>8, <1>9
  <2> QED
    BY <1>3, <1>5, <1>9, <1>10, <2>1
<1>11. CASE i # k + 1
  <2>1. old(i) \in 1 .. Len(ms) /\ new[i] = ms[old(i)] /\ new[i].id # c
    BY <1>3, <1>7, <1>11
  <2>2. cov2[new[i].id] = cov[new[i].id]
    BY <2>1
  <2>3. new[j].id \in cov[new[i].id] <=> old(j) < old(i)
    BY <1>9, <2>1 DEF Stands
  <2> QED
    BY <1>4, <1>9, <1>11, <2>2, <2>3
<1> QED
  BY <1>10, <1>11


(* The lists of a step that inserts no checkpoint.                         *)
LEMMA StandStays ==
  ASSUME TypeInv, StandInv, covers' = covers, sent' \in Nat, sent <= sent',
         Stands(live', covers), archive' = archive \/ Stands(archive', covers),
         queue' = queue \/ (queue # <<>> /\ queue' = Tail(queue)) \/ queue' = <<>> \/ Enqueue(live')
  PROVE  StandInv'
<1>1. queue \in Seq(Seq(Message)) /\ Len(queue) \in Nat /\ sent \in Nat
  BY DEF TypeInv, ListsTyped
<1>2. \A n \in 1 .. Len(queue') : Stands(queue'[n], covers)
  <2>1. CASE queue' = queue \/ queue' = <<>>
    BY <2>1 DEF StandInv
  <2>2. CASE queue # <<>> /\ queue' = Tail(queue)
    <3>1. \A n \in 1 .. Len(queue') : n + 1 \in 1 .. Len(queue) /\ queue'[n] = queue[n + 1]
      BY <1>1, <2>2
    <3> QED
      BY <3>1 DEF StandInv
  <2>3. CASE Enqueue(live')
    <3>1. queue' = Append(queue, live')
      BY <2>3 DEF Enqueue
    <3>2. \A n \in 1 .. Len(queue') : (n \in 1 .. Len(queue) /\ queue'[n] = queue[n]) \/ queue'[n] = live'
      BY <1>1, <3>1
    <3> QED
      BY <3>2 DEF StandInv
  <2> QED
    BY <2>1, <2>2, <2>3
<1>3. \A c \in Checkpoints : \A m \in covers[c] : m \in Plain /\ m <= sent'
  <2>1. \A m \in Plain : m \in Int
    BY DEF Plain
  <2> QED
    BY <1>1, <2>1 DEF StandInv
<1> QED
  BY <1>2, <1>3 DEF StandInv

LEMMA StandInit == Init => StandInv
BY DEF Init, StandInv, Stands

LEMMA InsertStand ==
  ASSUME TypeInv, StandInv, NEW c \in Checkpoints, comp[c].pc \in {"idle", "planned"}, NEW gen \in Nat,
         NEW k \in 0 .. Len(live), Insert(c, gen, k), UNCHANGED <<archive, sent>>
  PROVE  StandInv'
<1>1. c \notin Begun /\ queue \in Seq(Seq(Message)) /\ Len(queue) \in Nat /\ sent \in Nat
  BY DEF Begun, TypeInv, ListsTyped
<1> DEFINE ids == IdSet(SubSeq(live, 1, k))
<1>2. /\ live' = InsertCheckpoint(live, c, gen, k) /\ queue' = Append(queue, live')
      /\ covers' = [covers EXCEPT ![c] = (ids \cap Plain) \cup UNION {covers[d] : d \in ids \cap Checkpoints}]
  BY DEF Insert, Enqueue, Covered
<1>3. /\ DOMAIN covers' = Checkpoints
      /\ covers'[c] = (ids \cap Plain) \cup UNION {covers[d] : d \in ids \cap Checkpoints}
      /\ \A d \in Checkpoints : d # c => covers'[d] = covers[d]
  BY <1>2 DEF StandInv
<1>4. Stands(live', covers')
  <2>1. Listed(live, sent, Begun) /\ Stands(live, covers) /\ ids = IdSet(SubSeq(live, 1, k))
    BY DEF StandInv, TypeInv, ListsTyped
  <2>0. \A m : m \in covers'[c] <=> m \in ids \cap Plain \/ \E d \in ids \cap Checkpoints : m \in covers[d]
    BY <1>3
  <2> HIDE DEF ids
  <2>a. \A d \in Checkpoints : d # c => covers'[d] = covers[d]
    BY <1>3
  <2>b. c \notin Begun /\ c \in Checkpoints /\ gen \in Nat /\ k \in 0 .. Len(live)
    BY <1>1
  <2>2. Stands(InsertCheckpoint(live, c, gen, k), covers')
    BY <2>a, <2>b, <2>0, <2>1, InsertStands, SMTT(60)
  <2> QED
    BY <1>2, <2>2
<1>5. \A ms : Listed(ms, sent, Begun) /\ Stands(ms, covers) => Stands(ms, covers')
  BY <1>1, <1>3, UnnamedStands
<1>6. Stands(archive', covers') /\ \A n \in 1 .. Len(queue) : Stands(queue[n], covers')
  BY <1>5 DEF StandInv, TypeInv, ListsTyped
<1>7. \A n \in 1 .. Len(queue') : (n \in 1 .. Len(queue) /\ queue'[n] = queue[n]) \/ queue'[n] = live'
  BY <1>1, <1>2
<1>8. \A m \in ids \cap Plain : m <= sent
  <2>1. live \in Seq(Message) /\ Len(live) \in Nat /\ k \in Nat /\ k <= Len(live)
    BY DEF TypeInv, ListsTyped, Listed
  <2>2. \A i \in 1 .. k : i \in 1 .. Len(live) /\ live[i] \in Message
    BY <2>1
  <2>3. SubSeq(live, 1, k) \in Seq(Message) /\ Len(SubSeq(live, 1, k)) = k /\ \A i \in 1 .. k : SubSeq(live, 1, k)[i] = live[i]
    BY <2>1, <2>2, SubSeqProperties
  <2>4. DOMAIN SubSeq(live, 1, k) = 1 .. k
    BY <2>3
  <2>5. ids = {live[i].id : i \in 1 .. k}
    BY <2>3, <2>4 DEF IdSet
  <2>6. \A d \in Begun : d \notin Plain
    BY SurfaceConstants DEF Begun, Plain
  <2>7. \A i \in 1 .. Len(live) : live[i].id \in Begun \/ live[i].id <= sent
    BY DEF TypeInv, ListsTyped, Listed
  <2> HIDE DEF ids
  <2> QED
    BY <2>2, <2>5, <2>6, <2>7
<1> HIDE DEF ids
<1>9. \A d \in Checkpoints : \A m \in covers'[d] : m \in Plain /\ m <= sent'
  BY <1>3, <1>8 DEF StandInv
<1> QED
  BY <1>3, <1>4, <1>6, <1>7, <1>9 DEF StandInv

(* What the steps do to the lists: one inserts a checkpoint, one adds a    *)
(* message, and the others take away or rename.                            *)
LEMMA StandNext == IInv /\ TypeInv /\ StandInv /\ [Next]_vars => StandInv'
<1> USE DEF db
<1> SUFFICES ASSUME IInv, TypeInv, StandInv, [Next]_vars PROVE StandInv'
  OBVIOUS
<1>1. /\ Listed(live, sent, Begun) /\ live \in Seq(Message) /\ sent \in Nat /\ sent <= sent
      /\ DOMAIN live = 1 .. Len(live)
  BY DEF TypeInv, ListsTyped, Listed
<1>2. Stands(live, covers) /\ Stands(archive, covers)
  BY DEF StandInv
<1>3. CASE SaveStep
  <2>1. /\ UNCHANGED <<live, sent, covers>>
        /\ queue' = queue \/ (queue # <<>> /\ queue' = Tail(queue))
        /\ archive' = archive \/ (queue # <<>> /\ archive' = Head(queue))
    <3>1. CASE SaveArchive
      BY <3>1 DEF SaveArchive
    <3>2. save.pc # "idle" => queue # <<>>
      BY DEF TypeInv, SaveTyped
    <3>3. \A s : MaintainWith(s) => queue' = queue \/ queue' = Tail(queue)
      BY DEF MaintainWith, JobDone
    <3>4. CASE Maintain \/ MaintainLoaded \/ Maintained
      BY <3>2, <3>3, <3>4 DEF Maintain, MaintainLoaded, Maintained, JobDone
    <3> QED
      BY <1>3, <3>1, <3>4 DEF SaveStep
  <2>2. queue # <<>> => Stands(Head(queue), covers)
    <3>1. queue # <<>> => 1 \in 1 .. Len(queue) /\ Head(queue) = queue[1]
      BY DEF TypeInv, ListsTyped
    <3> QED
      BY <3>1 DEF StandInv
  <2> QED
    BY <1>1, <1>2, <2>1, <2>2, StandStays
<1>4. CASE HydrateStep
  <2>1. UNCHANGED <<archive, live, queue, sent, covers>>
    BY <1>4 DEF HydrateStep, Hydrate, HydrateLoaded, FallBackToParent, ParentIncomplete, TakeParent,
       DiscardAll, RebuildGenerationZero, TakeRebuilt
  <2> QED
    BY <1>1, <1>2, <2>1, StandStays
<1>5. CASE AddMessage \/ SendMessage
  <2>1. /\ live' = Append(live, NewMessage) /\ sent' = sent + 1
        /\ Enqueue(live') \/ queue' = queue
        /\ UNCHANGED <<archive, covers>> /\ sent < MaxMsgs
    BY <1>5 DEF AddMessage, SendMessage
  <2>2. NewMessage \in Message /\ NewMessage.id = sent + 1
    BY <1>1, <2>1, NewMessageIs DEF NewMessage
  <2>3. Stands(live', covers)
    BY <1>1, <1>2, <2>1, <2>2, AppendStands DEF StandInv
  <2>4. sent' \in Nat /\ sent <= sent'
    BY <1>1, <2>1
  <2> QED
    BY <2>1, <2>3, <2>4, StandStays
<1>6. ASSUME NEW c \in Checkpoints, CommitStep(c) PROVE StandInv'
  <2>1. CASE CommitReturned(c)
    <3>1. /\ UNCHANGED <<archive, queue, sent, covers>>
          /\ live' = [i \in DOMAIN live |->
                IF live[i].id = c THEN [id |-> c, cid |-> comp[c].got.cid, gen |-> comp[c].got.gen]
                                  ELSE live[i]]
      BY <2>1 DEF CommitReturned
    <3>2. /\ DOMAIN live' = 1 .. Len(live) /\ Len(live') = Len(live)
          /\ \A i \in 1 .. Len(live) : live'[i].id = live[i].id
      <4>1. DOMAIN live' = 1 .. Len(live) /\ \A i \in 1 .. Len(live) : live'[i].id = live[i].id
        BY <1>1, <3>1
      <4>2. Len(live) \in Nat
        BY <1>1
      <4>3. live' \in Seq({live'[i] : i \in 1 .. Len(live)})
        BY <1>1, <3>1, <4>1, <4>2
      <4> QED
        BY <4>1, <4>2, <4>3
    <3> QED
      BY <1>1, <1>2, <3>1, <3>2, RenamedStands, StandStays
  <2>2. CASE RollBack(c)
    <3>1. live' = Without(live, c) /\ Enqueue(live') /\ UNCHANGED <<archive, sent, covers>>
      BY <2>2 DEF RollBack, RolledBack
    <3> QED
      BY <1>1, <1>2, <3>1, DropStands, StandStays
  <2>3. CASE ReadSource(c) \/ CommitTransaction(c) \/ Verify(c) \/ TakeVerdict(c) \/ MarkFailed(c)
    <3>1. UNCHANGED <<archive, live, queue, sent, covers>>
      BY <2>3 DEF ReadSource, CommitTransaction, Verify, TakeVerdict, MarkFailed
    <3> QED
      BY <1>1, <1>2, <3>1, StandStays
  <2> QED
    BY <1>6, <2>1, <2>2, <2>3 DEF CommitStep
<1>7. ASSUME NEW c \in Checkpoints, InsertPlanned(c) \/ InsertMidLoop(c) PROVE StandInv'
  <2>0. comp[c].gen \in Nat /\ comp[c].msgs \in Seq(Message)
    BY DEF TypeInv, CallTyped
  <2>1. CASE InsertPlanned(c)
    <3>1. PICK k \in LatestCheckpoint(comp[c].msgs) + 1 .. Len(comp[c].msgs) :
            SafeInsert(comp[c].msgs, k) /\ Insert(c, comp[c].gen, k)
      BY <2>1 DEF InsertPlanned
    <3>2. k \in 0 .. Len(live)
      BY <1>1, <2>0, <3>1, LatestIs DEF SafeInsert
    <3>3. comp[c].pc = "planned" /\ UNCHANGED <<archive, sent>>
      BY <2>1 DEF InsertPlanned
    <3> QED
      BY <2>0, <3>1, <3>2, <3>3, InsertStand
  <2>2. CASE InsertMidLoop(c)
    <3>1. PICK k \in DOMAIN live : Insert(c, Unset, k)
      BY <2>2 DEF InsertMidLoop
    <3>2. k \in 0 .. Len(live) /\ Unset \in Nat
      BY <1>1, <3>1 DEF Unset
    <3>3. comp[c].pc = "idle" /\ UNCHANGED <<archive, sent>>
      BY <2>2 DEF InsertMidLoop
    <3> QED
      BY <3>1, <3>2, <3>3, InsertStand
  <2> QED
    BY <1>7, <2>1, <2>2
<1>8. ASSUME NEW c \in Checkpoints, Plan(c) \/ AbandonPlan(c) \/ CommitTimesOut(c) PROVE StandInv'
  <2>1. UNCHANGED <<archive, live, queue, sent, covers>>
    BY <1>8 DEF Plan, AbandonPlan, CommitTimesOut
  <2> QED
    BY <1>1, <1>2, <2>1, StandStays
<1>9. CASE TurnEnds
  <2>1. Enqueue(live') /\ UNCHANGED <<archive, live, sent, covers>>
    BY <1>9 DEF TurnEnds
  <2> QED
    BY <1>1, <1>2, <2>1, StandStays
<1>10. CASE Reset
  <2>1. PICK k \in 0 .. Len(live) - 1 : live' = SubSeq(live, 1, k)
    BY <1>10 DEF Reset
  <2>2. k \in 0 .. Len(live) /\ Enqueue(live') /\ UNCHANGED <<archive, sent, covers>>
    BY <1>1, <1>10, <2>1 DEF Reset
  <2>3. Stands(live', covers)
    BY <1>1, <1>2, <2>1, <2>2, PrefixStands
  <2> QED
    BY <1>1, <2>2, <2>3, StandStays
<1>11. CASE Restart
  <2>1. live' = archive /\ queue' = <<>> /\ UNCHANGED <<archive, sent, covers>>
    BY <1>11 DEF Restart
  <2> QED
    BY <1>1, <1>2, <2>1, StandStays
<1>12. CASE UNCHANGED vars
  BY <1>1, <1>2, <1>12, StandStays DEF vars
<1> QED
  BY <1>3, <1>4, <1>5, <1>6, <1>7, <1>8, <1>9, <1>10, <1>11, <1>12 DEF Next


(* Compactions that may be registered as in flight, and on whose behalf.   *)
Holding(c) == comp[c].pc \in {"waiting", "read", "returned", "rejected"}

Owned ==
  /\ \A x \in inFlight : \E c \in Checkpoints : Holding(c) /\ x \in {c, Requested(c)}
  /\ \A c \in Checkpoints : comp[c].pc = "returned" => comp[c].got.cid = Requested(c)

LEMMA OwnedStays ==
  ASSUME Owned, inFlight' \subseteq inFlight,
         \A c \in Checkpoints : /\ comp'[c].pc = comp[c].pc /\ comp'[c].msgs = comp[c].msgs
                                /\ comp'[c].got = comp[c].got
  PROVE  Owned'
BY DEF Owned, Holding, Requested

LEMMA OwnedCall ==
  ASSUME Owned, NEW c \in Checkpoints, \A d \in Checkpoints \ {c} : comp'[d] = comp[d],
         \A x \in inFlight' : \/ x \in inFlight /\ ~(Holding(c) /\ x \in {c, Requested(c)})
                              \/ Holding(c)' /\ x \in {c, Requested(c)'},
         comp'[c].pc = "returned" => comp'[c].got.cid = Requested(c)'
  PROVE  Owned'
<1>1. ASSUME NEW d \in Checkpoints \ {c} PROVE (Holding(d)' <=> Holding(d)) /\ Requested(d)' = Requested(d)
  BY DEF Holding, Requested
<1>2. ASSUME NEW x \in inFlight' PROVE \E d \in Checkpoints : Holding(d)' /\ x \in {d, Requested(d)'}
  <2>1. CASE x \in inFlight /\ ~(Holding(c) /\ x \in {c, Requested(c)})
    <3>1. PICK d \in Checkpoints : Holding(d) /\ x \in {d, Requested(d)}
      BY <2>1 DEF Owned
    <3> QED
      BY <1>1, <2>1, <3>1
  <2> QED
    BY <1>2, <2>1
<1>3. ASSUME NEW d \in Checkpoints, comp'[d].pc = "returned" PROVE comp'[d].got.cid = Requested(d)'
  BY <1>1, <1>3 DEF Owned
<1> QED
  BY <1>2, <1>3 DEF Owned

LEMMA OwnedInit == Init => Owned
BY DEF Init, Owned, Idle

LEMMA OwnedNext == IInv /\ TypeInv /\ Owned /\ [Next]_vars => Owned'
<1> USE DEF IInv, CallsShaped
<1> SUFFICES ASSUME IInv, TypeInv, Owned, [Next]_vars PROVE Owned'
  OBVIOUS
<1>1. Over.pc = "over" /\ Idle.pc = "idle"
  BY DEF Over, Idle
<1>2. CASE SaveStep
  <2>1. JobDone => \A c \in Checkpoints : /\ comp'[c].pc = comp[c].pc /\ comp'[c].msgs = comp[c].msgs
                                         /\ comp'[c].got = comp[c].got
    BY DEF JobDone
  <2>2. \A s : MaintainWith(s) => JobDone \/ comp' = comp
    BY DEF MaintainWith
  <2>3. inFlight' = inFlight /\ (JobDone \/ comp' = comp)
    BY <1>2, <2>2 DEF SaveStep, SaveArchive, Maintain, MaintainLoaded, Maintained
  <2> QED
    BY <2>1, <2>3, OwnedStays
<1>3. CASE HydrateStep
  <2>1. UNCHANGED <<inFlight, comp>>
    BY <1>3 DEF HydrateStep, Hydrate, HydrateLoaded, FallBackToParent, ParentIncomplete, TakeParent,
       DiscardAll, RebuildGenerationZero, TakeRebuilt
  <2> QED
    BY <2>1, OwnedStays
<1>4. CASE AddMessage \/ SendMessage \/ TurnEnds \/ Reset \/ UNCHANGED vars
  <2>1. UNCHANGED <<inFlight, comp>>
    BY <1>4 DEF AddMessage, SendMessage, TurnEnds, Reset, vars
  <2> QED
    BY <2>1, OwnedStays
<1>5. CASE Restart
  <2>1. inFlight' = {} /\ \A c \in Checkpoints : comp'[c].pc \in {"idle", "over"}
    BY <1>1, <1>5 DEF Restart
  <2> QED
    BY <2>1 DEF Owned
<1>6. ASSUME NEW c \in Checkpoints, CommitStep(c) PROVE Owned'
  <2> USE DEF Holding, Requested
  <2>1. CASE ReadSource(c)
    <3>1. /\ comp[c].pc = "waiting" /\ inFlight' = inFlight /\ \A d \in Checkpoints \ {c} : comp'[d] = comp[d]
          /\ comp'[c].pc \in {"read", "rejected"} /\ comp'[c].msgs = comp[c].msgs
      BY <2>1 DEF ReadSource
    <3> QED
      BY <3>1, OwnedCall
  <2>2. CASE CommitTransaction(c)
    <3> DEFINE r == Requested(c)
               source == SourceOf(comp[c].got)
               new == [gen |-> source + 1, parent |-> source, cid |-> r,
                       nodes |-> ComputeSurfaceNodes(comp[c].msgs)]
    <3>1. PICK pc \in {"returned", "rejected"} : comp' = [comp EXCEPT ![c].pc = pc, ![c].got = new]
      BY <2>2 DEF CommitTransaction
    <3>2. inFlight' = inFlight \cup {r} /\ comp[c].pc = "read" /\ new.cid = r
      BY <2>2 DEF CommitTransaction
    <3> HIDE DEF new
    <3>3. comp'[c].pc = pc /\ comp'[c].got = new /\ comp'[c].msgs = comp[c].msgs
      BY <3>1
    <3> QED
      BY <3>1, <3>2, <3>3, OwnedCall
  <2>3. CASE CommitReturned(c)
    <3>1. /\ comp[c].pc = "returned" /\ inFlight' = inFlight \ {c, comp[c].got.cid}
          /\ comp' = [comp EXCEPT ![c] = Over]
      BY <2>3 DEF CommitReturned
    <3>2. comp[c].got.cid = Requested(c)
      BY <3>1 DEF Owned
    <3> QED
      BY <1>1, <3>1, <3>2, OwnedCall
  <2>4. CASE Verify(c)
    <3>1. /\ comp[c].pc = "rejected" /\ inFlight' = inFlight \ {c, Requested(c)}
          /\ \A d \in Checkpoints \ {c} : comp'[d] = comp[d]
          /\ comp'[c].pc \in {"verified", "failing"}
      BY <2>4 DEF Verify
    <3> QED
      BY <3>1, OwnedCall
  <2>5. CASE TakeVerdict(c) \/ MarkFailed(c) \/ RollBack(c)
    <3>1. /\ comp[c].pc \in {"verified", "failing", "marked"} /\ inFlight' = inFlight
          /\ \A d \in Checkpoints \ {c} : comp'[d] = comp[d]
          /\ comp'[c].pc \in {"over", "failing", "marked"}
      BY <1>1, <2>5 DEF TakeVerdict, MarkFailed, RollBack
    <3> QED
      BY <3>1, OwnedCall
  <2> QED
    BY <1>6, <2>1, <2>2, <2>3, <2>4, <2>5 DEF CommitStep
<1>7. ASSUME NEW c \in Checkpoints, Plan(c) \/ AbandonPlan(c) \/ CommitTimesOut(c) PROVE Owned'
  <2>1. CASE CommitTimesOut(c)
    BY <2>1, OwnedStays DEF CommitTimesOut
  <2>2. CASE Plan(c) \/ AbandonPlan(c)
    <3>1. /\ comp[c].pc \in {"idle", "planned"} /\ inFlight' = inFlight
          /\ \A d \in Checkpoints \ {c} : comp'[d] = comp[d]
          /\ comp'[c].pc \in {"over", "planned"}
      BY <1>1, <2>2 DEF Plan, AbandonPlan, Idle
    <3> QED
      BY <3>1, OwnedCall DEF Holding
  <2> QED
    BY <1>7, <2>1, <2>2
<1>8. ASSUME NEW c \in Checkpoints, InsertPlanned(c) \/ InsertMidLoop(c) PROVE Owned'
  <2>1. PICK gen, k : Insert(c, gen, k)
    BY <1>8 DEF InsertPlanned, InsertMidLoop
  <2>2. comp[c].pc \in {"idle", "planned"}
    BY <1>8 DEF InsertPlanned, InsertMidLoop
  <2>3. /\ inFlight' = inFlight \cup {c} /\ \A d \in Checkpoints \ {c} : comp'[d] = comp[d]
        /\ comp'[c].pc = "waiting"
    BY <2>1 DEF Insert, Idle
  <2> QED
    BY <2>2, <2>3, OwnedCall DEF Holding
<1> QED
  BY <1>2, <1>3, <1>4, <1>5, <1>6, <1>7, <1>8 DEF Next


-----------------------------------------------------------------------------
(* What the nodes of a surface stand for.                                  *)

(* The nodes are messages of the list, and stand for all of it.            *)
Serves(nodes, ms) ==
  /\ RangeOf(nodes) \subseteq IdSet(ms)
  /\ IdSet(ms) \cap Plain \subseteq Covered(RangeOf(Effective(nodes)))

LEMMA NodesAt ==
  ASSUME NEW ms \in Seq(Message), NEW k, k = LatestCheckpoint(ms), NEW a, a = IF k = 0 THEN 1 ELSE k
  PROVE  /\ a \in Nat \ {0} /\ Len(ms) \in Nat
         /\ ComputeSurfaceNodes(ms) \in Seq(Plain \cup Checkpoints)
         /\ Len(ComputeSurfaceNodes(ms)) = Len(ms) - a + 1
         /\ \A i \in 1 .. Len(ms) - a + 1 : ComputeSurfaceNodes(ms)[i] = ms[a + i - 1].id
<1> DEFINE tail == SubSeq(ms, a, Len(ms))
<1>1. /\ k \in 0 .. Len(ms) /\ Len(ms) \in Nat
  BY LatestIs
<1>2. a \in Nat \ {0} /\ a <= Len(ms) + 1 /\ a \in Int
  BY <1>1
<1>3. \A i \in a .. Len(ms) : i \in 1 .. Len(ms) /\ ms[i] \in Message
  BY <1>1, <1>2
<1> HIDE DEF Message
<1>4. /\ tail \in Seq(Message) /\ Len(tail) = IF a <= Len(ms) THEN Len(ms) - a + 1 ELSE 0
      /\ \A i \in 1 .. Len(ms) - a + 1 : tail[i] = ms[a + i - 1]
  BY <1>1, <1>2, <1>3, SubSeqProperties
<1>5. ComputeSurfaceNodes(ms) = IdsOf(tail)
  <2>1. a \in Nat /\ a >= 1
    BY <1>2
  <2>2. SubSeq(IdsOf(ms), a, Len(ms)) = IdsOf(SubSeq(ms, a, Len(ms)))
    BY <2>1, IdsOfTail
  <2> QED
    BY <2>2 DEF ComputeSurfaceNodes
<1> HIDE DEF tail
<1>6. Len(tail) = Len(ms) - a + 1
  BY <1>1, <1>2, <1>4
<1>7. DOMAIN tail = 1 .. Len(ms) - a + 1
  BY <1>4, <1>6
<1>8. IdsOf(tail) = [i \in 1 .. Len(ms) - a + 1 |-> tail[i].id]
  BY <1>7 DEF IdsOf
<1>9. IdsOf(tail) \in Seq(Plain \cup Checkpoints)
  BY <1>5, NodesAre
<1>10. Len(IdsOf(tail)) = Len(ms) - a + 1
  <2>1. DOMAIN IdsOf(tail) = 1 .. Len(IdsOf(tail)) /\ Len(IdsOf(tail)) \in Nat
    BY <1>9
  <2>2. Len(ms) - a + 1 \in Nat
    BY <1>1, <1>2
  <2>3. 1 .. Len(IdsOf(tail)) = 1 .. Len(ms) - a + 1
    BY <1>8, <2>1
  <2> QED
    BY <2>1, <2>2, <2>3
<1> QED
  BY <1>1, <1>2, <1>4, <1>5, <1>8, <1>9, <1>10

(* A surface hands its nodes to the model from its checkpoint on.          *)
LEMMA EffectiveNodes ==
  ASSUME NEW ms \in Seq(Message)
  PROVE  Effective(ComputeSurfaceNodes(ms)) = ComputeSurfaceNodes(ms)
<1> DEFINE k == LatestCheckpoint(ms)
           a == IF k = 0 THEN 1 ELSE k
           nodes == ComputeSurfaceNodes(ms)
           at == {i \in DOMAIN nodes : nodes[i] \in Checkpoints}
<1>1. /\ a \in Nat \ {0} /\ Len(ms) \in Nat
      /\ nodes \in Seq(Plain \cup Checkpoints) /\ Len(nodes) = Len(ms) - a + 1
      /\ \A i \in 1 .. Len(ms) - a + 1 : nodes[i] = ms[a + i - 1].id
  BY NodesAt
<1>2. /\ k \in 0 .. Len(ms) /\ (k # 0 => a = k)
      /\ \A i \in 1 .. Len(ms) : ms[i].id \in Checkpoints => i <= k
  BY LatestIs
<1> HIDE DEF k, a, nodes
<1>0. Effective(nodes) = IF at = {} THEN nodes ELSE SubSeq(nodes, CHOOSE i \in at : \A j \in at : j <= i, Len(nodes))
  BY DEF Effective
<1>3. \A i \in at : i = 1
  <2> SUFFICES ASSUME NEW i \in at PROVE i = 1
    OBVIOUS
  <2>1. i \in 1 .. Len(ms) - a + 1 /\ a + i - 1 \in 1 .. Len(ms)
    BY <1>1
  <2>2. a + i - 1 <= k
    BY <1>1, <1>2, <2>1
  <2> QED
    BY <1>1, <1>2, <2>1, <2>2
<1>4. CASE at = {}
  BY <1>0, <1>4 DEF nodes
<1>5. CASE at # {}
  <2>1. (CHOOSE i \in at : \A j \in at : j <= i) = 1
    BY <1>3, <1>5
  <2>2. Effective(nodes) = SubSeq(nodes, 1, Len(nodes))
    BY <1>0, <1>5, <2>1
  <2>3. Len(nodes) \in Nat /\ \A i \in 1 .. Len(nodes) : nodes[i] \in Plain \cup Checkpoints
    BY <1>1
  <2>4. SubSeq(nodes, 1, Len(nodes)) = nodes
    <3>1. /\ SubSeq(nodes, 1, Len(nodes)) \in Seq(Plain \cup Checkpoints)
          /\ Len(SubSeq(nodes, 1, Len(nodes))) = Len(nodes)
          /\ \A i \in 1 .. Len(nodes) : SubSeq(nodes, 1, Len(nodes))[i] = nodes[i]
      BY <2>3, SubSeqProperties
    <3> QED
      BY <1>1, <2>3, <3>1, SeqEqual
  <2> QED
    BY <2>2, <2>4 DEF nodes
<1> QED
  BY <1>4, <1>5 DEF nodes

LEMMA NodesServe ==
  ASSUME NEW ms \in Seq(Message), Stands(ms, covers)
  PROVE  Serves(ComputeSurfaceNodes(ms), ms)
<1> DEFINE k == LatestCheckpoint(ms)
           a == IF k = 0 THEN 1 ELSE k
           nodes == ComputeSurfaceNodes(ms)
<1>1. /\ a \in Nat \ {0} /\ Len(ms) \in Nat
      /\ nodes \in Seq(Plain \cup Checkpoints) /\ Len(nodes) = Len(ms) - a + 1
      /\ \A i \in 1 .. Len(ms) - a + 1 : nodes[i] = ms[a + i - 1].id
  BY NodesAt
<1>2. k \in 0 .. Len(ms) /\ (k # 0 => ms[k].id \in Checkpoints) /\ (k # 0 => a = k) /\ (k = 0 => a = 1)
  BY LatestIs
<1>3. RangeOf(nodes) \subseteq IdSet(ms)
  BY NodesIn
<1>4. Effective(nodes) = nodes
  BY EffectiveNodes
<1>0. DOMAIN ms = 1 .. Len(ms)
  OBVIOUS
<1> HIDE DEF k, a, nodes, Message
<1>5. ASSUME NEW j \in a .. Len(ms) PROVE ms[j].id \in RangeOf(nodes)
  <2>1. j - a + 1 \in 1 .. Len(ms) - a + 1 /\ a + (j - a + 1) - 1 = j
    BY <1>1
  <2>2. j - a + 1 \in DOMAIN nodes
    BY <1>1, <2>1
  <2>3. nodes[j - a + 1] = ms[j].id
    BY <1>1, <2>1
  <2> QED
    BY <2>2, <2>3 DEF RangeOf
<1>6. ASSUME NEW x \in IdSet(ms) \cap Plain PROVE x \in Covered(RangeOf(nodes))
  <2>1. PICK j \in 1 .. Len(ms) : x = ms[j].id
    BY <1>0 DEF IdSet
  <2>2. CASE j >= a
    <3>1. x \in RangeOf(nodes)
      BY <1>1, <1>5, <2>1, <2>2
    <3> QED
      BY <3>1 DEF Covered
  <2>3. CASE j < a
    <3>1. k # 0 /\ a = k /\ k \in 1 .. Len(ms) /\ j < k
      BY <1>1, <1>2, <2>1, <2>3
    <3>2. x \in covers[ms[k].id] /\ ms[k].id \in Checkpoints
      BY <1>2, <1>6, <2>1, <3>1 DEF Stands
    <3>3. k \in a .. Len(ms)
      BY <1>1, <1>2, <3>1
    <3>4. ms[k].id \in RangeOf(nodes)
      BY <1>5, <3>3
    <3> QED
      BY <3>2, <3>4 DEF Covered
  <2> QED
    BY <1>1, <2>1, <2>2, <2>3
<1> QED
  BY <1>3, <1>4, <1>6 DEF Serves, nodes

(* Also without an orphan, which is the last checkpoint.                   *)
LEMMA ProjectionServes ==
  ASSUME NEW ms, NEW n, NEW b, Listed(ms, n, b), Stands(ms, covers), NEW s
  PROVE  Serves(Projection(s, ms), ms)
<1> DEFINE k == LatestCheckpoint(ms)
           rest == Without(ms, ms[k].id)
<1>1. ms \in Seq(Message) /\ DOMAIN ms = 1 .. Len(ms) /\ Len(ms) \in Nat
  BY DEF Listed
<1>2. Serves(ComputeSurfaceNodes(ms), ms)
  BY <1>1, NodesServe
<1>3. ASSUME k # 0 PROVE Serves(ComputeSurfaceNodes(rest), ms)
  <2>1. /\ k \in 1 .. Len(ms) /\ ms[k].id \in Checkpoints
        /\ \A i \in 1 .. Len(ms) : ms[i].id \in Checkpoints => i <= k
    BY <1>1, <1>3, LatestIs
  <2>2. \A i, j \in 1 .. Len(ms) : ms[i].id = ms[j].id => i = j
    BY DEF Listed
  <2>3. k \in Points(ms) /\ \A j \in Points(ms) : j <= k
    BY <2>1 DEF Points
  <2>4. IdSet(rest) = IdSet(ms) \ {ms[k].id} /\ rest \in Seq(Message)
    BY <1>1, <2>2, <2>3, DropPoints
  <2>5. Stands(rest, covers)
    BY DropStands
  <2>6. Serves(ComputeSurfaceNodes(rest), rest)
    BY <2>4, <2>5, NodesServe
  <2>7. IdSet(rest) \cap Plain = IdSet(ms) \cap Plain
    BY <2>1, <2>4, SurfaceConstants DEF Plain
  <2> QED
    BY <2>4, <2>6, <2>7 DEF Serves
<1> QED
  BY <1>2, <1>3 DEF Projection


-----------------------------------------------------------------------------
(* Nothing said before a turn is missing from what it is given.            *)

(* The conditions of NothingLost.                                          *)
Gentle == Calm(Overlaps \cup {"load refused", "maintain refused", "maintain lost"})

(* A compaction of the worker works inside its turn, any other one between *)
(* turns.                                                                  *)
Apart ==
  /\ late = {} /\ turn.pc \in {"idle", "waiting", "running"}
  /\ \A c \in Checkpoints : Active(c) =>
       IF comp[c].gen = Unset THEN turn.pc = "running" /\ comp[c].pc # "planned" ELSE turn.pc = "idle"

(* A turn that waits has the whole queue ahead, which ends with the        *)
(* messages it was asked about, and once the queue is empty the cache      *)
(* serves them.                                                            *)
Awaited ==
  /\ turn.ahead = Len(queue)
  /\ IdSet(live) \cap Plain # {}
  /\ queue # <<>> => queue[Len(queue)] = live
  /\ queue = <<>> => cache.gen \in Nat /\ Serves(cache.nodes, live)
  /\ Len(queue) = 1 /\ save.pc = "saved" => save.got.gen \in Nat /\ Serves(save.got.nodes, live)

Prompt == Apart /\ (turn.pc = "waiting" => Awaited)

LostInv == Gentle => Prompt /\ bad.lost = {}

LEMMA NoHarm ==
  ASSUME Gentle', NEW d, Happens(d)
  PROVE  d \notin Overlaps \cup {"load refused", "maintain refused", "maintain lost"}
<1>1. PICK n : <<d, n>> \in upset'
  BY DEF Happens
<1>2. <<d, n>>[1] = d
  OBVIOUS
<1> QED
  BY <1>1, <1>2 DEF Gentle, Calm

LEMMA NobodyCompacts ==
  ASSUME Apart, turn.pc = "waiting"
  PROVE  \A c \in Checkpoints : ~Active(c)
BY DEF Apart

(* Nothing is registered as in flight then.                                *)
LEMMA NotSkipped ==
  ASSUME TypeInv, Owned, Apart, turn.pc = "waiting", queue # <<>>
  PROVE  inFlight = {} /\ ~Skipped(Head(queue))
BY NobodyCompacts DEF Owned, Holding, Active, Skipped

(* The end of a job.                                                       *)
LEMMA JobDonePrompt ==
  ASSUME IInv, TypeInv, Prompt, JobDone, queue # <<>>, UNCHANGED <<live, late, covers>>,
         turn.pc = "waiting" /\ Len(queue) = 1 => cache'.gen \in Nat /\ Serves(cache'.nodes, live)
  PROVE  Prompt'
<1>1. /\ queue' = Tail(queue) /\ save' = [pc |-> "idle", got |-> NoSurface]
      /\ turn' = [turn EXCEPT !.ahead = Less(@)]
      /\ comp' = [c \in Checkpoints |-> [comp[c] EXCEPT !.ahead = Less(@)]]
  BY DEF JobDone
<1>2. /\ queue \in Seq(Seq(Message)) /\ Len(queue) \in Nat /\ Len(queue) > 0
      /\ queue' \in Seq(Seq(Message)) /\ Len(queue') = Len(queue) - 1
      /\ \A n \in 1 .. Len(queue) - 1 : queue'[n] = queue[n + 1]
      /\ (queue' = <<>> <=> Len(queue) = 1)
  <2>1. queue \in Seq(Seq(Message)) /\ Len(queue) \in Nat /\ Len(queue) > 0
    BY DEF TypeInv, ListsTyped
  <2>2. /\ queue' \in Seq(Seq(Message)) /\ Len(queue') = Len(queue) - 1
        /\ \A n \in 1 .. Len(queue) - 1 : queue'[n] = queue[n + 1]
    BY <1>1, <2>1
  <2>3. Len(queue') = 0 <=> queue' = <<>>
    BY <2>2
  <2> QED
    BY <2>1, <2>2, <2>3
<1>3. turn'.pc = turn.pc /\ turn'.ahead = Less(turn.ahead) /\ save'.pc = "idle"
  BY <1>1 DEF IInv
<1>4. Apart'
  <2>1. \A c \in Checkpoints : comp'[c].pc = comp[c].pc /\ comp'[c].gen = comp[c].gen
    BY <1>1 DEF IInv, CallsShaped
  <2> QED
    BY <1>3, <2>1 DEF Prompt, Apart, Active
<1>5. ASSUME turn.pc = "waiting" PROVE Awaited'
  <2>1. turn'.ahead = Len(queue') /\ IdSet(live') \cap Plain # {}
    BY <1>2, <1>3, <1>5 DEF Prompt, Awaited, Less
  <2>2. queue' # <<>> => queue'[Len(queue')] = live'
    <3>1. SUFFICES ASSUME queue' # <<>> PROVE queue'[Len(queue')] = live'
      OBVIOUS
    <3>2. Len(queue) \in Nat /\ Len(queue) # 1 /\ Len(queue) > 0
      BY <1>2, <3>1
    <3>3. Len(queue) - 1 \in 1 .. Len(queue) - 1 /\ (Len(queue) - 1) + 1 = Len(queue)
      BY <3>2
    <3>4. queue'[Len(queue) - 1] = queue[Len(queue)]
      BY <1>2, <3>3
    <3>5. queue # <<>> => queue[Len(queue)] = live
      BY <1>5 DEF Prompt, Awaited
    <3> QED
      BY <1>2, <3>4, <3>5
  <2>3. queue' = <<>> => cache'.gen \in Nat /\ Serves(cache.nodes, live)'
    BY <1>2, <1>5 DEF Serves, Covered
  <2> QED
    BY <1>3, <2>1, <2>2, <2>3 DEF Awaited
<1> QED
  BY <1>3, <1>4, <1>5 DEF Prompt

(* A job that maintains the surface it found.                              *)
LEMMA MaintainPrompt ==
  ASSUME IInv, TypeInv, StandInv, Owned, Gentle', Prompt, queue # <<>>,
         NEW s \in Given, MaintainWith(s), UNCHANGED <<live, late, covers>>
  PROVE  Prompt'
<1> DEFINE ms == Head(queue)
           new == [gen |-> IF s.gen = NoGen THEN 0 ELSE s.gen,
                   parent |-> s.parent, cid |-> s.cid, nodes |-> Projection(s, ms)]
<1>1. \/ JobDone /\ Skipped(ms)
      \/ save' = [pc |-> "saved", got |-> new] /\ UNCHANGED <<queue, comp, turn>>
  BY NoHarm DEF MaintainWith
<1>2. CASE JobDone /\ Skipped(ms)
  <2>1. turn.pc # "waiting"
    BY <1>2, NotSkipped DEF Prompt
  <2> QED
    BY <1>2, <2>1, JobDonePrompt
<1>3. CASE save' = [pc |-> "saved", got |-> new] /\ UNCHANGED <<queue, comp, turn>>
  <2>1. Apart'
    BY <1>3 DEF Prompt, Apart, Active
  <2>2. ASSUME turn.pc = "waiting", Len(queue) = 1 PROVE new.gen \in Nat /\ Serves(new.nodes, live)
    <3>1. ms = live
      <4>1. Head(queue) = queue[1]
        BY DEF TypeInv, ListsTyped
      <4> QED
        BY <2>2, <4>1 DEF Prompt, Awaited
    <3>2. Serves(Projection(s, live), live)
      BY ProjectionServes DEF TypeInv, ListsTyped, StandInv
    <3>3. new.nodes = Projection(s, ms) /\ new.gen = IF s.gen = NoGen THEN 0 ELSE s.gen
      OBVIOUS
    <3>4. s.gen \in Nat \cup {NoGen}
      BY SurfaceFields
    <3> HIDE DEF new, ms
    <3> QED
      BY <3>1, <3>2, <3>3, <3>4
  <2>3. save'.pc = "saved" /\ save'.got = new
    BY <1>3
  <2> HIDE DEF new
  <2>4. ASSUME turn.pc = "waiting" PROVE Awaited'
    <3>1. queue # <<>> /\ queue' = queue /\ turn' = turn
      BY <1>3
    <3>2. Len(queue) = 1 => save'.got.gen \in Nat /\ Serves(save.got.nodes, live)'
      BY <2>2, <2>3, <2>4 DEF Serves, Covered
    <3> QED
      BY <2>4, <3>1, <3>2 DEF Prompt, Awaited
  <2> QED
    BY <1>3, <2>1, <2>4 DEF Prompt
<1> QED
  BY <1>1, <1>2, <1>3

LEMMA SavePrompt ==
  ASSUME IInv, TypeInv, StandInv, Owned, Gentle', Prompt, SaveStep
  PROVE  Prompt'
<1>1. UNCHANGED <<live, late, covers>>
  BY DEF SaveStep, SaveArchive, Maintain, MaintainLoaded, Maintained
<1>2. save.pc # "idle" => queue # <<>>
  BY DEF TypeInv, SaveTyped
<1>3. ASSUME UNCHANGED <<queue, comp, turn>>, save'.pc # "saved", queue # <<>> PROVE Prompt'
  BY <1>1, <1>3 DEF Prompt, Apart, Active, Awaited
<1>4. CASE SaveArchive
  <2>1. save'.pc = "archived"
    BY <1>4 DEF SaveArchive, IInv
  <2> QED
    BY <1>3, <1>4, <2>1 DEF SaveArchive
<1>5. CASE Maintain
  <2>1. CASE cache = Forgotten
    <3>1. save' = [pc |-> "loaded", got |-> LoadLatest] /\ UNCHANGED <<queue, comp, turn>>
      BY <1>5, <2>1, NoHarm DEF Maintain
    <3>2. save'.pc = "loaded"
      BY <3>1
    <3> QED
      BY <1>2, <1>3, <1>5, <3>1, <3>2 DEF Maintain
  <2>2. CASE cache # Forgotten
    <3>1. cache \in Given /\ MaintainWith(cache) /\ queue # <<>>
      BY <1>2, <1>5, <2>2 DEF Maintain, TypeInv, TablesTyped
    <3> QED
      BY <1>1, <3>1, MaintainPrompt
  <2> QED
    BY <2>1, <2>2
<1>6. CASE MaintainLoaded
  <2>1. save.got \in Given /\ MaintainWith(save.got) /\ queue # <<>>
    BY <1>2, <1>6 DEF MaintainLoaded, TypeInv, SaveTyped
  <2> QED
    BY <1>1, <2>1, MaintainPrompt
<1>7. CASE Maintained
  <2>1. save.pc = "saved" /\ cache' = save.got /\ JobDone /\ queue # <<>>
    BY <1>2, <1>7 DEF Maintained, Remember
  <2>2. turn.pc = "waiting" /\ Len(queue) = 1 => cache'.gen \in Nat /\ Serves(cache'.nodes, live)
    BY <2>1 DEF Prompt, Awaited
  <2> QED
    BY <1>1, <2>1, <2>2, JobDonePrompt
<1> QED
  BY <1>4, <1>5, <1>6, <1>7 DEF SaveStep

(* The hydration finds what the last job left in the cache.                *)
LEMMA HydratePrompt ==
  ASSUME IInv, TypeInv, Gentle', Prompt, HydrateStep
  PROVE  Prompt' /\ bad'.lost = {}
<1>1. turn.pc = "waiting" /\ turn.ahead = 0 /\ Hydrate
  BY DEF HydrateStep, Hydrate, HydrateLoaded, FallBackToParent, ParentIncomplete, TakeParent,
     DiscardAll, RebuildGenerationZero, TakeRebuilt, Prompt, Apart
<1>2. queue = <<>>
  BY <1>1 DEF Prompt, Awaited, TypeInv, ListsTyped
<1>3. cache.gen \in Nat /\ Serves(cache.nodes, live) /\ IdSet(live) \cap Plain # {}
  BY <1>1, <1>2 DEF Prompt, Awaited
<1>4. cache # Forgotten /\ cache.gen # NoGen
  BY <1>3, SurfaceFields DEF NoGen
<1>5. cache.nodes # <<>>
  <2>1. SUFFICES ASSUME cache.nodes = <<>> PROVE FALSE
    OBVIOUS
  <2>2. Effective(<<>>) = <<>>
    BY DEF Effective
  <2>3. RangeOf(<<>>) = {}
    BY DEF RangeOf
  <2>4. Covered({}) = {}
    BY DEF Covered
  <2> QED
    BY <1>3, <2>1, <2>2, <2>3, <2>4 DEF Serves
<1>6. Got(cache.nodes)
  BY <1>1, <1>3, <1>4, <1>5 DEF Hydrate, HydrateWith, Complete, Serves
<1>7. bad'.lost = {}
  <2>1. bad'.lost = ((IdSet(live) \cap Plain) \ {sent}) \ Covered(RangeOf(Effective(cache.nodes)))
    BY <1>6 DEF Got
  <2> QED
    BY <1>3, <2>1 DEF Serves
<1>8. turn'.pc = "running"
  BY <1>6 DEF Got, Idle
<1>9. UNCHANGED <<comp, late>>
  BY <1>1 DEF Hydrate
<1>10. \A c \in Checkpoints : ~Active(c)
  BY <1>1, NobodyCompacts DEF Prompt
<1> QED
  BY <1>7, <1>8, <1>9, <1>10 DEF Prompt, Apart, Active


LEMMA CommitPrompt ==
  ASSUME IInv, Prompt, NEW c \in Checkpoints, CommitStep(c)
  PROVE  Prompt'
<1>1. /\ Active(c) /\ comp[c].pc # "planned"
      /\ \A d \in Checkpoints \ {c} : comp'[d] = comp[d]
      /\ comp'[c] = Over \/ (comp'[c].gen = comp[c].gen /\ comp'[c].pc # "planned")
      /\ turn'.pc = turn.pc /\ late' = late
  <2> USE DEF IInv, CallsShaped, Active
  <2>1. CASE ReadSource(c)
    BY <2>1 DEF ReadSource
  <2>2. CASE CommitTransaction(c)
    <3>1. PICK pc \in {"returned", "rejected"} :
            \E new : comp' = [comp EXCEPT ![c].pc = pc, ![c].got = new]
      BY <2>2 DEF CommitTransaction
    <3>2. comp[c].pc = "read" /\ turn' = turn /\ late' = late
      BY <2>2 DEF CommitTransaction
    <3> QED
      BY <3>1, <3>2
  <2>3. CASE CommitReturned(c)
    BY <2>3 DEF CommitReturned
  <2>4. CASE Verify(c)
    BY <2>4 DEF Verify
  <2>5. CASE TakeVerdict(c)
    BY <2>5 DEF TakeVerdict
  <2>6. CASE MarkFailed(c) \/ RollBack(c)
    BY <2>6 DEF MarkFailed, RollBack
  <2> QED
    BY <2>1, <2>2, <2>3, <2>4, <2>5, <2>6 DEF CommitStep
<1>2. Over.pc = "over"
  BY DEF Over, Idle
<1>3. turn.pc # "waiting"
  BY <1>1, NobodyCompacts DEF Prompt
<1> QED
  BY <1>1, <1>2, <1>3 DEF Prompt, Apart, Active

LEMMA OtherPrompt ==
  ASSUME IInv, TypeInv, Gentle', Prompt,
         \/ AddMessage \/ SendMessage \/ TurnEnds \/ Reset \/ Restart
         \/ \E c \in Checkpoints : Plan(c) \/ AbandonPlan(c) \/ InsertPlanned(c) \/ InsertMidLoop(c)
                                   \/ CommitTimesOut(c)
  PROVE  Prompt'
<1> USE DEF IInv, CallsShaped
<1>1. Idle.pc = "idle" /\ Over.pc = "over"
  BY DEF Idle, Over
<1>2. CASE AddMessage \/ Reset
  <2>1. UNCHANGED <<comp, late, turn>> /\ turn.pc \in {"running", "idle"}
    BY <1>2 DEF AddMessage, Reset
  <2> QED
    BY <2>1 DEF Prompt, Apart, Active
<1>3. CASE SendMessage
  <2>1. /\ turn.pc = "idle" /\ UNCHANGED <<comp, late, save>> /\ sent < MaxMsgs
        /\ live' = Append(live, NewMessage) /\ queue' = Append(queue, live')
        /\ turn' = [Idle EXCEPT !.pc = "waiting", !.ahead = Len(queue')]
    BY <1>3 DEF SendMessage, Enqueue
  <2>2. \A c \in Checkpoints : ~Active(c)
    <3>1. Planned = {}
      BY <1>3, NoHarm DEF SendMessage, Overlaps
    <3> QED
      BY <2>1, <3>1 DEF Prompt, Apart, Active, Planned
  <2>3. turn'.pc = "waiting" /\ turn'.ahead = Len(queue')
    BY <2>1 DEF Idle
  <2>4. queue \in Seq(Seq(Message)) /\ live \in Seq(Message) /\ sent \in Nat /\ Len(queue) \in Nat /\ Len(live) \in Nat
    BY DEF TypeInv, ListsTyped, Listed
  <2>5. NewMessage \in Message /\ NewMessage.id = sent + 1 /\ NewMessage.id \in Plain
    <3>1. sent + 1 \in Plain
      BY <2>1, <2>4, SurfaceConstants DEF Plain
    <3> QED
      BY <2>1, <2>4, <3>1, NewMessageIs DEF NewMessage
  <2>6. live' \in Seq(Message) /\ Len(live) + 1 \in DOMAIN live' /\ live'[Len(live) + 1] = NewMessage
    BY <2>1, <2>4, <2>5
  <2>7. IdSet(live') \cap Plain # {}
    <3>1. NewMessage.id \in IdSet(live')
      BY <2>6 DEF IdSet
    <3> QED
      BY <2>5, <3>1
  <2>8. queue' \in Seq(Seq(Message)) /\ Len(queue') = Len(queue) + 1 /\ queue'[Len(queue) + 1] = live'
    BY <2>1, <2>4, <2>6
  <2>9. queue' # <<>> /\ (Len(queue') = 1 => save'.pc = "idle")
    <3>1. Len(queue') # 0
      BY <2>4, <2>8
    <3>2. Len(queue') = 1 => queue = <<>>
      BY <2>4, <2>8
    <3> QED
      BY <2>1, <3>1, <3>2, <2>8 DEF TypeInv, SaveTyped
  <2>10. Awaited'
    BY <2>3, <2>7, <2>8, <2>9 DEF Awaited
  <2> QED
    BY <2>1, <2>2, <2>3, <2>10 DEF Prompt, Apart, Active
<1>4. CASE TurnEnds
  <2>1. Asked = {} /\ late' = late \cup Asked /\ turn' = Idle /\ turn.pc = "running" /\ UNCHANGED comp
    BY <1>4, NoHarm DEF TurnEnds, Overlaps
  <2>2. \A c \in Checkpoints : ~Active(c)
    BY <2>1 DEF Prompt, Apart, Active, Asked, Pending
  <2> QED
    BY <1>1, <2>1, <2>2 DEF Prompt, Apart, Active
<1>5. CASE Restart
  <2>1. /\ late' = {} /\ turn' = Idle
        /\ comp' = [c \in Checkpoints |-> IF comp[c].pc = "idle" THEN Idle ELSE Over]
    BY <1>5 DEF Restart
  <2>2. \A c \in Checkpoints : ~Active(c)'
    BY <1>1, <2>1 DEF Active
  <2> QED
    BY <1>1, <2>1, <2>2 DEF Prompt, Apart
<1>6. ASSUME NEW c \in Checkpoints, Plan(c) PROVE Prompt'
  <2> DEFINE s == IF cache = Forgotten THEN LoadLatest ELSE cache
             gen == IF s.gen = NoGen THEN 1 ELSE s.gen + 1
  <2>1. /\ turn.pc = "idle" /\ UNCHANGED <<late, turn>>
        /\ comp' = [comp EXCEPT ![c] = [Idle EXCEPT !.pc = "planned", !.msgs = live, !.gen = gen]]
    BY <1>6 DEF Plan
  <2>2. s \in Given
    BY LoadTyped DEF TypeInv, TablesTyped
  <2>3. gen # Unset
    <3>1. s.gen \in Nat \cup {NoGen}
      BY <2>2, SurfaceFields
    <3> HIDE DEF s
    <3> QED
      BY <3>1 DEF Unset, NoGen
  <2> HIDE DEF gen
  <2>4. comp'[c].pc = "planned" /\ comp'[c].gen = gen /\ \A d \in Checkpoints \ {c} : comp'[d] = comp[d]
    BY <2>1 DEF Idle
  <2> QED
    BY <2>1, <2>3, <2>4 DEF Prompt, Apart, Active
<1>7. ASSUME NEW c \in Checkpoints, AbandonPlan(c) PROVE Prompt'
  <2>1. /\ comp' = [comp EXCEPT ![c] = Over] /\ UNCHANGED <<late, turn>> /\ Active(c)
    BY <1>7 DEF AbandonPlan, Active
  <2>2. turn.pc # "waiting"
    BY <2>1, NobodyCompacts DEF Prompt
  <2> QED
    BY <1>1, <2>1, <2>2 DEF Prompt, Apart, Active
<1>8. ASSUME NEW c \in Checkpoints, NEW gen, NEW k, Insert(c, gen, k), late' = late,
             turn'.pc = turn.pc, IF gen = Unset THEN turn.pc = "running" ELSE turn.pc = "idle"
      PROVE  Prompt'
  <2>1. comp' = [comp EXCEPT ![c] = [Idle EXCEPT !.pc = "waiting", !.msgs = live', !.gen = gen, !.ahead = Len(queue')]]
    BY <1>8 DEF Insert
  <2>2. comp'[c].pc = "waiting" /\ comp'[c].gen = gen /\ \A d \in Checkpoints \ {c} : comp'[d] = comp[d]
    BY <2>1 DEF Idle
  <2> QED
    BY <1>8, <2>2 DEF Prompt, Apart, Active
<1>9. ASSUME NEW c \in Checkpoints, InsertPlanned(c) PROVE Prompt'
  <2>1. PICK k : Insert(c, comp[c].gen, k)
    BY <1>9 DEF InsertPlanned
  <2>2. comp[c].pc = "planned" /\ UNCHANGED <<late, turn>>
    BY <1>9 DEF InsertPlanned
  <2>3. IF comp[c].gen = Unset THEN turn.pc = "running" ELSE turn.pc = "idle"
    BY <2>2 DEF Prompt, Apart, Active
  <2> QED
    BY <1>8, <2>1, <2>2, <2>3
<1>10. ASSUME NEW c \in Checkpoints, InsertMidLoop(c) PROVE Prompt'
  <2>1. PICK k : Insert(c, Unset, k)
    BY <1>10 DEF InsertMidLoop
  <2>2. turn.pc = "running" /\ turn'.pc = turn.pc /\ late' = late
    BY <1>10 DEF InsertMidLoop
  <2> QED
    BY <1>8, <2>1, <2>2
<1>11. ASSUME NEW c \in Checkpoints, CommitTimesOut(c) PROVE Prompt'
  BY <1>11, NoHarm DEF CommitTimesOut, Overlaps
<1> QED
  BY <1>2, <1>3, <1>4, <1>5, <1>6, <1>7, <1>9, <1>10, <1>11

LEMMA LostInvInit == Init => LostInv
<1> SUFFICES ASSUME Init PROVE LostInv
  OBVIOUS
<1>1. turn.pc = "idle" /\ (\A c \in Checkpoints : comp[c].pc = "idle") /\ late = {} /\ bad.lost = {}
  BY DEF Init, Idle
<1> QED
  BY <1>1 DEF LostInv, Prompt, Apart, Active

LEMMA LostInvNext == IInv /\ TypeInv /\ StandInv /\ Owned /\ LostInv /\ [Next]_vars => LostInv'
<1> SUFFICES ASSUME IInv, TypeInv, StandInv, Owned, LostInv, [Next]_vars, Gentle' PROVE Prompt' /\ bad'.lost = {}
  BY DEF LostInv
<1>1. Prompt /\ bad.lost = {}
  BY Undisturbed DEF LostInv, Gentle
<1>2. CASE SaveStep
  <2>1. bad' = bad
    BY <1>2 DEF SaveStep, SaveArchive, Maintain, MaintainLoaded, Maintained
  <2> QED
    BY <1>1, <1>2, <2>1, SavePrompt
<1>3. CASE HydrateStep
  BY <1>1, <1>3, HydratePrompt
<1>4. ASSUME NEW c \in Checkpoints, CommitStep(c) PROVE Prompt' /\ bad'.lost = {}
  <2>1. bad' = bad
    BY <1>4 DEF CommitStep, ReadSource, CommitTransaction, CommitReturned, Verify, TakeVerdict, MarkFailed, RollBack
  <2> QED
    BY <1>1, <1>4, <2>1, CommitPrompt
<1>5. CASE \/ AddMessage \/ SendMessage \/ TurnEnds \/ Reset \/ Restart
           \/ \E c \in Checkpoints : Plan(c) \/ AbandonPlan(c) \/ InsertPlanned(c) \/ InsertMidLoop(c)
                                     \/ CommitTimesOut(c)
  <2>1. bad' = bad
    BY <1>5 DEF AddMessage, SendMessage, TurnEnds, Reset, Restart, Plan, AbandonPlan, InsertPlanned,
       InsertMidLoop, CommitTimesOut
  <2> QED
    BY <1>1, <1>5, <2>1, OtherPrompt
<1>6. CASE UNCHANGED vars
  BY <1>1, <1>6 DEF vars, Prompt, Apart, Awaited, Active, Serves, Covered
<1> QED
  BY <1>2, <1>3, <1>4, <1>5, <1>6 DEF Next

(* hydrateSessionContext gives a turn everything said before it, in its    *)
(* own words or in a checkpoint.                                           *)
THEOREM NothingLostHolds == Spec => []NothingLost
<1>1. LostInv => NothingLost
  BY DEF LostInv, NothingLost, Gentle
<1> QED
  BY <1>1, IInvInit, IInvNext, TypeInit, TypeNext, StandInit, StandNext, OwnedInit, OwnedNext,
     LostInvInit, LostInvNext, PTL DEF Spec

-----------------------------------------------------------------------------
(* NothingRevived.  What a completed compaction replaced stands before its *)
(* checkpoint in every list; so a list of nodes revives nothing as long as *)
(* none of them stands before the checkpoint of the latest generation, and *)
(* every surface that may be served or written is of that kind.            *)

(* The conditions of NothingRevived.                                       *)
Plainly == Calm({"precedes"})
Tended == Calm({"load refused", "maintain refused", "maintain lost"})
Upright == Serial /\ Calm({"archive refused"}) /\ (Plainly \/ Tended)

(* x stands before y in the list.                                          *)
Before(ms, x, y) == \E i, j \in 1 .. Len(ms) : i < j /\ ms[i].id = x /\ ms[j].id = y

(* A checkpoint that carries the name of another compaction, as it was     *)
(* committed in its name, stands before that one's.                        *)
Named(ms, done) ==
  \A m \in RangeOf(ms) : m.id \in Checkpoints =>
    m.cid = m.id \/ (m.cid \in done /\ Before(ms, m.id, m.cid))

(* The checkpoint of every commit is there, and the last of them is that   *)
(* of the latest generation.                                               *)
Led(ms, done, S) ==
  /\ done \subseteq IdSet(ms)
  /\ \A x \in done : (\A y \in done : ~Before(ms, x, y)) => Top(S, x)

(* A surface of the latest generation whose nodes no commit replaced.      *)
Clear(s, done, S, cov) ==
  /\ done # {} => Top(S, s.cid)
  /\ \A c \in done : RangeOf(s.nodes) \cap cov[c] = {}

(* Its nodes are in every list, and no checkpoint among them will leave it. *)
Firm(s, settled, copies) ==
  RangeOf(s.nodes) \cap Checkpoints \subseteq settled /\ Present(s, copies)

Good(s) ==
  /\ Clear(s, Completed, surfaces, covers)
  /\ Plainly => Firm(s, Completed \cup Ended, Copies)

(* A step gains, loses or renames this one message of a list at most.      *)
SameBut(ms, new, c) ==
  /\ \A m \in RangeOf(new) : m.id # c => m \in RangeOf(ms)
  /\ \A x : x # c => (x \in IdSet(new) <=> x \in IdSet(ms))
  /\ \A x, y : x # c /\ y # c => (Before(new, x, y) <=> Before(ms, x, y))

LEMMA NamedSame ==
  ASSUME NEW ms, NEW new, NEW c, NEW done, Named(ms, done), SameBut(ms, new, c), c \notin done,
         \A m \in RangeOf(new) : m.id = c /\ c \in Checkpoints => m.cid = c
  PROVE  Named(new, done)
<1> SUFFICES ASSUME NEW m \in RangeOf(new), m.id \in Checkpoints
             PROVE  m.cid = m.id \/ (m.cid \in done /\ Before(new, m.id, m.cid))
  BY DEF Named
<1>1. CASE m.id = c
  BY <1>1
<1>2. CASE m.id # c
  <2>1. m \in RangeOf(ms)
    BY <1>2 DEF SameBut
  <2>2. m.cid = m.id \/ (m.cid \in done /\ Before(ms, m.id, m.cid))
    BY <2>1 DEF Named
  <2> QED
    BY <1>2, <2>2 DEF SameBut
<1> QED
  BY <1>1, <1>2

LEMMA LedSame ==
  ASSUME NEW ms, NEW new, NEW c, NEW done, NEW S, Led(ms, done, S), SameBut(ms, new, c), c \notin done
  PROVE  Led(new, done, S)
<1>1. done \subseteq IdSet(new)
  BY DEF Led, SameBut
<1>2. \A x, y \in done : Before(new, x, y) <=> Before(ms, x, y)
  BY DEF SameBut
<1> QED
  BY <1>1, <1>2 DEF Led

LEMMA AppendSame ==
  ASSUME NEW ms \in Seq(Message), NEW m \in Message
  PROVE  SameBut(ms, Append(ms, m), m.id)
<1> DEFINE new == Append(ms, m)
<1>1. /\ Len(ms) \in Nat /\ DOMAIN ms = 1 .. Len(ms)
      /\ DOMAIN new = 1 .. Len(ms) + 1 /\ Len(new) = Len(ms) + 1
      /\ \A i \in 1 .. Len(ms) : new[i] = ms[i]
      /\ new[Len(ms) + 1] = m
  OBVIOUS
<1>2. \A i \in 1 .. Len(ms) + 1 : i \in 1 .. Len(ms) \/ i = Len(ms) + 1
  BY <1>1
<1>3. \A i \in 1 .. Len(ms) : i \in 1 .. Len(ms) + 1
  BY <1>1
<1> HIDE DEF new
<1>4. \A e \in RangeOf(new) : e.id # m.id => e \in RangeOf(ms)
  BY <1>1, <1>2 DEF RangeOf
<1>5. \A x : x # m.id => (x \in IdSet(new) <=> x \in IdSet(ms))
  BY <1>1, <1>2, <1>3 DEF IdSet
<1>6. \A x, y : x # m.id /\ y # m.id => (Before(new, x, y) <=> Before(ms, x, y))
  BY <1>1, <1>2, <1>3 DEF Before
<1> QED
  BY <1>4, <1>5, <1>6 DEF SameBut, new

LEMMA InsertSame ==
  ASSUME NEW ms \in Seq(Message), NEW c \in Checkpoints, NEW gen \in Nat, NEW k \in 0 .. Len(ms)
  PROVE  /\ SameBut(ms, InsertCheckpoint(ms, c, gen, k), c)
         /\ c \in IdSet(InsertCheckpoint(ms, c, gen, k))
         /\ c \notin IdSet(ms) =>
              \A m \in RangeOf(InsertCheckpoint(ms, c, gen, k)) : m.id = c => m.cid = c
<1> DEFINE new == InsertCheckpoint(ms, c, gen, k)
<1>1. /\ Len(ms) \in Nat /\ DOMAIN ms = 1 .. Len(ms) /\ k \in Nat /\ k <= Len(ms)
  OBVIOUS
<1>i. Inserted(ms, new, c, gen, k)
  BY InsertedIs
<1> HIDE DEF new
<1>2. /\ new \in Seq(Message) /\ Len(new) = Len(ms) + 1
      /\ \A i \in 1 .. k : new[i] = ms[i]
      /\ new[k + 1].id = c /\ new[k + 1].cid = c
      /\ \A i \in k + 2 .. Len(ms) + 1 : new[i] = ms[i - 1]
  BY <1>i DEF Inserted
<1>3. DOMAIN new = 1 .. Len(ms) + 1
  BY <1>2
<1> DEFINE old(i) == IF i <= k THEN i ELSE i - 1
           at(i) == IF i <= k THEN i ELSE i + 1
<1>4. \A i \in 1 .. Len(ms) + 1 : i = k + 1 \/ (old(i) \in 1 .. Len(ms) /\ new[i] = ms[old(i)])
  BY <1>1, <1>2
<1>5. \A i \in 1 .. Len(ms) : at(i) \in 1 .. Len(ms) + 1 /\ new[at(i)] = ms[i]
  BY <1>1, <1>2
<1>6. \A i, j \in 1 .. Len(ms) + 1 : i # k + 1 /\ j # k + 1 /\ i < j => old(i) < old(j)
  BY <1>1
<1>7. \A i, j \in 1 .. Len(ms) : i < j => at(i) < at(j)
  BY <1>1
<1> HIDE DEF old, at
<1>8. \A e \in RangeOf(new) : e.id # c => e \in RangeOf(ms)
  BY <1>1, <1>2, <1>3, <1>4 DEF RangeOf
<1>9. \A x : x # c => (x \in IdSet(new) <=> x \in IdSet(ms))
  <2>1. ASSUME NEW i \in DOMAIN new, new[i].id # c PROVE new[i].id \in IdSet(ms)
    <3>1. i # k + 1
      BY <1>2, <2>1
    <3>2. old(i) \in DOMAIN ms /\ new[i] = ms[old(i)]
      BY <1>1, <1>3, <1>4, <3>1
    <3> QED
      BY <3>2 DEF IdSet
  <2>2. ASSUME NEW i \in DOMAIN ms PROVE ms[i].id \in IdSet(new)
    <3>1. at(i) \in DOMAIN new /\ new[at(i)] = ms[i]
      BY <1>1, <1>3, <1>5
    <3> QED
      BY <3>1 DEF IdSet
  <2> QED
    BY <2>1, <2>2 DEF IdSet
<1>10. ASSUME NEW x, NEW y, x # c, y # c PROVE Before(new, x, y) <=> Before(ms, x, y)
  <2>1. ASSUME Before(new, x, y) PROVE Before(ms, x, y)
    <3>1. PICK i, j \in 1 .. Len(ms) + 1 : i < j /\ new[i].id = x /\ new[j].id = y
      BY <1>2, <2>1 DEF Before
    <3>2. i # k + 1 /\ j # k + 1
      BY <1>2, <1>10, <3>1
    <3> QED
      BY <1>4, <1>6, <3>1, <3>2 DEF Before
  <2>2. ASSUME Before(ms, x, y) PROVE Before(new, x, y)
    <3>1. PICK i, j \in 1 .. Len(ms) : i < j /\ ms[i].id = x /\ ms[j].id = y
      BY <2>2 DEF Before
    <3> QED
      BY <1>2, <1>5, <1>7, <3>1 DEF Before
  <2> QED
    BY <2>1, <2>2
<1>11. c \in IdSet(new)
  <2>1. k + 1 \in 1 .. Len(ms) + 1
    BY <1>1
  <2> QED
    BY <1>2, <1>3, <2>1 DEF IdSet
<1>12. ASSUME c \notin IdSet(ms), NEW m \in RangeOf(new), m.id = c PROVE m.cid = c
  <2>1. PICK i \in 1 .. Len(ms) + 1 : m = new[i]
    BY <1>3 DEF RangeOf
  <2>2. i = k + 1
    BY <1>1, <1>4, <1>12, <2>1 DEF IdSet
  <2> QED
    BY <1>2, <2>1, <2>2
<1> QED
  BY <1>8, <1>9, <1>10, <1>11, <1>12 DEF SameBut, new

LEMMA DropSame ==
  ASSUME NEW ms, NEW n, NEW b, Listed(ms, n, b), NEW id
  PROVE  SameBut(ms, Without(ms, id), id) /\ id \notin IdSet(Without(ms, id))
<1>1. ms \in Seq(Message) /\ Len(ms) \in Nat /\ DOMAIN ms = 1 .. Len(ms)
  BY DEF Listed
<1>2. CASE id \notin IdSet(ms)
  BY <1>2 DEF Without, SameBut
<1>3. CASE id \in IdSet(ms)
  <2>1. PICK k \in 1 .. Len(ms) : ms[k].id = id
    BY <1>1, <1>3 DEF IdSet
  <2>2. \A i \in 1 .. Len(ms) : ms[i].id = ms[k].id => i = k
    BY DEF Listed
  <2> DEFINE new == Without(ms, id)
             old(i) == IF i < k THEN i ELSE i + 1
             at(i) == IF i < k THEN i ELSE i - 1
  <2>3. /\ new \in Seq(Message) /\ Len(new) = Len(ms) - 1
        /\ \A i \in 1 .. Len(ms) - 1 : new[i] = ms[old(i)]
    BY <1>1, <2>1, <2>2, DroppedIs
  <2> HIDE DEF new
  <2>0. DOMAIN new = 1 .. Len(ms) - 1
    BY <2>3
  <2>4. \A i \in 1 .. Len(ms) - 1 : old(i) \in 1 .. Len(ms) /\ old(i) # k
    BY <1>1
  <2>5. \A i, j \in 1 .. Len(ms) - 1 : i < j => old(i) < old(j)
    BY <1>1
  <2>6. \A i \in 1 .. Len(ms) : i # k => at(i) \in 1 .. Len(ms) - 1 /\ old(at(i)) = i
    BY <1>1
  <2>7. \A i, j \in 1 .. Len(ms) : i # k /\ j # k /\ i < j => at(i) < at(j)
    BY <1>1
  <2> HIDE DEF old, at
  <2>8. \A e \in RangeOf(new) : e \in RangeOf(ms) /\ e.id # id
    BY <1>1, <2>0, <2>1, <2>2, <2>3, <2>4 DEF RangeOf
  <2>9. \A x : x # id => (x \in IdSet(new) <=> x \in IdSet(ms))
    <3>1. ASSUME NEW x, x \in IdSet(new) PROVE x \in IdSet(ms)
      BY <1>1, <2>0, <2>3, <2>4, <3>1 DEF IdSet
    <3>2. ASSUME NEW x, x # id, x \in IdSet(ms) PROVE x \in IdSet(new)
      <4>1. PICK i \in 1 .. Len(ms) : x = ms[i].id
        BY <1>1, <3>2 DEF IdSet
      <4>2. i # k
        BY <2>1, <3>2, <4>1
      <4>3. at(i) \in 1 .. Len(ms) - 1 /\ new[at(i)] = ms[i]
        BY <2>3, <2>6, <4>2
      <4> QED
        BY <2>0, <4>1, <4>3 DEF IdSet
    <3> QED
      BY <3>1, <3>2
  <2>10. id \notin IdSet(new)
    BY <2>0, <2>1, <2>2, <2>3, <2>4 DEF IdSet
  <2>11. ASSUME NEW x, NEW y, x # id, y # id PROVE Before(new, x, y) <=> Before(ms, x, y)
    <3>1. ASSUME Before(new, x, y) PROVE Before(ms, x, y)
      <4>1. PICK i, j \in 1 .. Len(ms) - 1 : i < j /\ new[i].id = x /\ new[j].id = y
        BY <2>3, <3>1 DEF Before
      <4> QED
        BY <2>3, <2>4, <2>5, <4>1 DEF Before
    <3>2. ASSUME Before(ms, x, y) PROVE Before(new, x, y)
      <4>1. PICK i, j \in 1 .. Len(ms) : i < j /\ ms[i].id = x /\ ms[j].id = y
        BY <3>2 DEF Before
      <4>2. i # k /\ j # k
        BY <2>1, <2>11, <4>1
      <4>3. /\ at(i) \in 1 .. Len(ms) - 1 /\ at(j) \in 1 .. Len(ms) - 1 /\ at(i) < at(j)
            /\ new[at(i)] = ms[i] /\ new[at(j)] = ms[j]
        BY <2>3, <2>6, <2>7, <4>1, <4>2
      <4> QED
        BY <2>3, <4>1, <4>3 DEF Before
    <3> QED
      BY <3>1, <3>2
  <2> QED
    BY <2>8, <2>9, <2>10, <2>11 DEF SameBut, new
<1> QED
  BY <1>2, <1>3

(* Only the name of a compaction, or its generation's number, is written.  *)
LEMMA RenamedSame ==
  ASSUME NEW ms \in Seq(Message), NEW new \in Seq(Message), Len(new) = Len(ms),
         \A i \in 1 .. Len(ms) : new[i].id = ms[i].id,
         NEW c, \A i \in 1 .. Len(ms) : ms[i].id # c => new[i] = ms[i]
  PROVE  /\ IdSet(new) = IdSet(ms)
         /\ \A x, y : Before(new, x, y) <=> Before(ms, x, y)
         /\ \A m \in RangeOf(new) : m.id # c => m \in RangeOf(ms)
<1>1. /\ DOMAIN ms = 1 .. Len(ms) /\ DOMAIN new = 1 .. Len(ms)
  OBVIOUS
<1>2. IdSet(new) = IdSet(ms)
  BY <1>1 DEF IdSet
<1>3. \A x, y : Before(new, x, y) <=> Before(ms, x, y)
  BY DEF Before
<1> QED
  BY <1>1, <1>2, <1>3 DEF RangeOf

(* Every other checkpoint stands before the last one, and none behind it.  *)
LEMMA LastOfAll ==
  ASSUME NEW ms, NEW n, NEW b, Listed(ms, n, b), NEW k, k = LatestCheckpoint(ms)
  PROVE  /\ ms \in Seq(Message) /\ k \in 0 .. Len(ms)
         /\ k # 0 => ms[k] \in RangeOf(ms) /\ ms[k].id \in Checkpoints /\ ms[k].id \in IdSet(ms)
         /\ \A y \in Checkpoints \cap IdSet(ms) : k # 0 /\ (y = ms[k].id \/ Before(ms, y, ms[k].id))
         /\ k # 0 => \A y \in Checkpoints : ~Before(ms, ms[k].id, y)
<1>1. /\ ms \in Seq(Message) /\ Len(ms) \in Nat /\ DOMAIN ms = 1 .. Len(ms)
      /\ \A i, j \in 1 .. Len(ms) : ms[i].id = ms[j].id => i = j
  BY DEF Listed
<1>2. /\ k \in 0 .. Len(ms) /\ (k # 0 => ms[k].id \in Checkpoints)
      /\ \A i \in 1 .. Len(ms) : ms[i].id \in Checkpoints => i <= k
  BY <1>1, LatestIs
<1>3. k # 0 => k \in 1 .. Len(ms)
  BY <1>1, <1>2
<1>4. k # 0 => ms[k] \in RangeOf(ms) /\ ms[k].id \in IdSet(ms)
  BY <1>1, <1>3 DEF RangeOf, IdSet
<1>5. ASSUME NEW y \in Checkpoints \cap IdSet(ms)
      PROVE  k # 0 /\ (y = ms[k].id \/ Before(ms, y, ms[k].id))
  <2>1. PICK i \in 1 .. Len(ms) : y = ms[i].id
    BY <1>1 DEF IdSet
  <2>2. i <= k /\ k # 0
    BY <1>1, <1>2, <2>1
  <2>3. i = k \/ i < k
    BY <1>1, <1>3, <2>2
  <2> QED
    BY <1>3, <2>1, <2>2, <2>3 DEF Before
<1>6. ASSUME k # 0, NEW y \in Checkpoints, Before(ms, ms[k].id, y) PROVE FALSE
  <2>1. PICK i, j \in 1 .. Len(ms) : i < j /\ ms[i].id = ms[k].id /\ ms[j].id = y
    BY <1>6 DEF Before
  <2>2. i = k /\ j <= k
    BY <1>1, <1>2, <1>3, <1>6, <2>1
  <2> QED
    BY <1>1, <1>3, <1>6, <2>1, <2>2
<1> QED
  BY <1>1, <1>2, <1>4, <1>5, <1>6

(* None of the nodes computed from a list stands before a checkpoint.      *)
LEMMA NodesBehind ==
  ASSUME NEW ms, NEW n, NEW b, Listed(ms, n, b), NEW z \in RangeOf(ComputeSurfaceNodes(ms))
  PROVE  /\ z \in IdSet(ms) /\ \A y \in Checkpoints : ~Before(ms, z, y)
         /\ z \in Checkpoints => LatestCheckpoint(ms) # 0 /\ z = ms[LatestCheckpoint(ms)].id
<1> DEFINE k == LatestCheckpoint(ms)
           a == IF k = 0 THEN 1 ELSE k
           nodes == ComputeSurfaceNodes(ms)
<1>1. /\ ms \in Seq(Message) /\ DOMAIN ms = 1 .. Len(ms)
      /\ \A i, j \in 1 .. Len(ms) : ms[i].id = ms[j].id => i = j
  BY DEF Listed
<1>2. /\ a \in Nat \ {0} /\ Len(ms) \in Nat
      /\ nodes \in Seq(Plain \cup Checkpoints) /\ Len(nodes) = Len(ms) - a + 1
      /\ \A i \in 1 .. Len(ms) - a + 1 : nodes[i] = ms[a + i - 1].id
  BY <1>1, NodesAt
<1>3. /\ k \in 0 .. Len(ms) /\ (k # 0 => a = k)
      /\ \A i \in 1 .. Len(ms) : ms[i].id \in Checkpoints => i <= k
  BY <1>1, LatestIs
<1>4. z \in Checkpoints => k # 0 /\ z = ms[k].id
  BY <1>1, NodesAre
<1> HIDE DEF k, a, nodes
<1>5. PICK i \in 1 .. Len(ms) - a + 1 : z = ms[a + i - 1].id
  <2>1. DOMAIN nodes = 1 .. Len(ms) - a + 1
    BY <1>2
  <2> QED
    BY <1>2, <2>1 DEF RangeOf, nodes
<1>6. a + i - 1 \in 1 .. Len(ms) /\ a <= a + i - 1
  BY <1>2, <1>5
<1>7. z \in IdSet(ms)
  BY <1>1, <1>5, <1>6 DEF IdSet
<1>8. ASSUME NEW y \in Checkpoints, Before(ms, z, y) PROVE FALSE
  <2>1. PICK j, l \in 1 .. Len(ms) : j < l /\ ms[j].id = z /\ ms[l].id = y
    BY <1>8 DEF Before
  <2>2. j = a + i - 1 /\ l <= k
    BY <1>1, <1>3, <1>5, <1>6, <2>1
  <2>3. k # 0 /\ a = k
    BY <1>2, <1>3, <2>1, <2>2
  <2> QED
    BY <1>2, <1>3, <1>6, <2>1, <2>2, <2>3
<1> QED
  BY <1>4, <1>7, <1>8 DEF k

(* What stands behind every commit's checkpoint was replaced by none.      *)
LEMMA BehindClear ==
  ASSUME NEW ms, NEW n, NEW b, Listed(ms, n, b), NEW cov, Stands(ms, cov),
         NEW done \in SUBSET Checkpoints, done \subseteq IdSet(ms),
         \A c \in done : \A x \in cov[c] : x \in Plain,
         NEW ids, \A z \in ids : z \in IdSet(ms) /\ \A y \in done : ~Before(ms, z, y)
  PROVE  \A c \in done : ids \cap cov[c] = {}
<1> SUFFICES ASSUME NEW c \in done, NEW z \in ids, z \in cov[c] PROVE FALSE
  OBVIOUS
<1>1. DOMAIN ms = 1 .. Len(ms) /\ z \in Plain
  BY DEF Listed
<1>2. PICK i, j \in 1 .. Len(ms) : ms[i].id = c /\ ms[j].id = z
  BY <1>1 DEF IdSet
<1>3. j < i
  BY <1>1, <1>2 DEF Stands
<1> QED
  BY <1>2, <1>3 DEF Before

LEMMA TopOnce ==
  ASSUME TablesNumbered, NEW x, NEW y, Top(surfaces, x), Top(surfaces, y)
  PROVE  x = y
<1>1. PICK t \in surfaces : \A u \in surfaces : u.gen <= t.gen
  BY DEF TablesNumbered, Top
<1> QED
  BY <1>1 DEF Top

(* A save keeps whose the latest generation is.                            *)
LEMMA SavedTop ==
  ASSUME TablesTyped, TablesNumbered, NEW s, NEW new \in Surface, Dominates(s), new.gen = SourceOf(s),
         new.cid = s.cid, NEW x, Top(surfaces, x), Top(surfaces, s.cid)
  PROVE  Top(Saved(new), x)
<1>1. x = s.cid
  BY TopOnce
<1>2. /\ \A u \in Saved(new) :
           \/ u = new \/ (u \in surfaces /\ u.gen # new.gen)
           \/ u.gen = new.gen /\ \E t \in surfaces : t.gen = u.gen /\ t.cid = u.cid
      /\ \A t \in surfaces : \E u \in Saved(new) : u.gen = t.gen /\ u.cid = t.cid
  BY SavedIs
<1>3. Saved(new) # {}
  BY <1>2 DEF Top
<1>4. \E u \in Saved(new) : u.gen = new.gen
  <2>1. CASE \E t \in surfaces : t.gen = new.gen
    BY <1>2, <2>1
  <2>2. CASE ~\E t \in surfaces : t.gen = new.gen
    BY <2>2 DEF Saved
  <2> QED
    BY <2>1, <2>2
<1>5. \A t \in surfaces : t.gen \in Nat /\ t.gen <= new.gen
  BY SurfaceFields DEF TablesTyped, Dominates
<1>6. new.gen \in Nat
  BY SurfaceFields
<1>7. ASSUME NEW u \in Saved(new), \A v \in Saved(new) : v.gen <= u.gen PROVE u.cid = x
  <2>1. new.gen <= u.gen
    BY <1>4, <1>7
  <2>2. CASE u = new
    BY <1>1, <2>2
  <2>3. CASE u \in surfaces /\ u.gen # new.gen
    BY <1>5, <1>6, <2>1, <2>3
  <2>4. CASE u.gen = new.gen /\ \E t \in surfaces : t.gen = u.gen /\ t.cid = u.cid
    <3>1. PICK t \in surfaces : t.gen = u.gen /\ t.cid = u.cid
      BY <2>4
    <3>2. \A v \in surfaces : v.gen <= t.gen
      BY <1>5, <2>4, <3>1
    <3> QED
      BY <1>1, <3>1, <3>2 DEF Top
  <2> QED
    BY <1>2, <2>2, <2>3, <2>4
<1> QED
  BY <1>3, <1>7 DEF Top

(* The nodes a save writes stand behind every commit's checkpoint, also    *)
(* when the last checkpoint is left out: if it is that of the generation,  *)
(* it carries its name.                                                    *)
LEMMA ProjectionBehind ==
  ASSUME TablesNumbered, NEW ms, NEW n, NEW b, Listed(ms, n, b), NEW done \in SUBSET Checkpoints,
         Named(ms, done), Led(ms, done, surfaces), NEW s, done # {} => Top(surfaces, s.cid),
         NEW z \in RangeOf(Projection(s, ms))
  PROVE  /\ z \in IdSet(ms) /\ \A y \in done : ~Before(ms, z, y)
         /\ z \in Checkpoints => LET k == LatestCheckpoint(ms)
                                 IN  k # 0 /\ ((z = ms[k].id /\ ms[k].cid = z) \/ Before(ms, z, ms[k].id))
<1> DEFINE k == LatestCheckpoint(ms)
           x == ms[k].id
           rest == Without(ms, x)
<1>1. /\ ms \in Seq(Message) /\ k \in 0 .. Len(ms)
      /\ k # 0 => ms[k] \in RangeOf(ms) /\ x \in Checkpoints /\ x \in IdSet(ms)
      /\ \A y \in Checkpoints \cap IdSet(ms) : k # 0 /\ (y = x \/ Before(ms, y, x))
      /\ k # 0 => \A y \in Checkpoints : ~Before(ms, x, y)
  BY LastOfAll
<1>2. k # 0 => ms[k].cid = x
  <2> SUFFICES ASSUME k # 0, ms[k].cid # x PROVE FALSE
    OBVIOUS
  <2>1. ms[k].cid \in done /\ Before(ms, x, ms[k].cid)
    BY <1>1 DEF Named
  <2> QED
    BY <1>1, <2>1
<1>3. CASE Projection(s, ms) = ComputeSurfaceNodes(ms)
  <2>1. /\ z \in IdSet(ms) /\ \A y \in Checkpoints : ~Before(ms, z, y)
        /\ z \in Checkpoints => k # 0 /\ z = x
    BY <1>3, NodesBehind
  <2> QED
    BY <1>2, <2>1
<1>4. CASE k # 0 /\ ~MatchesActive(s, ms[k]) /\ Projection(s, ms) = ComputeSurfaceNodes(rest)
  <2>1. Listed(rest, n, b) /\ SameBut(ms, rest, x) /\ x \notin IdSet(rest)
    BY WithoutListed, DropSame
  <2> HIDE DEF rest, x, k
  <2>2. z \in IdSet(rest) /\ \A y \in Checkpoints : ~Before(rest, z, y)
    BY <1>4, <2>1, NodesBehind
  <2>3. z # x /\ z \in IdSet(ms)
    BY <2>1, <2>2 DEF SameBut
  <2>4. x \notin done
    <3> SUFFICES ASSUME x \in done PROVE FALSE
      OBVIOUS
    <3>1. Top(surfaces, x)
      BY <1>1, <1>4 DEF Led
    <3>2. s.cid = x
      BY <3>1, TopOnce
    <3> QED
      BY <1>2, <1>4, <3>2 DEF MatchesActive
  <2>5. \A y \in done : ~Before(ms, z, y)
    BY <2>1, <2>2, <2>3, <2>4 DEF SameBut
  <2>6. z \in Checkpoints => Before(ms, z, x)
    BY <1>1, <2>3
  <2> QED
    BY <1>4, <2>3, <2>5, <2>6 DEF x, k
<1> QED
  BY <1>3, <1>4 DEF Projection

-----------------------------------------------------------------------------
(* The inductive invariant.                                                *)

Lists ==
  /\ \A ms \in Copies : Named(ms, Completed) /\ Led(ms, Completed, surfaces)
  /\ Chained
  /\ save.pc # "idle" => archive = Head(queue)

(* Every surface that may be served or written is good: the latest one,    *)
(* the cache once no commit's outcome is unknown, the save's, the turn's.  *)
Hands ==
  /\ Completed # {} => surfaces # {}
  /\ \A t \in surfaces : (\A u \in surfaces : u.gen <= t.gen) => Good(t)
  /\ cache # Forgotten /\ (\A c \in Checkpoints : ~Unseen(c)) => Good(cache)
  /\ save.pc \in {"loaded", "saved"} => Good(save.got)
  /\ turn.pc \in {"idle", "waiting", "loaded", "running"}
  /\ turn.pc = "loaded" => Good(turn.got)

(* What a compaction under way works on, and what may have come of it.     *)
Work(c) ==
  /\ comp[c].pc \in {"read", "returned", "verified"} => Good(comp[c].got)
  /\ comp[c].pc \in {"idle", "planned", "waiting", "read", "failing", "marked"} => c \notin Completed
  /\ comp[c].pc \in {"rejected", "verified"} /\ c \in Completed => ~Replied /\ Top(surfaces, c)
  /\ comp[c].pc = "planned" => comp[c].msgs = live
  /\ Pending(c) =>
       /\ comp[c].msgs = live /\ c \in IdSet(live)
       /\ IF queue # <<>> THEN queue[Len(queue)] = live ELSE archive = live
  /\ comp[c].pc = "waiting" => c \in inFlight

(* If none was inserted before another, only the last checkpoint of a list *)
(* is neither completed nor given up.                                      *)
Tip ==
  Plainly => \A ms \in Fresh : \A x \in IdSet(ms) \cap Checkpoints :
               x \notin Completed \cup Ended => \A y \in Checkpoints : ~Before(ms, x, y)

Ordered == Lists /\ Hands /\ Tip /\ \A c \in Checkpoints : Work(c)

RevInv == Upright => Ordered /\ bad.revived = {}

(* All that is known before a step of a session on the conditions of       *)
(* NothingRevived, and that nothing which happened is forgotten by it.     *)
Informed ==
  /\ IInv /\ TypeInv /\ Alone /\ Latest /\ StandInv /\ Owned /\ Ordered
  /\ Plainly \/ Prompt
  /\ Plainly' => Plainly
  /\ ~Replied => ~Replied'
  /\ Serial' /\ Calm({"archive refused"})'

GoodAfter(s) ==
  /\ Clear(s, Completed', surfaces', covers')
  /\ Plainly' => Firm(s, Completed' \cup Ended', Copies')

(* No commit, and what leaves a list is a checkpoint under way.            *)
Uncommitting ==
  /\ Completed' = Completed /\ (surfaces # {} => surfaces' # {})
  /\ Completed # {} => \A x : Top(surfaces, x) => Top(surfaces', x)
  /\ \A c \in Completed : covers'[c] = covers[c]
  /\ Ended \subseteq Ended'
  /\ \A ms \in Copies' : \E l \in Copies : \A x \in IdSet(l) :
       x \in IdSet(ms) \/ (x \in Checkpoints /\ x \notin Completed \cup Ended)

LEMMA GoodStays ==
  ASSUME Uncommitting, Plainly' => Plainly
  PROVE  \A s : Good(s) => GoodAfter(s)
<1> SUFFICES ASSUME NEW s, Good(s) PROVE GoodAfter(s)
  OBVIOUS
<1>1. Clear(s, Completed', surfaces', covers')
  BY DEF Uncommitting, Good, Clear
<1>2. ASSUME Plainly' PROVE Firm(s, Completed' \cup Ended', Copies')
  <2>1. RangeOf(s.nodes) \cap Checkpoints \subseteq Completed \cup Ended /\ Present(s, Copies)
    BY <1>2 DEF Good, Firm
  <2>2. Present(s, Copies')
    BY <2>1 DEF Present, Uncommitting
  <2> QED
    BY <2>1, <2>2 DEF Firm, Uncommitting
<1> QED
  BY <1>1, <1>2 DEF GoodAfter

LEMMA ListsKept ==
  ASSUME Lists, Uncommitting, Chained', save'.pc # "idle" => archive' = Head(queue'),
         \A ms \in Copies' : ms \in Copies \/ (Named(ms, Completed) /\ Led(ms, Completed, surfaces))
  PROVE  Lists'
<1>1. \A ms : Led(ms, Completed, surfaces) => Led(ms, Completed, surfaces')
  BY DEF Led, Uncommitting
<1> QED
  BY <1>1 DEF Lists, Uncommitting

LEMMA HandsKept ==
  ASSUME Hands, Uncommitting, Plainly' => Plainly,
         \A t \in surfaces' : (\A u \in surfaces' : u.gen <= t.gen) => Good(t) \/ GoodAfter(t),
         cache' # Forgotten /\ (\A c \in Checkpoints : ~Unseen(c)') => Good(cache') \/ GoodAfter(cache'),
         save'.pc \in {"loaded", "saved"} => Good(save'.got) \/ GoodAfter(save'.got),
         turn'.pc \in {"idle", "waiting", "loaded", "running"},
         turn'.pc = "loaded" => Good(turn'.got) \/ GoodAfter(turn'.got)
  PROVE  Hands'
<1>1. \A s : Good(s) => GoodAfter(s)
  BY GoodStays
<1>2. \A t \in surfaces' : (\A u \in surfaces' : u.gen <= t.gen) => GoodAfter(t)
  BY <1>1
<1>3. cache' # Forgotten /\ (\A c \in Checkpoints : ~Unseen(c)') => GoodAfter(cache')
  BY <1>1
<1>4. save'.pc \in {"loaded", "saved"} => GoodAfter(save'.got)
  BY <1>1
<1>5. turn'.pc = "loaded" => GoodAfter(turn'.got)
  BY <1>1
<1>6. Completed' # {} => surfaces' # {}
  BY DEF Hands, Uncommitting
<1> QED
  BY <1>2, <1>3, <1>4, <1>5, <1>6 DEF Hands, Good, GoodAfter

LEMMA WorkKept ==
  ASSUME NEW c \in Checkpoints, Work(c), Uncommitting, Plainly' => Plainly, ~Replied => ~Replied',
         comp'[c].pc = comp[c].pc, comp'[c].got = comp[c].got, comp'[c].msgs = comp[c].msgs,
         UNCHANGED live,
         Pending(c) => IF queue' # <<>> THEN queue'[Len(queue')] = live ELSE archive' = live,
         comp[c].pc = "waiting" => c \in inFlight'
  PROVE  Work(c)'
<1>1. \A s : Good(s) => GoodAfter(s)
  BY GoodStays
<1>2. comp'[c].pc \in {"read", "returned", "verified"} => Good(comp[c].got)'
  BY <1>1 DEF Work, Good, GoodAfter
<1> QED
  BY <1>2 DEF Work, Uncommitting, Pending

LEMMA WorkQuiet ==
  ASSUME NEW c \in Checkpoints, comp'[c].pc \in {"idle", "over"}, comp'[c].pc = "idle" => c \notin Completed'
  PROVE  Work(c)'
BY DEF Work, Pending

LEMMA TipKept ==
  ASSUME Tip, Plainly' => Plainly, Completed \subseteq Completed', Ended \subseteq Ended',
         \A ms \in Fresh' : \E l \in Fresh : \A x \in IdSet(ms) \cap Checkpoints :
           /\ x \in IdSet(l) /\ \A y \in Checkpoints : Before(ms, x, y) => Before(l, x, y)
  PROVE  Tip'
BY DEF Tip

-----------------------------------------------------------------------------
(* The save queue.                                                         *)

LEMMA JobDoneOrdered ==
  ASSUME Informed, save.pc # "idle", JobDone, UNCHANGED <<live, archive, rows, inFlight, covers>>,
         surfaces # {} => surfaces' # {}, Completed # {} => \A x : Top(surfaces, x) => Top(surfaces', x),
         \A t \in surfaces' : (\A u \in surfaces' : u.gen <= t.gen) => Good(t) \/ GoodAfter(t),
         cache' # Forgotten => Good(cache') \/ GoodAfter(cache')
  PROVE  Ordered'
<1> USE DEF Informed, IInv, CallsShaped
<1>1. /\ queue' = Tail(queue) /\ save' = [pc |-> "idle", got |-> NoSurface]
      /\ turn' = [turn EXCEPT !.ahead = Less(@)]
      /\ comp' = [c \in Checkpoints |-> [comp[c] EXCEPT !.ahead = Less(@)]]
  BY DEF JobDone
<1>2. \A c \in Checkpoints :
        comp'[c].pc = comp[c].pc /\ comp'[c].got = comp[c].got /\ comp'[c].msgs = comp[c].msgs
  BY <1>1
<1>3. turn'.got = turn.got /\ turn'.pc = turn.pc /\ save'.pc = "idle"
  BY <1>1
<1>4. Ended' = Ended /\ Completed' = Completed
  BY <1>2 DEF Ended, Completed
<1>5. queue \in Seq(Seq(Message)) /\ queue # <<>> /\ archive = Head(queue)
  BY CopiesListed DEF Alone, Ordered, Lists
<1>6. /\ Chained' /\ Fresh' \subseteq Fresh
      /\ queue' # <<>> => queue'[Len(queue')] = queue[Len(queue)]
      /\ queue' = <<>> => archive = queue[Len(queue)]
  BY <1>1, <1>5, QueueShrinks DEF Ordered, Lists
<1>7. Copies' \subseteq Copies
  BY <1>6 DEF Copies
<1>8. Uncommitting
  BY <1>4, <1>7 DEF Uncommitting
<1>9. Lists'
  BY <1>3, <1>6, <1>7, <1>8, ListsKept DEF Ordered
<1>10. Hands'
  <2>1. turn'.pc \in {"idle", "waiting", "loaded", "running"} /\ (turn'.pc = "loaded" => Good(turn'.got))
    BY <1>3 DEF Ordered, Hands
  <2> QED
    BY <1>3, <1>8, <2>1, HandsKept DEF Ordered
<1>11. Tip'
  BY <1>4, <1>6, TipKept DEF Ordered
<1>12. ASSUME NEW c \in Checkpoints PROVE Work(c)'
  <2>1. Pending(c) => IF queue' # <<>> THEN queue'[Len(queue')] = live ELSE archive' = live
    BY <1>5, <1>6 DEF Ordered, Work
  <2>2. comp[c].pc = "waiting" => c \in inFlight'
    BY DEF Ordered, Work
  <2> QED
    BY <1>2, <1>8, <2>1, <2>2, WorkKept DEF Ordered
<1> QED
  BY <1>9, <1>10, <1>11, <1>12 DEF Ordered

(* A step of a job before its last one.                                    *)
LEMMA JobOrdered ==
  ASSUME Informed, queue # <<>>, UNCHANGED <<live, queue, rows, comp, turn, inFlight, covers>>,
         archive' = Head(queue), surfaces # {} => surfaces' # {},
         Completed # {} => \A x : Top(surfaces, x) => Top(surfaces', x),
         \A t \in surfaces' : (\A u \in surfaces' : u.gen <= t.gen) => Good(t) \/ GoodAfter(t),
         cache' # Forgotten => Good(cache') \/ GoodAfter(cache'),
         save'.pc \in {"loaded", "saved"} => Good(save'.got) \/ GoodAfter(save'.got)
  PROVE  Ordered'
<1>0. \A q \in Seq(Seq(Message)) : q # <<>> => Head(q) = q[1] /\ 1 \in 1 .. Len(q)
  OBVIOUS
<1> USE DEF Informed
<1>1. Ended' = Ended /\ Completed' = Completed /\ Fresh' = Fresh
  BY DEF Ended, Completed, Fresh
<1>2. queue \in Seq(Seq(Message)) /\ Fresh \subseteq Copies
  BY CopiesListed
<1>3. Head(queue) = queue[1] /\ 1 \in 1 .. Len(queue)
  BY <1>0, <1>2
<1>4. archive' \in Fresh /\ Copies' \subseteq Copies
  BY <1>1, <1>3 DEF Fresh, Copies
<1>5. Uncommitting
  BY <1>1, <1>4 DEF Uncommitting
<1>6. Lists'
  <2>1. Chained'
    BY DEF Ordered, Lists, Chained
  <2> QED
    BY <1>4, <1>5, <2>1, ListsKept DEF Ordered
<1>7. Hands'
  <2>1. turn'.pc \in {"idle", "waiting", "loaded", "running"} /\ (turn'.pc = "loaded" => Good(turn'.got))
    BY DEF Ordered, Hands
  <2> QED
    BY <1>5, <2>1, HandsKept DEF Ordered
<1>8. Tip'
  BY <1>1, TipKept DEF Ordered
<1>9. ASSUME NEW c \in Checkpoints PROVE Work(c)'
  <2>1. Pending(c) => IF queue' # <<>> THEN queue'[Len(queue')] = live ELSE archive' = live
    BY DEF Ordered, Work
  <2>2. comp[c].pc = "waiting" => c \in inFlight'
    BY DEF Ordered, Work
  <2> QED
    BY <1>5, <2>1, <2>2, WorkKept DEF Ordered
<1> QED
  BY <1>6, <1>7, <1>8, <1>9 DEF Ordered

LEMMA LoadGood ==
  ASSUME Hands, TablesNumbered
  PROVE  Good(LoadLatest)
<1>1. CASE surfaces # {}
  <2>1. LoadLatest \in surfaces /\ \A t \in surfaces : t.gen <= LoadLatest.gen
    BY <1>1 DEF TablesNumbered, LoadLatest, OneOf
  <2> QED
    BY <2>1 DEF Hands
<1>2. CASE surfaces = {}
  <2>1. LoadLatest = NoSurface /\ Completed = {}
    BY <1>2 DEF LoadLatest, OneOf, Hands
  <2>2. RangeOf(NoSurface.nodes) = {}
    BY DEF NoSurface, RangeOf
  <2> QED
    BY <2>1, <2>2 DEF Good, Clear, Firm, Present
<1> QED
  BY <1>1, <1>2

(* What a save writes.                                                     *)
LEMMA WriteGood ==
  ASSUME Informed, queue # <<>>, archive = Head(queue), ~Skipped(Head(queue)),
         NEW s \in Given, Good(s), Dominates(s),
         NEW new \in Surface, new.gen = SourceOf(s), new.cid = s.cid, new.nodes = Projection(s, Head(queue)),
         surfaces' = Saved(new), Completed' = Completed, UNCHANGED covers, Ended' = Ended, Copies' \subseteq Copies
  PROVE  /\ surfaces' # {}
         /\ Completed # {} => \A x : Top(surfaces, x) => Top(surfaces', x)
         /\ \A t \in surfaces' : (\A u \in surfaces' : u.gen <= t.gen) => GoodAfter(t)
         /\ GoodAfter(new)
<1> DEFINE ms == Head(queue)
           k == LatestCheckpoint(ms)
<1>1. /\ TablesTyped /\ TablesNumbered /\ Completed \in SUBSET Checkpoints
  BY DEF Informed, TypeInv, Latest, Completed
<1>2. queue \in Seq(Seq(Message)) /\ Fresh \subseteq Copies
  BY CopiesListed DEF Informed
<1>3. /\ Head(queue) = queue[1] /\ 1 \in 1 .. Len(queue)
  BY <1>2
<1>4. /\ ms \in Fresh /\ ms \in Copies /\ Listed(ms, sent, Begun)
      /\ Named(ms, Completed) /\ Led(ms, Completed, surfaces) /\ Stands(ms, covers)
  <2>1. ms \in Fresh
    BY <1>3 DEF Fresh
  <2>2. Listed(ms, sent, Begun)
    BY <1>2, <2>1, CopiesListed DEF Informed
  <2>3. Stands(ms, covers)
    BY <1>3 DEF Informed, StandInv
  <2> QED
    BY <1>2, <2>1, <2>2, <2>3 DEF Informed, Ordered, Lists
<1>5. Completed # {} => Top(surfaces, s.cid)
  BY DEF Good, Clear
<1>6. Completed # {} => \A x : Top(surfaces, x) => Top(surfaces', x)
  BY <1>1, <1>5, SavedTop
<1> HIDE DEF ms
<1>7. \A z \in RangeOf(new.nodes) :
        /\ z \in IdSet(ms) /\ \A y \in Completed : ~Before(ms, z, y)
        /\ z \in Checkpoints => k # 0 /\ ((z = ms[k].id /\ ms[k].cid = z) \/ Before(ms, z, ms[k].id))
  BY <1>1, <1>4, <1>5, ProjectionBehind DEF ms
<1>8. \A c \in Completed : RangeOf(new.nodes) \cap covers[c] = {}
  <2>1. Completed \subseteq IdSet(ms)
    BY <1>4 DEF Led
  <2>2. \A c \in Completed : \A x \in covers[c] : x \in Plain
    BY DEF Informed, StandInv, Completed
  <2> QED
    BY <1>1, <1>4, <1>7, <2>1, <2>2, BehindClear
<1>9. ASSUME Plainly', NEW z \in RangeOf(new.nodes), z \in Checkpoints PROVE z \in Completed \cup Ended
  <2> SUFFICES ASSUME z \notin Completed \cup Ended PROVE FALSE
    OBVIOUS
  <2>1. \A y \in Checkpoints : ~Before(ms, z, y)
    BY <1>4, <1>7, <1>9 DEF Informed, Ordered, Tip
  <2>2. k # 0 /\ ms[k].id \in Checkpoints
    <3>1. k # 0
      BY <1>7, <1>9
    <3> QED
      BY <1>4, <3>1, LastOfAll
  <2>3. ms[k].cid = z
    BY <1>7, <1>9, <2>1, <2>2
  <2>4. z \notin inFlight
    BY <2>2, <2>3 DEF Skipped, ms
  <2>5. z \in Begun
    <3>1. z \notin Plain
      BY <1>9, SurfaceConstants DEF Plain
    <3>2. DOMAIN ms = 1 .. Len(ms)
      BY <1>4 DEF Listed
    <3> QED
      BY <1>4, <1>7, <3>1, <3>2 DEF Listed, IdSet
  <2>6. Pending(z) /\ comp[z].pc # "waiting"
    BY <1>9, <2>4, <2>5 DEF Begun, Ended, Pending, Informed, Ordered, Work
  <2> QED
    BY <1>9, <2>6 DEF Informed, Alone
<1>10. Present(new, Copies')
  <2>1. \A l \in Copies : IdSet(ms) \subseteq IdSet(l)
    <3>1. \A n \in 1 .. Len(queue) : 1 <= n
      OBVIOUS
    <3>2. \A n \in 1 .. Len(queue) : IdSet(ms) \subseteq IdSet(queue[n])
      BY <1>3, <3>1 DEF Informed, Ordered, Lists, Chained, ms
    <3>3. IdSet(ms) \subseteq IdSet(live) /\ IdSet(ms) \subseteq IdSet(archive)
      BY <1>3 DEF Informed, Ordered, Lists, Chained, ms
    <3> QED
      BY <3>2, <3>3 DEF Copies, Fresh
  <2> QED
    BY <1>7, <2>1 DEF Present
<1>11. \A t : t.cid = new.cid /\ t.nodes = new.nodes => GoodAfter(t)
  <2> SUFFICES ASSUME NEW t, t.cid = new.cid, t.nodes = new.nodes PROVE GoodAfter(t)
    OBVIOUS
  <2>1. Clear(t, Completed', surfaces', covers')
    BY <1>5, <1>6, <1>8 DEF Clear
  <2>2. Plainly' => Firm(t, Completed' \cup Ended', Copies')
    BY <1>9, <1>10 DEF Firm, Present
  <2> QED
    BY <2>1, <2>2 DEF GoodAfter
<1>12. ASSUME NEW t \in surfaces', \A u \in surfaces' : u.gen <= t.gen PROVE GoodAfter(t)
  <2>1. \/ t = new
        \/ t \in surfaces /\ t.gen # new.gen
        \/ /\ t.gen = new.gen /\ t.nodes = new.nodes
           /\ \E u \in surfaces : u.gen = t.gen /\ u.cid = t.cid
    BY <1>1, SavedIs
  <2>2. \E u \in surfaces' : u.gen = new.gen
    <3>1. CASE \E u \in surfaces : u.gen = new.gen
      BY <1>1, <3>1, SavedIs
    <3>2. CASE ~\E u \in surfaces : u.gen = new.gen
      BY <3>2 DEF Saved
    <3> QED
      BY <3>1, <3>2
  <2>3. new.gen <= t.gen /\ new.gen \in Nat /\ \A u \in surfaces : u.gen \in Nat /\ u.gen <= new.gen
    BY <1>1, <1>12, <2>2, SurfaceFields DEF Dominates, TablesTyped
  <2>4. CASE t = new
    BY <1>11, <2>4
  <2>5. CASE t \in surfaces /\ t.gen # new.gen
    BY <2>3, <2>5
  <2>6. CASE /\ t.gen = new.gen /\ t.nodes = new.nodes
             /\ \E u \in surfaces : u.gen = t.gen /\ u.cid = t.cid
    <3>1. CASE Completed # {}
      <4>1. PICK u \in surfaces : u.gen = t.gen /\ u.cid = t.cid
        BY <2>6
      <4>2. \A v \in surfaces : v.gen <= u.gen
        BY <2>3, <2>6, <4>1
      <4>3. u.cid = s.cid
        BY <1>5, <3>1, <4>1, <4>2 DEF Top
      <4> QED
        BY <1>11, <2>6, <4>1, <4>3
    <3>2. CASE Completed = {}
      <4>1. Clear(t, Completed', surfaces', covers')
        BY <3>2 DEF Clear
      <4>2. Plainly' => Firm(t, Completed' \cup Ended', Copies')
        BY <1>9, <1>10, <2>6 DEF Firm, Present
      <4> QED
        BY <4>1, <4>2 DEF GoodAfter
    <3> QED
      BY <3>1, <3>2
  <2> QED
    BY <2>1, <2>4, <2>5, <2>6
<1>13. surfaces' # {}
  BY <1>1, SavedIs DEF Saved
<1> QED
  BY <1>6, <1>11, <1>12, <1>13

LEMMA MaintainOrdered ==
  ASSUME Informed, save.pc # "idle", NEW s \in Given, Dominates(s), Good(s), MaintainWith(s),
         UNCHANGED <<live, archive, rows, inFlight, covers>>, cache' = cache \/ cache' = s,
         cache # Forgotten => Good(cache)
  PROVE  Ordered'
<1> DEFINE new == [gen |-> IF s.gen = NoGen THEN 0 ELSE s.gen,
                   parent |-> s.parent, cid |-> s.cid, nodes |-> Projection(s, Head(queue))]
<1>1. queue \in Seq(Seq(Message)) /\ queue # <<>> /\ archive = Head(queue)
  BY CopiesListed DEF Informed, Alone, Ordered, Lists
<1>2. /\ new \in Surface /\ new.gen = SourceOf(s) /\ new.cid = s.cid
      /\ new.nodes = Projection(s, Head(queue))
  <2>1. Head(queue) \in Seq(Message)
    BY <1>1, HeadTailProperties
  <2>2. Projection(s, Head(queue)) \in Seq(Plain \cup Checkpoints)
    BY <2>1, ProjectionTyped
  <2>3. (IF s.gen = NoGen THEN 0 ELSE s.gen) \in Nat
    BY SurfaceFields
  <2>4. new \in Surface
    BY <2>2, <2>3, SurfaceFields
  <2> QED
    BY <2>4 DEF SourceOf
<1>3. \/ JobDone /\ surfaces' = surfaces
      \/ /\ ~Skipped(Head(queue)) /\ surfaces' = Saved(new)
         /\ JobDone \/ (save' = [pc |-> "saved", got |-> new] /\ UNCHANGED <<queue, comp, turn>>)
  BY DEF MaintainWith
<1> HIDE DEF new
<1>4. CASE JobDone /\ surfaces' = surfaces
  <2>1. \A t \in surfaces' : (\A u \in surfaces' : u.gen <= t.gen) => Good(t)
    BY <1>4 DEF Informed, Ordered, Hands
  <2> QED
    BY <1>4, <2>1, JobDoneOrdered
<1>5. CASE /\ ~Skipped(Head(queue)) /\ surfaces' = Saved(new)
           /\ JobDone \/ (save' = [pc |-> "saved", got |-> new] /\ UNCHANGED <<queue, comp, turn>>)
  <2>1. Completed' = Completed /\ Fresh \subseteq Copies
    BY DEF Completed, Copies
  <2>2. Ended' = Ended
    <3>1. \A c \in Checkpoints : comp'[c].pc = comp[c].pc
      BY <1>5 DEF JobDone, Informed, IInv, CallsShaped
    <3> QED
      BY <3>1 DEF Ended
  <2>3. Copies' \subseteq Copies
    <3>1. Fresh' \subseteq Fresh
      <4>1. CASE queue' = queue
        BY <4>1 DEF Fresh
      <4>2. CASE queue' = Tail(queue)
        BY <1>1, <4>2, QueueShrinks DEF Informed, Ordered, Lists
      <4> QED
        BY <1>5, <4>1, <4>2 DEF JobDone
    <3> QED
      BY <3>1 DEF Copies
  <2>4. /\ surfaces' # {}
        /\ Completed # {} => \A x : Top(surfaces, x) => Top(surfaces', x)
        /\ \A t \in surfaces' : (\A u \in surfaces' : u.gen <= t.gen) => GoodAfter(t)
        /\ GoodAfter(new)
    BY <1>1, <1>2, <1>5, <2>1, <2>2, <2>3, WriteGood
  <2>5. cache' # Forgotten => Good(cache')
    OBVIOUS
  <2>6. CASE JobDone
    BY <2>4, <2>5, <2>6, JobDoneOrdered
  <2>7. CASE save' = [pc |-> "saved", got |-> new] /\ UNCHANGED <<queue, comp, turn>>
    <3>1. save'.got = new
      BY <2>7
    <3> QED
      BY <1>1, <2>4, <2>5, <2>7, <3>1, JobOrdered
  <2> QED
    BY <1>5, <2>6, <2>7
<1> QED
  BY <1>3, <1>4, <1>5

LEMMA SaveOrdered ==
  ASSUME Informed, SaveStep
  PROVE  Ordered'
<1> USE DEF db
<1>0. UNCHANGED covers
  BY DEF SaveStep, SaveArchive, Maintain, MaintainLoaded, Maintained
<1>1. \A t \in surfaces : (\A u \in surfaces : u.gen <= t.gen) => Good(t)
  BY DEF Informed, Ordered, Hands
<1>2. queue # <<>> /\ cache # Forgotten => Dominates(cache) /\ Good(cache)
  <2> SUFFICES ASSUME queue # <<>>, cache # Forgotten PROVE Dominates(cache) /\ Good(cache)
    OBVIOUS
  <2>1. \A c \in Checkpoints : ~Unseen(c)
    BY DEF Informed, Alone, Pending, Unseen
  <2> QED
    BY <2>1 DEF Informed, Latest, Ordered, Hands
<1>3. CASE SaveArchive
  <2>0. ~Happens("archive refused")
    <3> SUFFICES ASSUME Happens("archive refused") PROVE FALSE
      OBVIOUS
    <3>1. PICK n : <<"archive refused", n>> \in upset'
      BY DEF Happens
    <3>2. <<"archive refused", n>>[1] = "archive refused"
      OBVIOUS
    <3> QED
      BY <3>1, <3>2 DEF Informed, Calm
  <2>1. /\ save.pc = "idle" /\ queue # <<>> /\ save' = [save EXCEPT !.pc = "archived"]
        /\ UNCHANGED <<surfaces, rows, live, cache, inFlight, queue, comp, turn>>
        /\ archive' = Head(queue)
    BY <1>3, <2>0 DEF SaveArchive
  <2>2. save'.pc = "archived"
    BY <2>1 DEF Informed, IInv
  <2> QED
    BY <1>0, <1>1, <1>2, <2>1, <2>2, JobOrdered
<1>4. CASE Maintain
  <2>1. save.pc = "archived" /\ UNCHANGED <<live, archive, rows, cache, inFlight>>
    BY <1>4 DEF Maintain
  <2>2. queue # <<>> /\ archive = Head(queue)
    BY <2>1 DEF Informed, Alone, Ordered, Lists
  <2>4. CASE cache = Forgotten
    <3>1. UNCHANGED surfaces
      BY <1>4, <2>4 DEF Maintain
    <3>2. CASE JobDone
      BY <1>0, <1>1, <2>1, <2>4, <3>1, <3>2, JobDoneOrdered
    <3>3. CASE save' = [pc |-> "loaded", got |-> LoadLatest] /\ UNCHANGED <<queue, comp, turn>>
      <4>1. save'.got = LoadLatest
        BY <3>3
      <4>2. Good(LoadLatest)
        BY LoadGood DEF Informed, Latest, Ordered
      <4> QED
        BY <1>0, <1>1, <2>1, <2>2, <2>4, <3>1, <3>3, <4>1, <4>2, JobOrdered
    <3> QED
      BY <1>4, <2>4, <3>2, <3>3 DEF Maintain
  <2>5. CASE cache # Forgotten
    <3>1. MaintainWith(cache)
      BY <1>4, <2>5 DEF Maintain
    <3>2. cache \in Given
      BY <2>5 DEF Informed, TypeInv, TablesTyped
    <3> QED
      BY <1>0, <1>2, <2>1, <2>2, <2>5, <3>1, <3>2, MaintainOrdered
  <2> QED
    BY <2>4, <2>5
<1>5. CASE MaintainLoaded
  <2>1. /\ save.pc = "loaded" /\ UNCHANGED <<live, archive, rows, inFlight>>
        /\ cache' = save.got /\ MaintainWith(save.got)
    BY <1>5 DEF MaintainLoaded
  <2>2. save.got \in Given /\ Dominates(save.got) /\ Good(save.got) /\ queue # <<>>
    BY <2>1 DEF Informed, TypeInv, SaveTyped, Latest, Ordered, Hands
  <2> QED
    BY <1>0, <1>2, <2>1, <2>2, MaintainOrdered
<1>6. CASE Maintained
  <2>1. /\ save.pc = "saved" /\ cache' = save.got /\ JobDone
        /\ UNCHANGED <<archive, surfaces, rows, live, inFlight>>
    BY <1>6 DEF Maintained, Remember
  <2>2. Good(save.got)
    BY <2>1 DEF Informed, Ordered, Hands
  <2> QED
    BY <1>0, <1>1, <2>1, <2>2, JobDoneOrdered
<1> QED
  BY <1>3, <1>4, <1>5, <1>6 DEF SaveStep

-----------------------------------------------------------------------------
(* A turn gets its history.                                                *)

LEMMA EffectiveIn ==
  ASSUME NEW S, NEW nodes \in Seq(S)
  PROVE  RangeOf(Effective(nodes)) \subseteq RangeOf(nodes)
<1> DEFINE at == {i \in DOMAIN nodes : nodes[i] \in Checkpoints}
           m == CHOOSE i \in at : \A j \in at : j <= i
<1>1. Len(nodes) \in Nat /\ DOMAIN nodes = 1 .. Len(nodes)
  OBVIOUS
<1>2. CASE at = {}
  BY <1>2 DEF Effective
<1>3. CASE at # {}
  <2>1. \E i \in at : \A j \in at : j <= i
    BY <1>1, <1>3, HasLast
  <2>2. m \in 1 .. Len(nodes)
    BY <1>1, <2>1
  <2>3. Effective(nodes) = SubSeq(nodes, m, Len(nodes))
    BY <1>3 DEF Effective
  <2> HIDE DEF m, at
  <2>4. \A i \in m .. Len(nodes) : nodes[i] \in S
    BY <1>1, <2>2
  <2>5. /\ SubSeq(nodes, m, Len(nodes)) \in Seq(S)
        /\ Len(SubSeq(nodes, m, Len(nodes))) = Len(nodes) - m + 1
        /\ \A i \in 1 .. Len(nodes) - m + 1 : SubSeq(nodes, m, Len(nodes))[i] = nodes[m + i - 1]
    BY <1>1, <2>2, <2>4, SubSeqProperties
  <2>6. DOMAIN SubSeq(nodes, m, Len(nodes)) = 1 .. Len(nodes) - m + 1
    BY <2>5
  <2>7. \A i \in 1 .. Len(nodes) - m + 1 : m + i - 1 \in 1 .. Len(nodes)
    BY <1>1, <2>2
  <2> QED
    BY <1>1, <2>3, <2>5, <2>6, <2>7 DEF RangeOf
<1> QED
  BY <1>2, <1>3

(* The messages themselves, from the last checkpoint on.                   *)
LEMMA WholeBehind ==
  ASSUME NEW ms, NEW n, NEW b, Listed(ms, n, b), NEW z \in RangeOf(Effective(IdsOf(ms)))
  PROVE  z \in IdSet(ms) /\ \A y \in Checkpoints : ~Before(ms, z, y)
<1> DEFINE ids == IdsOf(ms)
           k == LatestCheckpoint(ms)
<1>1. /\ ms \in Seq(Message) /\ Len(ms) \in Nat /\ DOMAIN ms = 1 .. Len(ms)
      /\ \A i, j \in 1 .. Len(ms) : ms[i].id = ms[j].id => i = j
      /\ \A i \in 1 .. Len(ms) : ms[i].id \in Plain \cup Checkpoints
  BY DEF Listed, Message, Messages
<1>2. /\ k \in 0 .. Len(ms) /\ \A i \in 1 .. Len(ms) : ms[i].id \in Checkpoints => i <= k
  BY <1>1, LatestIs
<1>3. ids = [i \in 1 .. Len(ms) |-> ms[i].id]
  BY <1>1 DEF IdsOf
<1>4. /\ ids \in Seq(Plain \cup Checkpoints) /\ DOMAIN ids = 1 .. Len(ms) /\ Len(ids) = Len(ms)
      /\ \A i \in 1 .. Len(ms) : ids[i] = ms[i].id
  BY <1>1, <1>3
<1>5. {i \in DOMAIN ids : ids[i] \in Checkpoints} = {i \in DOMAIN ms : ms[i].id \in Checkpoints}
  BY <1>1, <1>4
<1>6. Effective(ids) = IF k = 0 THEN ids ELSE SubSeq(ids, k, Len(ids))
  <2> DEFINE at == {i \in DOMAIN ms : ms[i].id \in Checkpoints}
             here == {i \in DOMAIN ids : ids[i] \in Checkpoints}
  <2>0. Effective(ids) = IF here = {} THEN ids ELSE SubSeq(ids, CHOOSE i \in here : \A j \in here : j <= i, Len(ids))
    BY DEF Effective
  <2>1. Effective(ids) = IF at = {} THEN ids ELSE SubSeq(ids, CHOOSE i \in at : \A j \in at : j <= i, Len(ids))
    <3>1. here = at
      BY <1>5
    <3> HIDE DEF at, here, ids
    <3> QED
      BY <2>0, <3>1
  <2>2. k = IF at = {} THEN 0 ELSE CHOOSE i \in at : \A j \in at : j <= i
    BY DEF LatestCheckpoint
  <2>3. at # {} => k # 0
    BY <1>1, <1>2
  <2> HIDE DEF at, k
  <2> QED
    BY <2>1, <2>2, <2>3
<1> HIDE DEF ids, k
<1>7. PICK j \in 1 .. Len(ms) : z = ms[j].id /\ k <= j
  <2>1. CASE k = 0
    BY <1>1, <1>4, <1>6, <2>1 DEF RangeOf, ids
  <2>2. CASE k # 0
    <3>1. k \in 1 .. Len(ms)
      BY <1>1, <1>2, <2>2
    <3>2. \A i \in k .. Len(ids) : ids[i] \in Plain \cup Checkpoints
      BY <1>1, <1>4, <3>1
    <3>3. /\ SubSeq(ids, k, Len(ids)) \in Seq(Plain \cup Checkpoints)
          /\ Len(SubSeq(ids, k, Len(ids))) = Len(ms) - k + 1
          /\ \A i \in 1 .. Len(ms) - k + 1 : SubSeq(ids, k, Len(ids))[i] = ids[k + i - 1]
      BY <1>1, <1>4, <3>1, <3>2, SubSeqProperties
    <3>4. DOMAIN SubSeq(ids, k, Len(ids)) = 1 .. Len(ms) - k + 1
      BY <3>3
    <3>5. PICK i \in 1 .. Len(ms) - k + 1 : z = SubSeq(ids, k, Len(ids))[i]
      BY <1>6, <2>2, <3>4 DEF RangeOf, ids
    <3>6. k + i - 1 \in 1 .. Len(ms) /\ k <= k + i - 1
      BY <1>1, <3>1, <3>5
    <3> QED
      BY <1>4, <3>3, <3>5, <3>6
  <2> QED
    BY <2>1, <2>2
<1>8. z \in IdSet(ms)
  BY <1>1, <1>7 DEF IdSet
<1>9. ASSUME NEW y \in Checkpoints, Before(ms, z, y) PROVE FALSE
  <2>1. PICK i, l \in 1 .. Len(ms) : i < l /\ ms[i].id = z /\ ms[l].id = y
    BY <1>9 DEF Before
  <2>2. i = j /\ l <= k
    BY <1>1, <1>2, <1>7, <2>1
  <2> QED
    BY <1>1, <1>2, <1>7, <2>1, <2>2
<1> QED
  BY <1>8, <1>9

LEMMA GotClean ==
  ASSUME TypeInv, StandInv
  PROVE  /\ Got(IdsOf(live)) => bad'.revived = {}
         /\ \A s \in Given : Good(s) /\ Got(s.nodes) => bad'.revived = {}
<1>1. /\ Listed(live, sent, Begun) /\ Stands(live, covers)
      /\ \A c \in Checkpoints : \A x \in covers[c] : x \in Plain
  BY DEF TypeInv, ListsTyped, StandInv
<1>2. \A nodes : Got(nodes) =>
        bad'.revived = {m \in RangeOf(Effective(nodes)) \cap Plain : \E c \in Committed : m \in covers[c]}
  BY DEF Got
<1>3. Committed \subseteq Completed /\ Committed \in SUBSET Checkpoints /\ Committed \subseteq IdSet(live)
  BY DEF Committed, Completed
<1>4. \A c \in Committed : RangeOf(Effective(IdsOf(live))) \cap covers[c] = {}
  <2>1. \A z \in RangeOf(Effective(IdsOf(live))) :
           z \in IdSet(live) /\ \A y \in Committed : ~Before(live, z, y)
    BY <1>1, <1>3, WholeBehind
  <2>2. \A c \in Committed : \A x \in covers[c] : x \in Plain
    BY <1>1, <1>3
  <2> QED
    BY <1>1, <1>3, <2>1, <2>2, BehindClear
<1>5. ASSUME NEW s \in Given, Good(s) PROVE \A c \in Committed : RangeOf(Effective(s.nodes)) \cap covers[c] = {}
  <2>1. RangeOf(Effective(s.nodes)) \subseteq RangeOf(s.nodes)
    BY SurfaceFields, EffectiveIn
  <2> QED
    BY <1>3, <1>5, <2>1 DEF Good, Clear
<1>6. Got(IdsOf(live)) => bad'.revived = {}
  BY <1>2, <1>4
<1>7. ASSUME NEW s \in Given, Good(s), Got(s.nodes) PROVE bad'.revived = {}
  BY <1>2, <1>5, <1>7
<1> QED
  BY <1>6, <1>7

LEMMA HydrateOrdered ==
  ASSUME Informed, HydrateStep, bad.revived = {}
  PROVE  Ordered' /\ bad'.revived = {}
<1> USE DEF db
<1>1. turn.pc \in {"idle", "waiting", "loaded", "running"}
  BY DEF Informed, Ordered, Hands
<1>2. Hydrate \/ HydrateLoaded
  BY <1>1 DEF HydrateStep, FallBackToParent, ParentIncomplete, TakeParent, DiscardAll, RebuildGenerationZero, TakeRebuilt
<1>3. UNCHANGED <<archive, surfaces, rows, live, inFlight, queue, save, comp, covers>>
  BY <1>2 DEF Hydrate, HydrateLoaded
<1>4. queue = <<>> /\ turn.pc # "idle" /\ turn.pc # "running"
  <2>1. CASE Hydrate
    <3>1. turn.pc = "waiting" /\ turn.ahead = 0
      BY <2>1 DEF Hydrate
    <3>2. Len(queue) = 0
      BY <3>1 DEF Informed, Alone
    <3>3. queue \in Seq(Seq(Message))
      BY CopiesListed DEF Informed
    <3>4. queue = <<>>
      BY <3>2, <3>3, QueueSteps
    <3> QED
      BY <3>1, <3>4
  <2>2. CASE HydrateLoaded
    BY <2>2 DEF HydrateLoaded, Informed, Alone
  <2> QED
    BY <1>2, <2>1, <2>2
<1>5. \A c \in Checkpoints : ~Active(c)
  BY <1>4 DEF Informed, Alone
<1>6. \A c \in Checkpoints : ~Unseen(c) /\ ~Unseen(c)'
  BY <1>3, <1>5 DEF Unseen, Active
<1>7. cache # Forgotten => cache \in Given /\ Good(cache)
  BY <1>6 DEF Informed, TypeInv, TablesTyped, Ordered, Hands
<1>8. Good(LoadLatest)
  BY LoadGood DEF Informed, Latest, Ordered
<1>9. ASSUME NEW nodes, Got(nodes) PROVE turn'.pc = "running"
  BY <1>9 DEF Got, Idle
<1>10. ASSUME NEW s \in Given, Good(s), HydrateWith(s), Plainly \/ Complete(s)
       PROVE  turn'.pc = "running" /\ bad'.revived = {}
  <2>1. Complete(s)
    <3>1. live \in Copies
      BY DEF Copies, Fresh
    <3> QED
      BY <1>10, <3>1 DEF Complete, Good, Firm, Present
  <2>2. Got(IdsOf(live)) \/ Got(s.nodes)
    BY <1>10, <2>1 DEF HydrateWith
  <2> QED
    BY <1>9, <1>10, <2>2, GotClean DEF Informed
<1>11. /\ turn'.pc = "running" \/ (turn'.pc = "loaded" /\ Good(turn'.got))
       /\ bad'.revived = {}
       /\ cache' # Forgotten => Good(cache')
  <2>1. CASE Hydrate
    <3>1. cache' = cache /\ turn.pc = "waiting"
      BY <2>1 DEF Hydrate
    <3>2. CASE cache = Forgotten
      <4>1. CASE /\ turn' = [turn EXCEPT !.pc = "loaded", !.got = LoadLatest] /\ UNCHANGED bad
        <5>1. turn'.pc = "loaded" /\ turn'.got = LoadLatest
          BY <4>1 DEF Informed, IInv
        <5> QED
          BY <1>8, <3>1, <3>2, <4>1, <5>1
      <4>2. CASE Got(IdsOf(live))
        BY <1>9, <3>1, <3>2, <4>2, GotClean DEF Informed
      <4> QED
        BY <2>1, <3>2, <4>1, <4>2 DEF Hydrate
    <3>3. CASE cache # Forgotten
      <4>1. HydrateWith(cache)
        BY <2>1, <3>3 DEF Hydrate
      <4>2. Plainly \/ Complete(cache)
        BY <1>4, <3>1 DEF Informed, Prompt, Awaited, Serves, Complete
      <4> QED
        BY <1>7, <1>10, <3>1, <3>3, <4>1, <4>2
    <3> QED
      BY <3>2, <3>3
  <2>2. CASE HydrateLoaded
    <3>1. cache' = turn.got /\ HydrateWith(turn.got) /\ turn.pc = "loaded"
      BY <2>2 DEF HydrateLoaded
    <3>2. Good(turn.got) /\ turn.got \in Given
      BY <3>1 DEF Informed, Ordered, Hands, TypeInv, TurnTyped
    <3>3. Plainly
      BY <3>1 DEF Informed, Prompt, Apart
    <3> QED
      BY <1>10, <3>1, <3>2, <3>3
  <2> QED
    BY <1>2, <2>1, <2>2
<1>12. Ended' = Ended /\ Completed' = Completed /\ Fresh' = Fresh /\ Copies' = Copies
  BY <1>3 DEF Ended, Completed, Fresh, Copies
<1>13. Uncommitting
  BY <1>3, <1>12 DEF Uncommitting
<1>14. Lists'
  <2>1. Chained' /\ (save'.pc # "idle" => archive' = Head(queue'))
    BY <1>3 DEF Informed, Ordered, Lists, Chained
  <2> QED
    BY <1>12, <1>13, <2>1, ListsKept DEF Informed, Ordered
<1>15. Hands'
  <2>1. \A t \in surfaces' : (\A u \in surfaces' : u.gen <= t.gen) => Good(t)
    BY <1>3 DEF Informed, Ordered, Hands
  <2>2. save'.pc \in {"loaded", "saved"} => Good(save'.got)
    BY <1>3 DEF Informed, Ordered, Hands
  <2> QED
    BY <1>11, <1>13, <2>1, <2>2, HandsKept DEF Informed, Ordered
<1>16. Tip'
  BY <1>12, TipKept DEF Informed, Ordered
<1>17. ASSUME NEW c \in Checkpoints PROVE Work(c)'
  <2>1. comp'[c].pc \in {"idle", "over"} \/ comp'[c].pc = "planned"
    BY <1>3, <1>5 DEF Active
  <2>2. comp'[c].pc = "idle" => c \notin Completed'
    BY <1>3, <1>12 DEF Informed, Ordered, Work
  <2>3. comp[c].pc # "planned"
    BY <1>5 DEF Active
  <2> QED
    BY <1>3, <2>1, <2>2, <2>3, WorkQuiet
<1> QED
  BY <1>11, <1>14, <1>15, <1>16, <1>17 DEF Ordered

-----------------------------------------------------------------------------
(* A commit.  It finds the list that was handed to it in the archive, and  *)
(* is made in the name of the list's last checkpoint.                      *)

LEMMA CommitFound ==
  ASSUME Informed, NEW c \in Checkpoints, CommitStep(c), NEW r, r = Requested(c)
  PROVE  /\ Pending(c) /\ queue = <<>> /\ save.pc = "idle" /\ turn.pc \in {"idle", "running"}
         /\ \A d \in Checkpoints : d # c => comp[d].pc \in {"idle", "over"} /\ comp'[d] = comp[d]
         /\ comp[c].msgs = live /\ archive = live /\ Fresh = {live} /\ Copies = {live}
         /\ c \in IdSet(live) /\ Listed(live, sent, Begun)
         /\ r \in Checkpoints /\ r \in IdSet(live) /\ \A y \in Checkpoints : ~Before(live, r, y)
         /\ \A y \in Checkpoints \cap IdSet(live) : y = r \/ Before(live, y, r)
<1>0. 1 .. Len(<< >>) = {}
  OBVIOUS
<1> USE DEF Informed, IInv, CallsShaped
<1>1. comp[c].pc \in {"waiting", "read", "returned", "rejected", "verified", "failing", "marked"}
  BY DEF CommitStep, ReadSource, CommitTransaction, CommitReturned, Verify, TakeVerdict, MarkFailed, RollBack
<1>2. \A d \in Checkpoints : d # c => comp'[d] = comp[d]
  BY DEF CommitStep, ReadSource, CommitTransaction, CommitReturned, Verify, TakeVerdict, MarkFailed, RollBack
<1>3. Pending(c) /\ Active(c)
  BY <1>1 DEF Pending, Active
<1>4. queue \in Seq(Seq(Message)) /\ Listed(live, sent, Begun)
  BY DEF TypeInv, ListsTyped
<1>5. queue = <<>>
  <2>1. CASE comp[c].pc = "waiting"
    <3>1. comp[c].ahead = 0
      BY <2>1 DEF CommitStep, ReadSource, CommitTransaction, CommitReturned, Verify, TakeVerdict, MarkFailed, RollBack
    <3> QED
      BY <1>4, <2>1, <3>1, QueueSteps DEF Alone
  <2> QED
    BY <1>3, <2>1 DEF Alone
<1>6. save.pc = "idle" /\ \A d \in Checkpoints : d # c => comp[d].pc \in {"idle", "over"}
  BY <1>3, <1>5 DEF Alone, Active
<1>7. comp[c].msgs = live /\ archive = live /\ c \in IdSet(live)
  BY <1>3, <1>5 DEF Ordered, Work
<1>8. 1 .. Len(queue) = {}
  BY <1>0, <1>5
<1>9. Fresh = {live} /\ Copies = {live}
  BY <1>7, <1>8 DEF Fresh, Copies
<1>10. turn.pc \in {"idle", "running"}
  BY <1>3 DEF Alone
<1> DEFINE k == LatestCheckpoint(live)
<1>11. /\ k # 0 => live[k] \in RangeOf(live) /\ live[k].id \in Checkpoints /\ live[k].id \in IdSet(live)
       /\ \A y \in Checkpoints \cap IdSet(live) : k # 0 /\ (y = live[k].id \/ Before(live, y, live[k].id))
       /\ k # 0 => \A y \in Checkpoints : ~Before(live, live[k].id, y)
  BY <1>4, LastOfAll
<1>12. r = live[k].cid
  BY <1>7 DEF Requested
<1> HIDE DEF k
<1>13. k # 0
  BY <1>7, <1>11
<1>14. r = live[k].id
  <2>1. live[k].cid = live[k].id \/ (live[k].cid \in Completed /\ Before(live, live[k].id, live[k].cid))
    BY <1>9, <1>11, <1>13 DEF Ordered, Lists, Named
  <2> QED
    BY <1>11, <1>12, <1>13, <2>1 DEF Completed
<1> QED
  BY <1>2, <1>3, <1>4, <1>5, <1>6, <1>7, <1>9, <1>10, <1>11, <1>13, <1>14

(* A step of the call that leaves the messages and the tables alone.       *)
LEMMA CallOrdered ==
  ASSUME Informed, NEW c \in Checkpoints, CommitStep(c),
         UNCHANGED <<archive, surfaces, live, queue, save, turn, covers>>, Completed' = Completed,
         cache' # Forgotten /\ ~Unseen(c)' => Good(cache'), Work(c)'
  PROVE  Ordered'
<1>1. /\ Pending(c) /\ queue = <<>> /\ save.pc = "idle"
      /\ \A d \in Checkpoints : d # c => comp[d].pc \in {"idle", "over"} /\ comp'[d] = comp[d]
  BY CommitFound
<1>2. Ended \subseteq Ended'
  BY <1>1 DEF Ended, Pending
<1>3. Fresh' = Fresh /\ Copies' = Copies
  BY DEF Fresh, Copies
<1>4. Uncommitting
  BY <1>2, <1>3 DEF Uncommitting
<1>5. Lists'
  <2>1. Chained' /\ save'.pc = "idle"
    <3>1. Chained
      BY DEF Informed, Ordered, Lists
    <3> QED
      BY <1>1, <3>1 DEF Chained
  <2> QED
    BY <1>3, <1>4, <2>1, ListsKept DEF Informed, Ordered
<1>6. Hands'
  <2>1. \A t \in surfaces' : (\A u \in surfaces' : u.gen <= t.gen) => Good(t)
    BY DEF Informed, Ordered, Hands
  <2>2. turn'.pc \in {"idle", "waiting", "loaded", "running"} /\ (turn'.pc = "loaded" => Good(turn'.got))
    BY DEF Informed, Ordered, Hands
  <2> QED
    BY <1>1, <1>4, <2>1, <2>2, HandsKept DEF Informed, Ordered
<1>7. Tip'
  BY <1>2, <1>3, TipKept DEF Informed, Ordered
<1>8. \A d \in Checkpoints : d # c => Work(d)'
  BY <1>1, WorkQuiet DEF Informed, Ordered, Work
<1> QED
  BY <1>5, <1>6, <1>7, <1>8 DEF Informed, Ordered

(* It reads, asks what became of it, and marks itself failed.              *)
LEMMA InquiryOrdered ==
  ASSUME Informed, NEW c \in Checkpoints,
         ReadSource(c) \/ Verify(c) \/ TakeVerdict(c) \/ MarkFailed(c)
  PROVE  Ordered'
<1> USE DEF db
<1>0. CommitStep(c)
  BY DEF CommitStep
<1>1. /\ Pending(c) /\ queue = <<>> /\ archive = live
      /\ \A d \in Checkpoints : d # c => comp[d].pc \in {"idle", "over"} /\ comp'[d] = comp[d]
      /\ comp[c].msgs = live /\ c \in IdSet(live)
  BY <1>0, CommitFound
<1>2. UNCHANGED <<archive, surfaces, live, queue, save, turn, covers>>
  BY DEF ReadSource, Verify, TakeVerdict, MarkFailed
<1>3. Fresh' = Fresh /\ Copies' = Copies
  BY <1>2 DEF Fresh, Copies
<1>4. /\ DOMAIN comp = Checkpoints
      /\ {"pc", "got", "gen", "msgs", "ahead"} \subseteq DOMAIN comp[c]
      /\ DOMAIN rows = Checkpoints
  BY DEF Informed, IInv, CallsShaped
<1>5. \A d \in Checkpoints : d # c => ~Unseen(d)
  BY <1>1 DEF Unseen
<1>6. Good(LoadLatest)
  BY LoadGood DEF Informed, Latest, Ordered
<1>7. Completed' = Completed
  <2>1. CASE MarkFailed(c)
    <3>1. c \notin Completed
      BY <2>1 DEF MarkFailed, Informed, Ordered, Work
    <3> QED
      BY <1>4, <2>1, <3>1 DEF MarkFailed, Completed, Failed
  <2>2. CASE rows' = rows
    BY <2>2 DEF Completed
  <2> QED
    BY <2>1, <2>2 DEF ReadSource, Verify, TakeVerdict
<1>8. Ended \subseteq Ended'
  BY <1>1 DEF Ended, Pending
<1>9. \A s : Good(s) => GoodAfter(s)
  <2>1. Uncommitting
    BY <1>2, <1>3, <1>7, <1>8 DEF Uncommitting
  <2> QED
    BY <2>1, GoodStays DEF Informed
<1>10. CASE ReadSource(c)
  <2>1. /\ comp[c].pc = "waiting" /\ cache' = cache /\ c \notin Completed
    BY <1>10 DEF ReadSource, Informed, Ordered, Work
  <2>2. cache' # Forgotten => Good(cache')
    BY <1>5, <2>1 DEF Informed, Ordered, Hands, Unseen
  <2>3. \/ comp'[c].pc = "read" /\ comp'[c].got = LoadLatest /\ comp'[c].msgs = comp[c].msgs
        \/ comp'[c].pc = "rejected" /\ comp'[c].msgs = comp[c].msgs
    BY <1>4, <1>10 DEF ReadSource
  <2>4. Work(c)'
    <3>1. comp'[c].pc \in {"read", "returned", "verified"} => Good(comp[c].got)'
      BY <1>6, <1>9, <2>3 DEF Good, GoodAfter
    <3> QED
      BY <1>1, <1>2, <1>7, <2>1, <2>3, <3>1 DEF Work
  <2> QED
    BY <1>0, <1>2, <1>7, <2>2, <2>4, CallOrdered
<1>11. CASE Verify(c)
  <2>1. comp[c].pc = "rejected" /\ cache' = cache
    BY <1>11 DEF Verify
  <2>2. c \in Completed => ~Replied /\ ~Replied' /\ Top(surfaces, c)
    BY <2>1 DEF Informed, Ordered, Work
  <2>3. \/ /\ comp'[c].pc = "verified" /\ comp'[c].got = LoadLatest /\ comp'[c].msgs = comp[c].msgs
        \/ /\ comp'[c].pc = "failing" /\ comp'[c].msgs = comp[c].msgs /\ Replied'
    <3>1. Happens("load refused") => Replied'
      BY NoDisturbance DEF Informed
    <3> QED
      BY <1>4, <1>11, <3>1 DEF Verify
  <2>4. cache' # Forgotten /\ ~Unseen(c)' => Good(cache')
    <3>1. ~Unseen(c)' => Replied
      BY <2>3 DEF Unseen, Informed
    <3> QED
      BY <1>5, <2>1, <3>1 DEF Informed, Ordered, Hands, Unseen
  <2>5. Work(c)'
    <3>1. comp'[c].pc \in {"read", "returned", "verified"} => Good(comp[c].got)'
      BY <1>6, <1>9, <2>3 DEF Good, GoodAfter
    <3>2. comp'[c].pc = "failing" => c \notin Completed
      BY <2>2, <2>3
    <3> QED
      BY <1>1, <1>2, <1>7, <2>2, <2>3, <3>1, <3>2 DEF Work
  <2> QED
    BY <1>0, <1>2, <1>7, <2>4, <2>5, CallOrdered
<1>12. CASE TakeVerdict(c)
  <2>1. comp[c].pc = "verified" /\ cache' = comp[c].got /\ Good(comp[c].got)
    BY <1>12 DEF TakeVerdict, Remember, Informed, Ordered, Work
  <2>2. \/ comp'[c].pc = "over"
        \/ comp'[c].pc = "failing" /\ comp'[c].msgs = comp[c].msgs /\ ~Landed(c)
    BY <1>4, <1>12 DEF TakeVerdict, Over, Idle
  <2>3. comp'[c].pc = "failing" => c \notin Completed
    <3> SUFFICES ASSUME comp'[c].pc = "failing", c \in Completed PROVE FALSE
      OBVIOUS
    <3>1. Top(surfaces, c)
      BY <2>1 DEF Informed, Ordered, Work
    <3>2. Top(surfaces, comp[c].got.cid)
      BY <2>1 DEF Good, Clear
    <3>3. comp[c].got.cid = c
      BY <3>1, <3>2, TopOnce DEF Informed, Latest
    <3> QED
      BY <2>2, <3>3 DEF Landed
  <2>4. Work(c)'
    BY <1>1, <1>2, <1>7, <2>2, <2>3 DEF Work, Pending
  <2> QED
    BY <1>0, <1>2, <1>7, <2>1, <2>4, CallOrdered
<1>13. CASE MarkFailed(c)
  <2>1. /\ comp[c].pc = "failing" /\ cache' = cache /\ c \notin Completed
        /\ comp'[c].pc = "marked" /\ comp'[c].msgs = comp[c].msgs
    BY <1>4, <1>13 DEF MarkFailed, Informed, Ordered, Work
  <2>2. cache' # Forgotten => Good(cache')
    BY <1>5, <2>1 DEF Informed, Ordered, Hands, Unseen
  <2>3. Work(c)'
    BY <1>1, <1>2, <1>7, <2>1 DEF Work
  <2> QED
    BY <1>0, <1>2, <1>7, <2>2, <2>3, CallOrdered
<1> QED
  BY <1>10, <1>11, <1>12, <1>13

(* The last checkpoint of a list was begun.                                *)
LEMMA BegunIn ==
  ASSUME NEW ms, NEW n, NEW b, Listed(ms, n, b), NEW x \in Checkpoints, x \in IdSet(ms)
  PROVE  x \in b
<1>1. DOMAIN ms = 1 .. Len(ms)
  BY DEF Listed
<1>2. PICK i \in 1 .. Len(ms) : ms[i].id = x
  BY <1>1 DEF IdSet
<1>3. x \notin Plain
  BY SurfaceConstants DEF Plain
<1> QED
  BY <1>2, <1>3 DEF Listed

(* A commit that is accepted makes the latest generation, of the last      *)
(* checkpoint.                                                             *)
LEMMA TransactionOrdered ==
  ASSUME Informed, NEW c \in Checkpoints, CommitTransaction(c)
  PROVE  Ordered'
<1> DEFINE r == Requested(c)
           source == SourceOf(comp[c].got)
           new == [gen |-> source + 1, parent |-> source, cid |-> r, nodes |-> ComputeSurfaceNodes(live)]
           Accepted == /\ surfaces' = surfaces \cup {new} /\ Completed' = Completed \cup {r}
                       /\ comp'[c].pc = "returned" \/ ~Replied'
<1>0. CommitStep(c)
  BY DEF CommitStep
<1>1. /\ Pending(c) /\ queue = <<>> /\ save.pc = "idle" /\ turn.pc \in {"idle", "running"}
      /\ \A d \in Checkpoints : d # c => comp[d].pc \in {"idle", "over"} /\ comp'[d] = comp[d]
      /\ comp[c].msgs = live /\ archive = live /\ Fresh = {live} /\ Copies = {live}
      /\ c \in IdSet(live) /\ Listed(live, sent, Begun)
      /\ r \in Checkpoints /\ r \in IdSet(live) /\ \A y \in Checkpoints : ~Before(live, r, y)
      /\ \A y \in Checkpoints \cap IdSet(live) : y = r \/ Before(live, y, r)
  BY <1>0, CommitFound
<1>2. /\ comp[c].pc = "read" /\ cache' = comp[c].got
      /\ UNCHANGED <<archive, live, queue, save, turn, covers>>
  BY DEF CommitTransaction
<1>3. /\ DOMAIN comp = Checkpoints /\ {"pc", "got", "gen", "msgs", "ahead"} \subseteq DOMAIN comp[c]
      /\ DOMAIN rows = Checkpoints /\ Serial'
  BY DEF Informed, IInv, CallsShaped
<1>4. /\ comp'[c].pc \in {"returned", "rejected"} /\ comp'[c].got = new /\ comp'[c].msgs = live
      /\ comp'[c].pc = "returned" => r \in Completed'
      /\ (surfaces' = surfaces /\ Completed' = Completed) \/ Accepted
  <2>1. PICK how \in {"answered", "commit refused", "commit lost"} :
          /\ how = "commit lost" => Happens(how)
          /\ \/ UNCHANGED <<surfaces, rows>>
             \/ /\ how # "commit refused"
                /\ surfaces' = surfaces \cup {new} /\ rows' = [rows EXCEPT ![r] = "completed"]
          /\ comp' = [comp EXCEPT ![c].pc = IF how = "answered" /\ r \in Completed' THEN "returned" ELSE "rejected",
                                  ![c].got = new]
    BY <1>1 DEF CommitTransaction
  <2>2. /\ comp'[c].pc = IF how = "answered" /\ r \in Completed' THEN "returned" ELSE "rejected"
        /\ comp'[c].got = new /\ comp'[c].msgs = comp[c].msgs
    BY <1>3, <2>1
  <2>3. how = "commit lost" => ~Replied'
    BY <1>3, <2>1, NoDisturbance
  <2>4. rows' = [rows EXCEPT ![r] = "completed"] => Completed' = Completed \cup {r}
    BY <1>1, <1>3 DEF Completed
  <2>5. rows' = rows => Completed' = Completed
    BY DEF Completed
  <2>6. \/ UNCHANGED <<surfaces, rows>>
        \/ how # "commit refused" /\ surfaces' = surfaces \cup {new} /\ rows' = [rows EXCEPT ![r] = "completed"]
    BY <2>1
  <2>7. /\ comp'[c].pc \in {"returned", "rejected"}
        /\ comp'[c].pc = "returned" => r \in Completed'
        /\ how = "answered" /\ r \in Completed' => comp'[c].pc = "returned"
    BY <2>2
  <2>8. how = "answered" \/ how = "commit refused" \/ how = "commit lost"
    OBVIOUS
  <2>9. comp'[c].got = new /\ comp'[c].msgs = live
    BY <1>1, <2>2
  <2> HIDE DEF new, r
  <2>10. CASE UNCHANGED <<surfaces, rows>>
    BY <2>5, <2>7, <2>9, <2>10
  <2>11. CASE how # "commit refused" /\ surfaces' = surfaces \cup {new} /\ rows' = [rows EXCEPT ![r] = "completed"]
    <3>1. r \in Completed'
      BY <2>4, <2>11
    <3>2. comp'[c].pc = "returned" \/ ~Replied'
      BY <2>3, <2>7, <2>8, <2>11, <3>1
    <3> QED
      BY <2>4, <2>7, <2>9, <2>11, <3>2
  <2> QED
    BY <2>6, <2>10, <2>11
<1>5. c \notin Completed /\ Good(comp[c].got)
  BY <1>2 DEF Informed, Ordered, Work
<1>6. \A t \in surfaces : t.gen \in Nat
  BY DEF Informed, Latest, TablesNumbered
<1>7. source \in Nat /\ \A t \in surfaces : t.gen < source + 1
  BY <1>2, NextNumber DEF Informed, Latest
<1>8. new.gen = source + 1 /\ new.cid = r /\ new.nodes = ComputeSurfaceNodes(live)
  OBVIOUS
<1> HIDE DEF new, source, r
<1>9. /\ Named(live, Completed) /\ Led(live, Completed, surfaces) /\ Stands(live, covers)
      /\ Completed' \in SUBSET Checkpoints /\ Completed \subseteq Completed'
      /\ \A d \in Completed' : \A x \in covers[d] : x \in Plain
  BY <1>1, <1>4 DEF Informed, Ordered, Lists, StandInv, Completed
<1>10. Completed' \subseteq IdSet(live)
  BY <1>1, <1>4, <1>9 DEF Led
<1>11. Ended \subseteq Ended' /\ Fresh' = Fresh /\ Copies' = {live}
  BY <1>1, <1>2 DEF Ended, Pending, Fresh, Copies
<1>12. r \in Completed' => Top(surfaces', r)
  <2>1. CASE surfaces' = surfaces /\ Completed' = Completed
    BY <1>1, <1>9, <2>1 DEF Led
  <2>2. CASE Accepted
    <3>1. \A t \in surfaces' : (\A u \in surfaces' : u.gen <= t.gen) => t = new
      BY <1>6, <1>7, <1>8, <2>2
    <3> QED
      BY <1>8, <2>2, <3>1 DEF Top
  <2> QED
    BY <1>4, <2>1, <2>2
<1>13. r \in Completed' => GoodAfter(new)
  <2> SUFFICES ASSUME r \in Completed' PROVE GoodAfter(new)
    OBVIOUS
  <2>1. \A z \in RangeOf(new.nodes) : z \in IdSet(live) /\ \A y \in Checkpoints : ~Before(live, z, y)
    BY <1>1, <1>8, NodesBehind
  <2>2. \A d \in Completed' : RangeOf(new.nodes) \cap covers[d] = {}
    BY <1>1, <1>9, <1>10, <2>1, BehindClear
  <2>3. RangeOf(new.nodes) \cap Checkpoints \subseteq {r}
    BY <1>1, <2>1
  <2>4. Clear(new, Completed', surfaces', covers')
    BY <1>2, <1>8, <1>12, <2>2 DEF Clear
  <2>5. Firm(new, Completed' \cup Ended', Copies')
    BY <1>11, <2>1, <2>3 DEF Firm, Present
  <2> QED
    BY <2>4, <2>5 DEF GoodAfter
<1>14. Lists'
  <2>1. Named(live, Completed')
    BY <1>9 DEF Named
  <2>2. Led(live, Completed', surfaces')
    <3>1. CASE surfaces' = surfaces /\ Completed' = Completed
      BY <1>9, <3>1
    <3>2. CASE Accepted
      <4>1. \A x \in Completed' : x = r \/ Before(live, x, r)
        BY <1>1, <1>9, <1>10
      <4>2. r \in Completed'
        BY <3>2
      <4> QED
        BY <1>10, <1>12, <4>1, <4>2 DEF Led
    <3> QED
      BY <1>4, <3>1, <3>2
  <2>3. Chained'
    BY <1>2 DEF Informed, Ordered, Lists, Chained
  <2> QED
    BY <1>1, <1>2, <1>11, <2>1, <2>2, <2>3 DEF Lists
<1>15. surfaces' = surfaces /\ Completed' = Completed => \A s : Good(s) => GoodAfter(s)
  <2> SUFFICES ASSUME surfaces' = surfaces, Completed' = Completed PROVE \A s : Good(s) => GoodAfter(s)
    OBVIOUS
  <2>1. Uncommitting
    BY <1>1, <1>2, <1>11 DEF Uncommitting
  <2> QED
    BY <2>1, GoodStays DEF Informed
<1>16. Hands'
  <2>1. save'.pc = "idle" /\ turn'.pc \in {"idle", "running"}
    BY <1>1, <1>2
  <2>2. CASE surfaces' = surfaces /\ Completed' = Completed
    <3>1. \A t \in surfaces' : (\A u \in surfaces' : u.gen <= t.gen) => GoodAfter(t)
      BY <1>15, <2>2 DEF Informed, Ordered, Hands
    <3>2. GoodAfter(cache')
      BY <1>2, <1>5, <1>15, <2>2
    <3> QED
      BY <2>1, <2>2, <3>1, <3>2 DEF Informed, Ordered, Hands, Good, GoodAfter
  <2>3. CASE Accepted
    <3>1. Unseen(c)'
      BY <1>4, <2>3 DEF Unseen
    <3>2. \A t \in surfaces' : (\A u \in surfaces' : u.gen <= t.gen) => t = new
      BY <1>6, <1>7, <1>8, <2>3
    <3>3. surfaces' # {} /\ GoodAfter(new)
      BY <1>13, <2>3
    <3> QED
      BY <2>1, <3>1, <3>2, <3>3 DEF Hands, Good, GoodAfter
  <2> QED
    BY <1>4, <2>2, <2>3
<1>17. Tip'
  BY <1>9, <1>11, TipKept DEF Informed, Ordered
<1>18. Work(c)'
  <2>1. comp'[c].pc = "returned" => Good(comp[c].got)'
    BY <1>4, <1>13 DEF Good, GoodAfter
  <2>2. comp'[c].pc = "rejected" /\ c \in Completed' => ~Replied' /\ Top(surfaces', c)
    BY <1>4, <1>5, <1>12
  <2> QED
    BY <1>1, <1>2, <1>4, <2>1, <2>2 DEF Work, Pending
<1>19. ASSUME NEW d \in Checkpoints, d # c PROVE Work(d)'
  <2>1. comp[d].pc \in {"idle", "over"} /\ comp'[d] = comp[d]
    BY <1>1, <1>19
  <2>2. comp[d].pc = "idle" => d \notin Completed
    BY DEF Informed, Ordered, Work
  <2>3. comp[d].pc = "idle" => d # r
    BY <1>1, BegunIn DEF Begun
  <2> QED
    BY <1>4, <2>1, <2>2, <2>3, WorkQuiet
<1> QED
  BY <1>14, <1>16, <1>17, <1>18, <1>19 DEF Ordered

LEMMA BeforeIn ==
  ASSUME NEW ms \in Seq(Message), NEW x, NEW y, Before(ms, x, y)
  PROVE  x \in IdSet(ms) /\ y \in IdSet(ms)
<1>1. DOMAIN ms = 1 .. Len(ms)
  OBVIOUS
<1> QED
  BY <1>1 DEF Before, IdSet

(* The reply names the checkpoint after the one that was committed.        *)
LEMMA ReturnedOrdered ==
  ASSUME Informed, NEW c \in Checkpoints, CommitReturned(c), live' \in Seq(Message)
  PROVE  Ordered'
<1> DEFINE r == Requested(c)
<1>0. CommitStep(c)
  BY DEF CommitStep
<1>1. /\ Pending(c) /\ queue = <<>> /\ save.pc = "idle" /\ turn.pc \in {"idle", "running"}
      /\ \A d \in Checkpoints : d # c => comp[d].pc \in {"idle", "over"} /\ comp'[d] = comp[d]
      /\ archive = live /\ Fresh = {live} /\ Copies = {live} /\ c \in IdSet(live)
      /\ r \in Checkpoints /\ \A y \in Checkpoints \cap IdSet(live) : y = r \/ Before(live, y, r)
  BY <1>0, CommitFound
<1>2. /\ DOMAIN comp = Checkpoints /\ "pc" \in DOMAIN turn /\ live \in Seq(Message)
  BY DEF Informed, IInv, CallsShaped, TypeInv, ListsTyped, Listed
<1>3. /\ comp[c].pc = "returned" /\ cache' = comp[c].got /\ comp' = [comp EXCEPT ![c] = Over]
      /\ UNCHANGED <<archive, surfaces, rows, queue, save, covers>>
  BY DEF CommitReturned, Remember, db
<1>4. comp'[c].pc = "over" /\ Completed' = Completed
  BY <1>2, <1>3 DEF Over, Idle, Completed
<1>5. turn'.pc = turn.pc
  <2>1. turn' = turn \/ turn' = [turn EXCEPT !.head = c]
    BY DEF CommitReturned
  <2> QED
    BY <1>2, <2>1
<1>6. comp[c].got.cid = r /\ Good(comp[c].got) /\ r \in Completed
  <2>1. comp[c].got.cid = r /\ Good(comp[c].got)
    BY <1>3 DEF Informed, Owned, Ordered, Work
  <2>2. Certified(comp[c].got)
    BY <1>3 DEF Informed, IInv, Trusted
  <2>3. r # NoCompaction
    BY <1>1, SurfaceConstants
  <2> QED
    BY <1>1, <2>1, <2>2, <2>3 DEF Certified, Completed
<1>7. live' = [i \in DOMAIN live |->
                 IF live[i].id = c THEN [id |-> c, cid |-> r, gen |-> comp[c].got.gen] ELSE live[i]]
  BY <1>6 DEF CommitReturned
<1> HIDE DEF r
<1>8. /\ DOMAIN live = 1 .. Len(live) /\ DOMAIN live' = 1 .. Len(live) /\ Len(live') = Len(live)
      /\ \A i \in 1 .. Len(live) : live'[i].id = live[i].id
      /\ \A i \in 1 .. Len(live) : live[i].id # c => live'[i] = live[i]
      /\ \A i \in 1 .. Len(live) : live[i].id = c => live'[i].cid = r
  <2>1. DOMAIN live = 1 .. Len(live) /\ Len(live) \in Nat /\ DOMAIN live' = 1 .. Len(live')
    BY <1>2
  <2>2. DOMAIN live' = DOMAIN live
    BY <1>7
  <2>3. Len(live') = Len(live)
    <3>1. Len(live) \in Nat /\ Len(live') \in Nat
      BY <1>2
    <3>2. \A i : i \in 1 .. Len(live') <=> i \in 1 .. Len(live)
      BY <2>1, <2>2
    <3>3. Len(live) = 0 \/ Len(live) <= Len(live')
      BY <3>1, <3>2
    <3>4. Len(live') = 0 \/ Len(live') <= Len(live)
      BY <3>1, <3>2
    <3> QED
      BY <3>1, <3>3, <3>4
  <2> QED
    BY <1>7, <2>1, <2>2, <2>3
<1>9. /\ IdSet(live') = IdSet(live)
      /\ \A x, y : Before(live', x, y) <=> Before(live, x, y)
      /\ \A m \in RangeOf(live') : m.id # c => m \in RangeOf(live)
  BY <1>2, <1>8, RenamedSame
<1>10. \A m \in RangeOf(live') : m.id = c => m.cid = r
  BY <1>8 DEF RangeOf
<1>11. Ended \subseteq Ended'
  BY <1>1 DEF Ended, Pending
<1>12. Chained' /\ Fresh' = {live'} /\ Copies' = {live', live}
  <2>1. 1 .. Len(queue') = {}
    BY <1>1, <1>3
  <2> QED
    BY <1>1, <1>3, <2>1 DEF Chained, Fresh, Copies
<1>13. Uncommitting
  BY <1>1, <1>3, <1>4, <1>9, <1>11, <1>12 DEF Uncommitting
<1>14. Lists'
  <2>1. Named(live, Completed) /\ Led(live, Completed, surfaces)
    BY <1>1 DEF Informed, Ordered, Lists
  <2>2. Named(live', Completed)
    <3> SUFFICES ASSUME NEW m \in RangeOf(live'), m.id \in Checkpoints
                 PROVE  m.cid = m.id \/ (m.cid \in Completed /\ Before(live', m.id, m.cid))
      BY DEF Named
    <3>1. CASE m.id = c
      BY <1>1, <1>6, <1>9, <1>10, <3>1
    <3>2. CASE m.id # c
      BY <1>9, <2>1, <3>2 DEF Named
    <3> QED
      BY <3>1, <3>2
  <2>3. Led(live', Completed, surfaces)
    BY <1>9, <2>1 DEF Led
  <2>4. \A ms \in Copies' : ms \in Copies \/ (Named(ms, Completed) /\ Led(ms, Completed, surfaces))
    BY <1>1, <1>12, <2>2, <2>3
  <2> QED
    BY <1>1, <1>3, <1>12, <1>13, <2>4, ListsKept DEF Informed, Ordered
<1>15. Hands'
  <2>1. \A t \in surfaces' : (\A u \in surfaces' : u.gen <= t.gen) => Good(t)
    BY <1>3 DEF Informed, Ordered, Hands
  <2>2. turn'.pc \in {"idle", "running"} /\ save'.pc = "idle"
    BY <1>1, <1>3, <1>5
  <2> QED
    BY <1>3, <1>6, <1>13, <2>1, <2>2, HandsKept DEF Informed, Ordered
<1>16. Tip'
  BY <1>1, <1>4, <1>9, <1>11, <1>12, TipKept DEF Informed, Ordered
<1>17. \A d \in Checkpoints : Work(d)'
  BY <1>1, <1>4, WorkQuiet DEF Informed, Ordered, Work
<1> QED
  BY <1>14, <1>15, <1>16, <1>17 DEF Ordered

(* A checkpoint whose commit did not land leaves the messages.             *)
LEMMA RollBackOrdered ==
  ASSUME Informed, NEW c \in Checkpoints, RollBack(c), live' \in Seq(Message)
  PROVE  Ordered'
<1>0. CommitStep(c)
  BY DEF CommitStep
<1>1. /\ Pending(c) /\ queue = <<>> /\ save.pc = "idle" /\ turn.pc \in {"idle", "running"}
      /\ \A d \in Checkpoints : d # c => comp[d].pc \in {"idle", "over"} /\ comp'[d] = comp[d]
      /\ archive = live /\ Fresh = {live} /\ Copies = {live}
      /\ Listed(live, sent, Begun)
  BY <1>0, CommitFound
<1>2. DOMAIN comp = Checkpoints
  BY DEF Informed, IInv, CallsShaped
<1>3. /\ comp[c].pc = "marked" /\ live' = Without(live, c) /\ Enqueue(live') /\ comp' = [comp EXCEPT ![c] = Over]
      /\ UNCHANGED <<archive, surfaces, rows, cache, save, turn, covers>>
  BY DEF RollBack, RolledBack, db
<1>4. comp'[c].pc = "over" /\ Completed' = Completed /\ c \notin Completed
  BY <1>2, <1>3 DEF Over, Idle, Completed, Informed, Ordered, Work
<1>5. SameBut(live, live', c) /\ c \notin IdSet(live')
  BY <1>1, <1>3, DropSame
<1>6. Ended \subseteq Ended' /\ c \notin Ended
  BY <1>1 DEF Ended, Pending
<1>7. /\ Chained' /\ Fresh' = {live'} /\ Copies' = {live', live}
  <2>1. queue' = <<live'>>
    BY <1>1, <1>3 DEF Enqueue
  <2>2. 1 .. Len(queue') = {1} /\ queue'[1] = live'
    BY <2>1
  <2> QED
    BY <1>1, <1>3, <2>2 DEF Chained, Fresh, Copies
<1>8. \A x \in IdSet(live) : x = c \/ x \in IdSet(live')
  BY <1>5 DEF SameBut
<1>9. Uncommitting
  BY <1>1, <1>3, <1>4, <1>6, <1>7, <1>8 DEF Uncommitting
<1>10. Lists'
  <2>1. Named(live, Completed) /\ Led(live, Completed, surfaces)
    BY <1>1 DEF Informed, Ordered, Lists
  <2>2. \A m \in RangeOf(live') : m.id # c
    BY <1>5 DEF RangeOf, IdSet
  <2>3. Named(live', Completed) /\ Led(live', Completed, surfaces)
    BY <1>4, <1>5, <2>1, <2>2, NamedSame, LedSame
  <2>4. \A ms \in Copies' : ms \in Copies \/ (Named(ms, Completed) /\ Led(ms, Completed, surfaces))
    BY <1>1, <1>7, <2>3
  <2> QED
    BY <1>1, <1>3, <1>7, <1>9, <2>4, ListsKept DEF Informed, Ordered
<1>11. Hands'
  <2>1. \A t \in surfaces' : (\A u \in surfaces' : u.gen <= t.gen) => Good(t)
    BY <1>3 DEF Informed, Ordered, Hands
  <2>2. turn'.pc \in {"idle", "running"} /\ save'.pc = "idle"
    BY <1>1, <1>3
  <2>3. cache' # Forgotten => Good(cache')
    <3>1. \A d \in Checkpoints : ~Unseen(d)
      BY <1>1, <1>3 DEF Unseen
    <3> QED
      BY <1>3, <3>1 DEF Informed, Ordered, Hands
  <2> QED
    BY <1>9, <2>1, <2>2, <2>3, HandsKept DEF Informed, Ordered
<1>12. Tip'
  <2>1. \A x \in IdSet(live') \cap Checkpoints :
          x \in IdSet(live) /\ \A y \in Checkpoints : Before(live', x, y) => Before(live, x, y)
    BY <1>5, BeforeIn DEF SameBut
  <2> QED
    BY <1>1, <1>4, <1>6, <1>7, <2>1, TipKept DEF Informed, Ordered
<1>13. \A d \in Checkpoints : Work(d)'
  BY <1>1, <1>4, WorkQuiet DEF Informed, Ordered, Work
<1> QED
  BY <1>10, <1>11, <1>12, <1>13 DEF Ordered

-----------------------------------------------------------------------------
(* Turns, restarts and the beginning of a compaction.                      *)

(* A message is added, or none, and the session is saved, or not.          *)
LEMMA TurnOrdered ==
  ASSUME Informed, \A c \in Checkpoints : ~Active(c),
         UNCHANGED <<archive, surfaces, rows, cache, save, comp, covers>>,
         Enqueue(live') \/ UNCHANGED queue,
         live' = live \/ (live' = Append(live, NewMessage) /\ sent < MaxMsgs),
         turn'.pc \in {"idle", "waiting", "running"}
  PROVE  Ordered'
<1>1. /\ TypeInv /\ live \in Seq(Message) /\ sent \in Nat /\ queue \in Seq(Seq(Message))
      /\ (save.pc # "idle" => queue # <<>> /\ archive = Head(queue))
  BY DEF Informed, Alone, TypeInv, ListsTyped, Listed, Ordered, Lists
<1>2. \E x : x \notin Checkpoints /\ SameBut(live, live', x) /\ IdSet(live) \subseteq IdSet(live')
  <2>1. CASE live' = live
    <3>1. NoCompaction \notin Checkpoints
      BY SurfaceConstants
    <3> QED
      BY <2>1, <3>1 DEF SameBut
  <2>2. CASE live' = Append(live, NewMessage) /\ sent < MaxMsgs
    <3>1. NewMessage \in Message /\ NewMessage.id \notin Checkpoints
      BY <1>1, <2>2, NewMessageIs
    <3>2. SameBut(live, live', NewMessage.id)
      BY <1>1, <2>2, <3>1, AppendSame
    <3>3. IdSet(live) \subseteq IdSet(live')
      BY <1>1, <2>2, <3>1, AppendPoints
    <3> QED
      BY <3>1, <3>2, <3>3
  <2> QED
    BY <2>1, <2>2
<1>3. PICK x : x \notin Checkpoints /\ SameBut(live, live', x) /\ IdSet(live) \subseteq IdSet(live')
  BY <1>2
<1>4. Ended' = Ended /\ Completed' = Completed /\ Completed \subseteq Checkpoints
  BY DEF Ended, Completed
<1>5. /\ Chained' /\ Fresh' \subseteq Fresh \cup {live'}
      /\ queue # <<>> => queue' # <<>> /\ Head(queue') = Head(queue)
  BY <1>1, <1>3, QueueGrows DEF Informed, Ordered, Lists
<1>6. live \in Fresh /\ live \in Copies /\ \A ms \in Copies' : ms \in Copies \/ ms = live'
  BY <1>5 DEF Fresh, Copies
<1>7. Uncommitting
  BY <1>3, <1>4, <1>6 DEF Uncommitting
<1>8. Lists'
  <2>1. Named(live, Completed) /\ Led(live, Completed, surfaces)
    BY <1>6 DEF Informed, Ordered, Lists
  <2>2. Named(live', Completed) /\ Led(live', Completed, surfaces)
    BY <1>3, <1>4, <2>1, NamedSame, LedSame
  <2>3. save'.pc # "idle" => archive' = Head(queue')
    BY <1>1, <1>5
  <2> QED
    BY <1>5, <1>6, <1>7, <2>2, <2>3, ListsKept DEF Informed, Ordered
<1>9. Hands'
  <2>1. \A t \in surfaces' : (\A u \in surfaces' : u.gen <= t.gen) => Good(t)
    BY DEF Informed, Ordered, Hands
  <2>2. \A d \in Checkpoints : ~Unseen(d)
    BY DEF Unseen, Active
  <2>3. cache' # Forgotten => Good(cache')
    BY <2>2 DEF Informed, Ordered, Hands
  <2>4. save'.pc \in {"loaded", "saved"} => Good(save'.got)
    BY DEF Informed, Ordered, Hands
  <2> QED
    BY <1>7, <2>1, <2>3, <2>4, HandsKept DEF Informed, Ordered
<1>10. Tip'
  <2>1. \A y \in IdSet(live') \cap Checkpoints :
          y \in IdSet(live) /\ \A z \in Checkpoints : Before(live', y, z) => Before(live, y, z)
    BY <1>3 DEF SameBut
  <2>2. \A ms \in Fresh' : \E l \in Fresh : \A y \in IdSet(ms) \cap Checkpoints :
          y \in IdSet(l) /\ \A z \in Checkpoints : Before(ms, y, z) => Before(l, y, z)
    BY <1>5, <1>6, <2>1
  <2> QED
    BY <1>4, <2>2, TipKept DEF Informed, Ordered
<1>11. \A d \in Checkpoints : Work(d)'
  BY <1>4, WorkQuiet DEF Informed, Ordered, Work, Active
<1> QED
  BY <1>8, <1>9, <1>10, <1>11 DEF Ordered

(* The application is opened again with what the archive holds.            *)
LEMMA RestartOrdered ==
  ASSUME Informed, Restart
  PROVE  Ordered'
<1>0. 1 .. Len(<< >>) = {}
  OBVIOUS
<1>1. /\ live' = archive /\ cache' = Forgotten /\ queue' = <<>> /\ save' = [pc |-> "idle", got |-> NoSurface]
      /\ comp' = [c \in Checkpoints |-> IF comp[c].pc = "idle" THEN Idle ELSE Over]
      /\ turn' = Idle /\ UNCHANGED <<archive, surfaces, rows, covers>>
  BY DEF Restart, db
<1>2. /\ \A c \in Checkpoints : comp'[c].pc = IF comp[c].pc = "idle" THEN "idle" ELSE "over"
      /\ turn'.pc = "idle" /\ save'.pc = "idle"
  BY <1>1 DEF Idle, Over
<1>3. Completed' = Completed /\ Ended \subseteq Ended' /\ Begun \subseteq Ended'
  BY <1>1, <1>2 DEF Completed, Ended, Begun
<1>4. Fresh' = {archive} /\ Copies' = {archive} /\ archive \in Copies /\ Chained'
  <2>1. 1 .. Len(queue') = {}
    BY <1>0, <1>1
  <2> QED
    BY <1>1, <2>1 DEF Fresh, Copies, Chained
<1>5. Uncommitting
  BY <1>1, <1>3, <1>4 DEF Uncommitting
<1>6. Lists'
  BY <1>2, <1>4, <1>5, ListsKept DEF Informed, Ordered
<1>7. Hands'
  <2>1. \A t \in surfaces' : (\A u \in surfaces' : u.gen <= t.gen) => Good(t)
    BY <1>1 DEF Informed, Ordered, Hands
  <2> QED
    BY <1>1, <1>2, <1>5, <2>1, HandsKept DEF Informed, Ordered
<1>8. Tip'
  <2>1. Listed(archive, sent, Begun)
    BY DEF Informed, TypeInv, ListsTyped
  <2>2. \A x \in IdSet(archive) \cap Checkpoints : x \in Ended'
    BY <1>3, <2>1, BegunIn
  <2> QED
    BY <1>4, <2>2 DEF Tip
<1>9. \A d \in Checkpoints : Work(d)'
  BY <1>2, <1>3, WorkQuiet DEF Informed, Ordered, Work
<1> QED
  BY <1>6, <1>7, <1>8, <1>9 DEF Ordered

(* A compaction is planned, or given up before it is inserted.             *)
LEMMA PlanOrdered ==
  ASSUME Informed, NEW c \in Checkpoints, Plan(c) \/ AbandonPlan(c)
  PROVE  Ordered'
<1>1. DOMAIN comp = Checkpoints
  BY DEF Informed, IInv, CallsShaped
<1>2. /\ UNCHANGED <<archive, surfaces, rows, live, queue, save, turn, covers>>
      /\ comp[c].pc \in {"idle", "planned"}
      /\ \A d \in Checkpoints : d # c => ~Active(d) /\ comp'[d] = comp[d]
      /\ \/ comp'[c].pc = "planned" /\ comp'[c].msgs = live
         \/ comp'[c].pc = "over"
  <2>1. CASE Plan(c)
    <3>1. PICK g : comp' = [comp EXCEPT ![c] = [Idle EXCEPT !.pc = "planned", !.msgs = live, !.gen = g]]
      BY <2>1 DEF Plan
    <3>2. turn.pc = "idle" /\ Planned = {} /\ comp[c].pc = "idle"
      BY <2>1 DEF Plan
    <3>3. \A d \in Checkpoints : ~Active(d)
      BY <3>2, NobodyActive DEF Informed
    <3>4. comp'[c].pc = "planned" /\ comp'[c].msgs = live /\ \A d \in Checkpoints : d # c => comp'[d] = comp[d]
      BY <1>1, <3>1 DEF Idle
    <3>5. UNCHANGED <<archive, surfaces, rows, live, queue, save, turn, covers>>
      BY <2>1 DEF Plan, db
    <3> QED
      BY <3>2, <3>3, <3>4, <3>5
  <2>2. CASE AbandonPlan(c)
    <3>1. comp[c].pc = "planned" /\ comp' = [comp EXCEPT ![c] = Over]
      BY <2>2 DEF AbandonPlan
    <3>2. comp'[c].pc = "over" /\ \A d \in Checkpoints : d # c => comp'[d] = comp[d]
      BY <1>1, <3>1 DEF Over, Idle
    <3>3. \A d \in Checkpoints : d # c => ~Active(d)
      BY <3>1 DEF Informed, Alone, Active
    <3>4. UNCHANGED <<archive, surfaces, rows, live, queue, save, turn, covers>>
      BY <2>2 DEF AbandonPlan, db
    <3> QED
      BY <3>1, <3>2, <3>3, <3>4
  <2> QED
    BY <2>1, <2>2
<1>3. cache' # Forgotten => Good(cache')
  <2>1. \A d \in Checkpoints : ~Unseen(d)
    BY <1>2 DEF Unseen, Active
  <2>2. Good(LoadLatest) /\ (cache # Forgotten => Good(cache))
    BY <2>1, LoadGood DEF Informed, Latest, Ordered, Hands
  <2>3. cache' = cache \/ cache' = LoadLatest
    BY DEF Plan, AbandonPlan
  <2> QED
    BY <2>2, <2>3
<1>4. Completed' = Completed /\ Fresh' = Fresh /\ Copies' = Copies /\ Ended \subseteq Ended'
  BY <1>2 DEF Completed, Fresh, Copies, Ended
<1>5. Uncommitting
  BY <1>2, <1>4 DEF Uncommitting
<1>6. Lists'
  <2>1. Chained'
    BY <1>2 DEF Informed, Ordered, Lists, Chained
  <2>2. save'.pc # "idle" => archive' = Head(queue')
    BY <1>2 DEF Informed, Ordered, Lists
  <2> QED
    BY <1>4, <1>5, <2>1, <2>2, ListsKept DEF Informed, Ordered
<1>7. Hands'
  <2>1. \A t \in surfaces' : (\A u \in surfaces' : u.gen <= t.gen) => Good(t)
    BY <1>2 DEF Informed, Ordered, Hands
  <2>2. save'.pc \in {"loaded", "saved"} => Good(save'.got)
    BY <1>2 DEF Informed, Ordered, Hands
  <2>3. turn'.pc \in {"idle", "waiting", "loaded", "running"} /\ (turn'.pc = "loaded" => Good(turn'.got))
    BY <1>2 DEF Informed, Ordered, Hands
  <2> QED
    BY <1>3, <1>5, <2>1, <2>2, <2>3, HandsKept DEF Informed, Ordered
<1>8. Tip'
  BY <1>4, TipKept DEF Informed, Ordered
<1>9. \A d \in Checkpoints : d # c => Work(d)'
  BY <1>2, <1>4, WorkQuiet DEF Informed, Ordered, Work, Active
<1>10. Work(c)'
  <2>1. c \notin Completed
    BY <1>2 DEF Informed, Ordered, Work
  <2> QED
    BY <1>2, <1>4, <2>1 DEF Work, Pending
<1> QED
  BY <1>6, <1>7, <1>8, <1>9, <1>10 DEF Ordered

(* A checkpoint enters the messages.                                       *)
LEMMA InsertOrdered ==
  ASSUME Informed, NEW c \in Checkpoints, NEW gen \in Nat, NEW k \in 0 .. Len(live),
         Plainly' => LatestCheckpoint(live) <= k, Insert(c, gen, k),
         comp[c].pc \in {"idle", "planned"}, \A d \in Checkpoints : d # c => ~Active(d),
         UNCHANGED <<archive, surfaces, rows, cache, save>>, turn'.pc = turn.pc, turn'.got = turn.got
  PROVE  Ordered'
<1>1. /\ DOMAIN comp = Checkpoints /\ DOMAIN live = 1 .. Len(live) /\ live \in Seq(Message)
      /\ Listed(live, sent, Begun) /\ queue \in Seq(Seq(Message))
      /\ (save.pc # "idle" => queue # <<>> /\ archive = Head(queue))
  <2>1. Listed(live, sent, Begun) /\ queue \in Seq(Seq(Message)) /\ live \in Seq(Message)
    BY DEF Informed, TypeInv, ListsTyped, Listed
  <2>2. DOMAIN live = 1 .. Len(live)
    BY <2>1
  <2>3. DOMAIN comp = Checkpoints
    BY DEF Informed, IInv, CallsShaped
  <2>4. save.pc # "idle" => queue # <<>> /\ archive = Head(queue)
    BY DEF Informed, Alone, Ordered, Lists
  <2> QED
    BY <2>1, <2>2, <2>3, <2>4
<1>2. /\ live' = InsertCheckpoint(live, c, gen, k) /\ Enqueue(live') /\ c \in inFlight'
      /\ \A d \in Checkpoints : d # c => covers'[d] = covers[d]
      /\ comp' = [comp EXCEPT ![c] = [Idle EXCEPT !.pc = "waiting", !.msgs = live', !.gen = gen,
                                                 !.ahead = Len(queue')]]
  BY DEF Insert
<1>3. /\ comp'[c].pc = "waiting" /\ comp'[c].msgs = live'
      /\ \A d \in Checkpoints : d # c => comp'[d] = comp[d]
  BY <1>1, <1>2 DEF Idle
<1>4. Ended' = Ended /\ Completed' = Completed /\ c \notin Ended /\ c \notin Completed
  BY <1>3 DEF Ended, Completed, Informed, Ordered, Work
<1>5. c \notin IdSet(live)
  BY <1>1, BegunIn DEF Begun
<1>6. /\ SameBut(live, live', c) /\ c \in IdSet(live')
      /\ \A m \in RangeOf(live') : m.id = c => m.cid = c
  BY <1>1, <1>2, <1>5, InsertSame
<1>7. IdSet(live) \subseteq IdSet(live')
  BY <1>5, <1>6 DEF SameBut
<1>8. /\ Chained' /\ Fresh' \subseteq Fresh \cup {live'}
      /\ queue' # <<>> /\ queue'[Len(queue')] = live'
      /\ queue # <<>> => Head(queue') = Head(queue)
  BY <1>1, <1>2, <1>7, QueueGrows DEF Informed, Ordered, Lists
<1>9. live \in Fresh /\ live \in Copies /\ \A ms \in Copies' : ms \in Copies \/ ms = live'
  BY <1>8 DEF Fresh, Copies
<1>10. Uncommitting
  <2>1. \A d \in Completed : covers'[d] = covers[d]
    BY <1>2, <1>4 DEF Completed
  <2>2. \A ms \in Copies' : \E l \in Copies : \A x \in IdSet(l) : x \in IdSet(ms)
    BY <1>7, <1>9
  <2> QED
    BY <1>4, <2>1, <2>2 DEF Uncommitting
<1>11. Lists'
  <2>1. Named(live, Completed) /\ Led(live, Completed, surfaces)
    BY <1>9 DEF Informed, Ordered, Lists
  <2>2. Named(live', Completed) /\ Led(live', Completed, surfaces)
    BY <1>4, <1>6, <2>1, NamedSame, LedSame
  <2>3. save'.pc # "idle" => archive' = Head(queue')
    BY <1>1, <1>8
  <2> QED
    BY <1>8, <1>9, <1>10, <2>2, <2>3, ListsKept DEF Informed, Ordered
<1>12. Hands'
  <2>1. \A t \in surfaces' : (\A u \in surfaces' : u.gen <= t.gen) => Good(t)
    BY DEF Informed, Ordered, Hands
  <2>2. \A d \in Checkpoints : ~Unseen(d)
    BY DEF Unseen, Active
  <2>3. cache' # Forgotten => Good(cache')
    BY <2>2 DEF Informed, Ordered, Hands
  <2>4. save'.pc \in {"loaded", "saved"} => Good(save'.got)
    BY DEF Informed, Ordered, Hands
  <2>5. turn'.pc \in {"idle", "waiting", "loaded", "running"} /\ (turn'.pc = "loaded" => Good(turn'.got))
    BY DEF Informed, Ordered, Hands
  <2> QED
    BY <1>10, <2>1, <2>3, <2>4, <2>5, HandsKept DEF Informed, Ordered
<1>13. Tip'
  <2> SUFFICES ASSUME Plainly' PROVE \A ms \in Fresh' : \A x \in IdSet(ms) \cap Checkpoints :
                 x \notin Completed \cup Ended => \A y \in Checkpoints : ~Before(ms, x, y)
    BY <1>4 DEF Tip
  <2>1. \A ms \in Fresh : \A x \in IdSet(ms) \cap Checkpoints :
          x \notin Completed \cup Ended => \A y \in Checkpoints : ~Before(ms, x, y)
    BY DEF Informed, Ordered, Tip
  <2>2. ASSUME NEW x \in IdSet(live') \cap Checkpoints, x \notin Completed \cup Ended,
               NEW y \in Checkpoints, Before(live', x, y)
        PROVE  FALSE
    <3>1. x = c
      <4> SUFFICES ASSUME x # c PROVE FALSE
        OBVIOUS
      <4>1. x \in IdSet(live)
        BY <1>6, <2>2 DEF SameBut
      <4>2. x \in Begun
        BY <1>1, <4>1, BegunIn
      <4> QED
        BY <2>2, <4>2 DEF Begun, Ended, Active
    <3>2. /\ Len(live) \in Nat /\ k \in Nat /\ k <= Len(live) /\ LatestCheckpoint(live) \in 0 .. Len(live)
          /\ LatestCheckpoint(live) <= k
          /\ \A i \in 1 .. Len(live) : live[i].id \in Checkpoints => i <= LatestCheckpoint(live)
      BY <1>1, LatestIs
    <3>3. /\ Len(live') = Len(live) + 1
          /\ \A i \in 1 .. k : live'[i] = live[i]
          /\ \A i \in k + 2 .. Len(live) + 1 : live'[i] = live[i - 1]
      BY <1>1, <1>2, InsertedIs DEF Inserted
    <3>4. \A i \in 1 .. Len(live) : live[i].id # c
      BY <1>1, <1>5 DEF IdSet
    <3>5. PICK i, j \in 1 .. Len(live) + 1 : i < j /\ live'[i].id = c /\ live'[j].id = y
      BY <2>2, <3>1, <3>3 DEF Before
    <3>6. i = k + 1
      <4>1. i \in 1 .. k => i \in 1 .. Len(live)
        BY <3>2
      <4>2. i \in k + 2 .. Len(live) + 1 => i - 1 \in 1 .. Len(live)
        BY <3>2
      <4>3. i \in 1 .. k \/ i = k + 1 \/ i \in k + 2 .. Len(live) + 1
        BY <3>2
      <4> QED
        BY <3>3, <3>4, <3>5, <4>1, <4>2, <4>3
    <3>7. j \in k + 2 .. Len(live) + 1 /\ j - 1 \in 1 .. Len(live) /\ ~(j - 1 <= LatestCheckpoint(live))
      BY <3>2, <3>5, <3>6
    <3>8. live'[j] = live[j - 1]
      BY <3>3, <3>7
    <3> QED
      BY <3>2, <3>5, <3>7, <3>8
  <2> QED
    BY <1>8, <2>1, <2>2
<1>14. \A d \in Checkpoints : d # c => Work(d)'
  BY <1>3, <1>4, WorkQuiet DEF Informed, Ordered, Work, Active
<1>15. Work(c)'
  BY <1>2, <1>3, <1>4, <1>6, <1>8 DEF Work, Pending
<1> QED
  BY <1>11, <1>12, <1>13, <1>14, <1>15 DEF Ordered

LEMMA OtherOrdered ==
  ASSUME Informed,
         \/ AddMessage \/ SendMessage \/ TurnEnds \/ Reset \/ Restart
         \/ \E c \in Checkpoints : Plan(c) \/ AbandonPlan(c) \/ InsertPlanned(c) \/ InsertMidLoop(c)
                                   \/ CommitTimesOut(c)
  PROVE  Ordered'
<1>1. Alone /\ Serial' /\ live \in Seq(Message) /\ {"pc", "got"} \subseteq DOMAIN turn
  BY DEF Informed, IInv, TypeInv, ListsTyped, Listed
<1>2. CASE AddMessage
  <2>1. /\ UNCHANGED <<archive, surfaces, rows, cache, save, comp, covers, turn>> /\ turn.pc = "running"
        /\ Asked = {} /\ live' = Append(live, NewMessage) /\ sent < MaxMsgs
        /\ Enqueue(live') \/ UNCHANGED queue
    BY <1>2 DEF AddMessage, db
  <2> QED
    BY <1>1, <2>1, NobodyActive, TurnOrdered
<1>3. CASE SendMessage
  <2>1. /\ UNCHANGED <<archive, surfaces, rows, cache, save, comp, covers>> /\ turn.pc = "idle"
        /\ live' = Append(live, NewMessage) /\ sent < MaxMsgs /\ Enqueue(live')
        /\ turn' = [Idle EXCEPT !.pc = "waiting", !.ahead = Len(queue')]
    BY <1>3 DEF SendMessage, db
  <2>2. turn'.pc = "waiting"
    BY <2>1 DEF Idle
  <2>3. Planned = {}
    BY <1>1, <1>3, NoDisturbance DEF SendMessage, Overlaps
  <2> QED
    BY <1>1, <2>1, <2>2, <2>3, NobodyActive, TurnOrdered
<1>4. CASE TurnEnds
  <2>1. Asked = {}
    BY <1>1, <1>4, NoDisturbance DEF TurnEnds, Overlaps
  <2>2. /\ UNCHANGED <<archive, surfaces, rows, live, cache, save, comp, covers>> /\ turn.pc = "running"
        /\ turn' = Idle /\ Enqueue(live)
    BY <1>4 DEF TurnEnds, db
  <2>3. turn'.pc = "idle" /\ live' = live /\ Enqueue(live')
    BY <2>2 DEF Idle, Enqueue
  <2> QED
    BY <1>1, <2>1, <2>2, <2>3, NobodyActive, TurnOrdered
<1>5. CASE Reset
  BY <1>1, <1>5, NoDisturbance DEF Reset
<1>6. CASE Restart
  BY <1>6, RestartOrdered
<1>7. ASSUME NEW c \in Checkpoints, InsertPlanned(c) PROVE Ordered'
  <2>1. /\ comp[c].pc = "planned" /\ UNCHANGED <<archive, surfaces, rows, cache, save, turn>>
    BY <1>7 DEF InsertPlanned, db
  <2>2. comp[c].msgs = live /\ comp[c].gen \in Nat
    BY <2>1 DEF Informed, Ordered, Work, TypeInv, CallTyped
  <2>3. PICK k \in LatestCheckpoint(live) + 1 .. Len(live) : Insert(c, comp[c].gen, k)
    BY <1>7, <2>2 DEF InsertPlanned
  <2>4. LatestCheckpoint(live) \in Nat
    BY <1>1, LatestIs
  <2>5. k \in 0 .. Len(live) /\ LatestCheckpoint(live) <= k
    BY <2>4
  <2>6. \A d \in Checkpoints : d # c => ~Active(d)
    BY <1>1, <2>1 DEF Alone, Active
  <2> QED
    BY <2>1, <2>2, <2>3, <2>5, <2>6, InsertOrdered
<1>8. ASSUME NEW c \in Checkpoints, InsertMidLoop(c) PROVE Ordered'
  <2>1. /\ comp[c].pc = "idle" /\ turn.pc = "running" /\ Asked = {}
        /\ UNCHANGED <<archive, surfaces, rows, cache, save>> /\ turn' = [turn EXCEPT !.cut = c]
    BY <1>8 DEF InsertMidLoop, db
  <2>2. PICK k \in DOMAIN live : Insert(c, Unset, k) /\ (k < LatestCheckpoint(live) => Happens("precedes"))
    BY <1>8 DEF InsertMidLoop
  <2>3. Plainly' => ~(k < LatestCheckpoint(live))
    <3> SUFFICES ASSUME Plainly', Happens("precedes") PROVE FALSE
      BY <2>2
    <3>1. PICK n : <<"precedes", n>> \in upset'
      BY DEF Happens
    <3>2. <<"precedes", n>>[1] = "precedes"
      OBVIOUS
    <3> QED
      BY <3>1, <3>2 DEF Plainly, Calm
  <2>4. LatestCheckpoint(live) \in Nat /\ Unset \in Nat /\ DOMAIN live = 1 .. Len(live) /\ Len(live) \in Nat
    BY <1>1, LatestIs DEF Unset
  <2>5. k \in 0 .. Len(live) /\ (Plainly' => LatestCheckpoint(live) <= k)
    BY <2>3, <2>4
  <2>6. \A d \in Checkpoints : ~Active(d)
    BY <1>1, <2>1, NobodyActive
  <2>7. turn'.pc = turn.pc /\ turn'.got = turn.got
    BY <1>1, <2>1
  <2> QED
    BY <2>1, <2>2, <2>4, <2>5, <2>6, <2>7, InsertOrdered
<1>9. ASSUME NEW c \in Checkpoints, CommitTimesOut(c) PROVE Ordered'
  BY <1>1, <1>9, NoDisturbance DEF CommitTimesOut, Overlaps
<1> QED
  BY <1>2, <1>3, <1>4, <1>5, <1>6, <1>7, <1>8, <1>9, PlanOrdered

-----------------------------------------------------------------------------
LEMMA RevInvInit == Init => RevInv
<1> SUFFICES ASSUME Init PROVE Ordered /\ bad.revived = {}
  BY DEF RevInv
<1>1. /\ archive = <<>> /\ live = <<>> /\ queue = <<>> /\ surfaces = {} /\ cache = Forgotten
      /\ save.pc = "idle" /\ turn.pc = "idle" /\ bad.revived = {}
      /\ \A c \in Checkpoints : comp[c].pc = "idle" /\ rows[c] = "none"
  BY DEF Init, Idle
<1>2. Completed = {}
  BY <1>1 DEF Completed
<1>3. 1 .. Len(<< >>) = {} /\ DOMAIN << >> = {}
  OBVIOUS
<1>4. Copies = {<<>>} /\ Fresh = {<<>>} /\ RangeOf(<<>>) = {} /\ IdSet(<<>>) = {}
  BY <1>1, <1>3 DEF Copies, Fresh, RangeOf, IdSet
<1>5. Lists
  BY <1>1, <1>2, <1>3, <1>4 DEF Lists, Named, Led, Chained
<1>6. Hands
  BY <1>1, <1>2 DEF Hands
<1>7. Tip
  BY <1>4 DEF Tip
<1>8. \A c \in Checkpoints : Work(c)
  BY <1>1, <1>2 DEF Work, Pending
<1> QED
  BY <1>1, <1>5, <1>6, <1>7, <1>8 DEF Ordered

LEMMA StutterOrdered ==
  ASSUME Informed, UNCHANGED vars
  PROVE  Ordered'
<1> USE DEF vars
<1>1. Completed' = Completed /\ Ended' = Ended /\ Fresh' = Fresh /\ Copies' = Copies
  BY DEF Completed, Ended, Fresh, Copies
<1>2. Uncommitting
  BY <1>1 DEF Uncommitting
<1>3. Lists'
  <2>1. Chained' /\ (save'.pc # "idle" => archive' = Head(queue'))
    BY DEF Informed, Ordered, Lists, Chained
  <2> QED
    BY <1>1, <1>2, <2>1, ListsKept DEF Informed, Ordered
<1>4. Hands'
  <2>1. /\ \A t \in surfaces' : (\A u \in surfaces' : u.gen <= t.gen) => Good(t)
        /\ cache' # Forgotten /\ (\A c \in Checkpoints : ~Unseen(c)') => Good(cache')
        /\ save'.pc \in {"loaded", "saved"} => Good(save'.got)
        /\ turn'.pc \in {"idle", "waiting", "loaded", "running"} /\ (turn'.pc = "loaded" => Good(turn'.got))
    BY DEF Informed, Ordered, Hands, Unseen, Replied, Calm
  <2> QED
    BY <1>2, <2>1, HandsKept DEF Informed, Ordered
<1>5. Tip'
  BY <1>1, TipKept DEF Informed, Ordered
<1>6. ASSUME NEW c \in Checkpoints PROVE Work(c)'
  <2>1. /\ Pending(c) => IF queue' # <<>> THEN queue'[Len(queue')] = live ELSE archive' = live
        /\ comp[c].pc = "waiting" => c \in inFlight'
    BY DEF Informed, Ordered, Work
  <2> QED
    BY <1>2, <2>1, WorkKept DEF Informed, Ordered
<1> QED
  BY <1>3, <1>4, <1>5, <1>6 DEF Ordered

LEMMA RevInvNext ==
  IInv /\ CacheInv /\ TypeInv /\ StandInv /\ Owned /\ LostInv /\ RevInv /\ [Next]_vars => RevInv'
<1> SUFFICES ASSUME IInv, CacheInv, TypeInv, StandInv, Owned, LostInv, RevInv, [Next]_vars, Upright'
             PROVE  Ordered' /\ bad'.revived = {}
  BY DEF RevInv
<1>1. Upright /\ (Plainly' => Plainly) /\ (Replied' => Replied)
  <2>1. \A kinds : Calm(kinds)' => Calm(kinds)
    BY Undisturbed
  <2>2. Serial
    BY StillSerial DEF Upright
  <2> QED
    BY <2>1, <2>2 DEF Upright, Plainly, Tended, Replied
<1>2. Informed /\ bad.revived = {}
  <2>1. Alone /\ Latest /\ Ordered /\ bad.revived = {}
    BY <1>1 DEF CacheInv, RevInv, Upright
  <2>2. Plainly \/ Prompt
    <3>1. Tended /\ Serial => Gentle
      BY DEF Tended, Serial, Gentle, Calm
    <3> QED
      BY <1>1, <3>1 DEF Upright, LostInv
  <2>3. Serial' /\ Calm({"archive refused"})'
    BY DEF Upright
  <2> QED
    BY <1>1, <2>1, <2>2, <2>3 DEF Informed
<1>3. CASE SaveStep
  <2>1. bad' = bad
    BY <1>3 DEF SaveStep, SaveArchive, Maintain, MaintainLoaded, Maintained
  <2> QED
    BY <1>2, <1>3, <2>1, SaveOrdered
<1>4. CASE HydrateStep
  BY <1>2, <1>4, HydrateOrdered
<1>5. ASSUME NEW c \in Checkpoints, CommitStep(c) PROVE Ordered' /\ bad'.revived = {}
  <2>1. bad' = bad
    BY <1>5 DEF CommitStep, ReadSource, CommitTransaction, CommitReturned, Verify, TakeVerdict, MarkFailed, RollBack
  <2>2. live' \in Seq(Message)
    <3>1. TypeInv'
      BY TypeNext
    <3> QED
      BY <3>1 DEF TypeInv, ListsTyped, Listed
  <2> QED
    BY <1>2, <1>5, <2>1, <2>2, InquiryOrdered, TransactionOrdered, ReturnedOrdered, RollBackOrdered DEF CommitStep
<1>6. CASE \/ AddMessage \/ SendMessage \/ TurnEnds \/ Reset \/ Restart
           \/ \E c \in Checkpoints : Plan(c) \/ AbandonPlan(c) \/ InsertPlanned(c) \/ InsertMidLoop(c)
                                     \/ CommitTimesOut(c)
  <2>1. bad' = bad
    BY <1>6 DEF AddMessage, SendMessage, TurnEnds, Reset, Restart, Plan, AbandonPlan, InsertPlanned,
       InsertMidLoop, CommitTimesOut
  <2> QED
    BY <1>2, <1>6, <2>1, OtherOrdered
<1>7. CASE UNCHANGED vars
  BY <1>2, <1>7, StutterOrdered DEF vars
<1> QED
  BY <1>3, <1>4, <1>5, <1>6, <1>7 DEF Next

(* What a committed compaction replaced never comes back into a turn       *)
(* beside it (ADR-003), on the conditions that the property names.         *)
THEOREM NothingRevivedHolds == Spec => []NothingRevived
<1>1. RevInv => NothingRevived
  <2>1. /\ Calm(Overlaps \cup {"reset", "archive refused"}) =>
             Calm(Overlaps \cup {"reset"}) /\ Calm({"archive refused"})
    BY DEF Calm
  <2> QED
    BY <2>1 DEF RevInv, NothingRevived, Upright, Serial, Plainly, Tended
<1> QED
  BY <1>1, IInvInit, IInvNext, CacheInvInit, CacheInvNext, TypeInit, TypeNext, StandInit, StandNext,
     OwnedInit, OwnedNext, LostInvInit, LostInvNext, RevInvInit, RevInvNext, PTL DEF Spec
=============================================================================
