----------------------------- MODULE LogSyncProofs -----------------------------
(***************************************************************************)
(* Proofs about LogSync, for any number of chats and any length of a turn: *)
(* what the two channels may hold, that a turn runs on the log the main    *)
(* thread showed, that a turn which did not succeed leaves no trace, and   *)
(* that the session's turns are transactions on the main log.              *)
(***************************************************************************)
EXTENDS LogSync, SequenceTheorems, FiniteSetTheorems, TLAPS

Out == 1 .. Len(toWorker)
Back == 1 .. Len(toMain)

Sent == {r \in Chats : status[r] # "unsent"}

Opening == {"incremental", "full"}
Requests == Opening \cup {"sync"}

(* Chats are sent in order, and nobody works on one that was not.          *)
InOrder ==
  /\ \A r, q \in Chats : q < r /\ r \in Sent => q \in Sent
  /\ \A r \in Chats \ Sent :
       /\ task[r] = "none" /\ r \notin stopping
       /\ \A i \in Out : toWorker[i].r # r
       /\ \A i \in Back : toMain[i].r # r

(* At most one message asks for the turn of a chat, or for the log to run  *)
(* it on; none does when its result is on the way.                         *)
Unique(c, d) ==
  /\ \A i, j \in 1 .. Len(c) :
       c[i].type \in Requests /\ c[j].type \in Requests /\ c[i].r = c[j].r => i = j
  /\ \A i \in 1 .. Len(c), j \in 1 .. Len(d) :
       c[i].type \in Requests /\ d[j].type \in {"mismatch", "result"} => c[i].r # d[j].r
  /\ \A i, j \in 1 .. Len(d) :
       d[i].type = "mismatch" /\ d[j].type \in {"mismatch", "result"} /\ d[i].r = d[j].r => i = j

OneRequest == Unique(toWorker, toMain)

(* How far the worker is with a chat a message is about.                   *)
Phases ==
  /\ \A i \in Out : /\ toWorker[i].type \in Opening => task[toWorker[i].r] = "none"
                    /\ toWorker[i].type = "sync" => task[toWorker[i].r] \in {"syncing", "done"}
  /\ \A i \in Back : IF toMain[i].type = "mismatch" THEN task[toMain[i].r] \in {"syncing", "done"}
                                                    ELSE task[toMain[i].r] = "done"

Opens(m, r) == m.type \in Opening /\ m.r = r
Stops(m, r) == m.type = "cancel" /\ m.r = r

(* What a working worker has done, and what it will find in its channel:   *)
(* a chat begins behind the cancel of every earlier one that goes on.      *)
Working ==
  alive =>
    /\ agent = "up"
    /\ \A r \in Chats : status[r] \in Outcome => task[r] = "done"
    /\ \A r \in stopping : task[r] = "done" \/ \E k \in Out : Stops(toWorker[k], r)
    /\ \A r \in Sent : task[r] = "none" => \E i \in Out : Opens(toWorker[i], r)
    /\ \A r \in Chats : \A k \in Out :
         Stops(toWorker[k], r) /\ task[r] = "none" => \E i \in Out : i < k /\ Opens(toWorker[i], r)
    /\ \A r \in Chats : \A q \in Sent :
         r < q => task[r] = "done" \/ \E k, j \in Out : k < j /\ Stops(toWorker[k], r) /\ Opens(toWorker[j], q)

(* A request carries the log the main thread showed for it.                *)
Carried ==
  /\ \A i \in Out :
       LET m == toWorker[i]
       IN  /\ m.type \in {"full", "sync"} => m.msgs = view[m.r]
           /\ m.type = "incremental" => Len(m.prefix) = m.from /\ m.prefix \o m.msgs = view[m.r]
  /\ \A i \in Back : toMain[i].type = "result" => base[toMain[i].r] = view[toMain[i].r]

Resolved == {r \in Chats : status[r] = "resolved"}

(* Log l holds messages of the turns in T only.                            *)
From(l, T) == \A i \in 1 .. Len(l) : \A id \in l[i].covers : id[1] \in T

(* Only resolved turns are in the main log and in what turns started on;   *)
(* beside them a turn finds only its own messages in the worker's log.     *)
Traceless ==
  /\ From(mirror, Resolved)
  /\ \A r \in Chats : From(view[r], Resolved) /\ From(base[r], Resolved)
  /\ \A r \in Chats : Running(r) => From(wlog, Resolved \cup {r})
  /\ \A i \in Back : LET m == toMain[i]
                     IN  m.type = "result" => /\ From(m.delta, Resolved \cup {m.r})
                                              /\ From(m.full, Resolved \cup {m.r})

(* Log l is log k with messages of turn t, and nothing else, behind it; or *)
(* its first entry folds the first n entries of k.                         *)
Continues(l, k, t) ==
  /\ Len(l) >= Len(k)
  /\ \A i \in 1 .. Len(k) : l[i].covers = k[i].covers
  /\ \A i \in Len(k) + 1 .. Len(l) : l[i].covers \subseteq TL!Own(t)

Rewrites(l, k, n, t) ==
  LET folded == UNION {k[i].covers : i \in 1 .. n}
  IN  /\ Len(l) - 1 >= Len(k) - n
      /\ folded \subseteq l[1].covers /\ l[1].covers \ folded \subseteq TL!Own(t)
      /\ \A i \in 1 .. Len(k) - n : l[1 + i].covers = k[n + i].covers
      /\ \A i \in Len(k) - n + 1 .. Len(l) - 1 : l[1 + i].covers \subseteq TL!Own(t)

Grown(l, k, t) == Continues(l, k, t) \/ \E n \in 1 .. Len(k) : Rewrites(l, k, n, t)

(* What a turn has made of the log it started on, and what it reports.     *)
Logged(r, l) == IF rewritten[r] THEN Grown(l, base[r], r) ELSE Continues(l, base[r], r)

Reported(m) == IF m.compacted THEN Grown(m.full, base[m.r], m.r)
               ELSE \A n \in 1 .. Len(m.delta) : m.delta[n].covers \subseteq TL!Own(m.r)

Turns == /\ \A r \in Chats : Running(r) => Logged(r, wlog)
         /\ \A i \in Back : toMain[i].type = "result" => Reported(toMain[i])

(* One chat at a time: the cancel timer is for that one, and no chat is    *)
(* left behind with a worker that was given up.                            *)
Serial ==
  ~Overlap => /\ \A r, q \in Pending : r = q
              /\ \A r \in Pending : view[r] = mirror
              /\ agent = "up" => timer \in Pending \cup {0}
              /\ agent # "up" => Pending = {}

Channels == InOrder /\ OneRequest /\ Phases /\ Working

-----------------------------------------------------------------------------
(* The channels and the logs keep their types.                             *)
LEMMA SentFields ==
  ASSUME NEW m \in ToWorker
  PROVE  /\ m.r \in Chats /\ m.type \in {"incremental", "full", "sync", "cancel"}
         /\ m.type # "cancel" => m.msgs \in Log
         /\ m.type = "incremental" => m.from \in Nat /\ m.prefix \in Log
BY DEF ToWorker

LEMMA ReturnedFields ==
  ASSUME NEW m \in ToMain
  PROVE  /\ m.r \in Chats /\ m.type \in {"cancelled", "mismatch", "error", "result"}
         /\ m.type = "result" => /\ m.delta \in Log /\ m.full \in Log
                                 /\ m.length \in Nat /\ m.compacted \in BOOLEAN
BY DEF ToMain

LEMMA HeadOfChannel ==
  ASSUME NEW S, NEW c \in Seq(S), c # <<>>
  PROVE  /\ Head(c) = c[1] /\ Head(c) \in S /\ Tail(c) \in Seq(S)
         /\ Len(c) \in Nat /\ Len(c) >= 1 /\ Len(Tail(c)) = Len(c) - 1
         /\ \A i \in 1 .. Len(Tail(c)) : Tail(c)[i] = c[i + 1]
OBVIOUS

LEMMA EndOfChannel ==
  ASSUME NEW S, NEW c \in Seq(S), NEW m \in S
  PROVE  /\ Append(c, m) \in Seq(S) /\ Len(Append(c, m)) = Len(c) + 1
         /\ \A i \in 1 .. Len(c) : Append(c, m)[i] = c[i]
         /\ Append(c, m)[Len(c) + 1] = m
OBVIOUS

LEMMA CoveredIds ==
  ASSUME NEW l \in Log
  PROVE  Covered(l) \subseteq Ids
<1>1. \A i \in DOMAIN l : l[i] \in Entry
  BY DEF Log
<1> QED
  BY <1>1 DEF Covered, Entry

LEMMA EntryOf ==
  ASSUME NEW r \in Chats, NEW form \in {"text", "image"}
  PROVE  [covers |-> {<<r, 1>>}, by |-> r, form |-> form] \in Entry
BY ConstantsAssumption DEF Entry, Ids

LEMMA NewEntryType ==
  ASSUME wlog \in Log, NEW r \in Chats, MayGrow(r), NEW form \in {"text", "image"}
  PROVE  /\ NewEntry(r, form) \in Entry
         /\ \E n \in Nat : NewEntry(r, form).covers = {<<r, n>>}
<1> DEFINE n == Cardinality(Of(r, wlog))
<1>1. IsFiniteSet(Chats) /\ IsFiniteSet(1 .. 1 + MaxTail)
  BY FS_Interval, ConstantsAssumption DEF Chats
<1>2. IsFiniteSet(Ids)
  BY <1>1, FS_Product DEF Ids
<1>3. IsFiniteSet(Of(r, wlog))
  BY <1>2, CoveredIds, FS_Subset DEF Of
<1>4. n \in Nat
  BY <1>3, FS_CardinalityType
<1>5. n + 1 \in 1 .. 1 + MaxTail
  BY <1>4, ConstantsAssumption DEF MayGrow
<1>6. <<r, n + 1>> \in Ids
  BY <1>5 DEF Ids
<1> QED
  BY <1>4, <1>6 DEF NewEntry, Entry

LEMMA StripType ==
  ASSUME NEW l \in Log
  PROVE  /\ StripImages(l) \in Log /\ Len(StripImages(l)) = Len(l)
         /\ \A i \in 1 .. Len(l) : StripImages(l)[i].covers = l[i].covers
<1>1. \A i \in 1 .. Len(l) : l[i] \in Entry
  BY DEF Log
<1>2. \A e \in Entry : [e EXCEPT !.form = "text"] \in Entry /\ [e EXCEPT !.form = "text"].covers = e.covers
  BY DEF Entry
<1>3. DOMAIN l = 1 .. Len(l) /\ Len(l) \in Nat
  BY DEF Log
<1>4. \A i \in 1 .. Len(l) : StripImages(l)[i] \in Entry /\ StripImages(l)[i].covers = l[i].covers
  BY <1>1, <1>2, <1>3 DEF StripImages
<1>5. StripImages(l) \in Log /\ Len(StripImages(l)) = Len(l)
  BY <1>3, <1>4 DEF StripImages, Log
<1> QED
  BY <1>4, <1>5

LEMMA SubLogs ==
  ASSUME NEW l \in Log, NEW n \in Nat, n <= Len(l)
  PROVE  /\ Prefix(l, n) \in Log /\ Len(Prefix(l, n)) = n
         /\ \A i \in 1 .. n : Prefix(l, n)[i] = l[i]
         /\ Behind(l, n) \in Log /\ Len(Behind(l, n)) = Len(l) - n
         /\ \A i \in 1 .. Len(l) - n : Behind(l, n)[i] = l[n + i]
         /\ Prefix(l, n) \o Behind(l, n) = l
<1> USE DEF Prefix, Behind, Log
<1>1. Len(l) \in Nat /\ Prefix(l, n) \in Log /\ Len(Prefix(l, n)) = n
  OBVIOUS
<1>2. \A i \in 1 .. n : Prefix(l, n)[i] = l[i]
  OBVIOUS
<1>3. Behind(l, n) \in Log /\ Len(Behind(l, n)) = Len(l) - n
  OBVIOUS
<1>4. \A i \in 1 .. Len(l) - n : Behind(l, n)[i] = l[n + i]
  OBVIOUS
<1>5. Prefix(l, n) \o Behind(l, n) = l
  <2>1. 1 \in 1 .. Len(l) + 1 /\ n \in 1 - 1 .. Len(l) /\ Len(l) \in n .. Len(l)
    BY <1>1
  <2>2. SubSeq(l, 1, n) \o SubSeq(l, n + 1, Len(l)) = SubSeq(l, 1, Len(l))
    BY <2>1, ConcatAdjacentSubSeq
  <2> QED
    BY <2>2, SubSeqFull
<1> QED
  BY <1>1, <1>2, <1>3, <1>4, <1>5

LEMMA CompactedType ==
  ASSUME NEW l \in Log, NEW r \in Chats, NEW b \in CutPoints(r, l)
  PROVE  /\ Compacted(r, l, b) \in Log
         /\ b \in 2 .. Len(l) /\ Len(Compacted(r, l, b)) = Len(l) - b + 2
         /\ Compacted(r, l, b)[1].covers = UNION {l[i].covers : i \in 1 .. b - 1}
         /\ \A i \in 2 .. Len(l) - b + 2 : Compacted(r, l, b)[i] = l[b + i - 2]
<1> DEFINE first == [covers |-> Covered(SubSeq(l, 1, b - 1)), by |-> r, form |-> "checkpoint"]
           rest == SubSeq(l, b, Len(l))
<1>1. b \in 2 .. Len(l) /\ Len(l) \in Nat /\ Len(l) >= 2
  BY DEF CutPoints, Log
<1>2. rest \in Log /\ Len(rest) = Len(l) - b + 1
  BY <1>1 DEF Log
<1>3. \A i \in 1 .. Len(rest) : rest[i] = l[b + i - 1]
  BY <1>1, <1>2 DEF Log
<1>4. SubSeq(l, 1, b - 1) \in Log /\ DOMAIN SubSeq(l, 1, b - 1) = 1 .. b - 1
  BY <1>1 DEF Log
<1>5. \A i \in 1 .. b - 1 : SubSeq(l, 1, b - 1)[i] = l[i]
  BY <1>1 DEF Log
<1>6. first \in Entry /\ first.covers = UNION {l[i].covers : i \in 1 .. b - 1}
  <2>1. Covered(SubSeq(l, 1, b - 1)) \subseteq Ids
    BY <1>4, CoveredIds
  <2>2. Covered(SubSeq(l, 1, b - 1)) = UNION {l[i].covers : i \in 1 .. b - 1}
    BY <1>4, <1>5 DEF Covered
  <2> QED
    BY <2>1, <2>2 DEF Entry
<1> HIDE DEF first, rest
<1>7. <<first>> \in Log /\ Len(<<first>>) = 1 /\ <<first>>[1] = first
  BY <1>6 DEF Log
<1>8. Compacted(r, l, b) = <<first>> \o rest
  BY DEF Compacted, first, rest
<1>9. /\ Compacted(r, l, b) \in Log /\ Len(Compacted(r, l, b)) = 1 + Len(rest)
      /\ Compacted(r, l, b)[1] = first
      /\ \A i \in 2 .. 1 + Len(rest) : Compacted(r, l, b)[i] = rest[i - 1]
  BY <1>2, <1>6, <1>8 DEF Log
<1> QED
  BY <1>1, <1>2, <1>3, <1>6, <1>9

LEMMA TypeInit == Init => TypeOK
<1> SUFFICES ASSUME Init PROVE TypeOK
  OBVIOUS
<1>1. <<>> \in Log /\ toWorker \in Seq(ToWorker) /\ toMain \in Seq(ToMain)
  BY DEF Init, Log
<1> QED
  BY <1>1 DEF Init, TypeOK, Pending

LEMMA PostType ==
  ASSUME toWorker \in Seq(ToWorker), NEW m \in ToWorker, Post(m)
  PROVE  toWorker' \in Seq(ToWorker)
BY DEF Post

LEMMA RejectType ==
  ASSUME TypeOK, NEW R, NEW how \in Outcome, Reject(R, how)
  PROVE  /\ status' \in [Chats -> {"unsent", "pending"} \cup Outcome]
         /\ \A r \in Chats : status'[r] = IF r \in R /\ status[r] = "pending" THEN how ELSE status[r]
         /\ Pending' = Pending \ R
BY DEF TypeOK, Reject, Pending, Outcome

LEMMA SettleType ==
  ASSUME TypeOK, NEW r \in Pending, NEW how \in Outcome, Settle(r, how)
  PROVE  /\ status' \in [Chats -> {"unsent", "pending"} \cup Outcome]
         /\ Pending' = Pending \ {r}
         /\ active' \in Pending' \cup {0} /\ timer' = 0
BY DEF TypeOK, Settle, Pending, Outcome

LEMMA ResultType ==
  ASSUME TypeOK, NEW r \in Chats, NEW l \in Log
  PROVE  ResultOf(r, l) \in ToMain
<1>1. Len(base[r]) \in Nat /\ Len(l) \in Nat /\ <<>> \in Log
  BY DEF TypeOK, Log
<1>2. Behind(l, Len(base[r])) \in Log
  BY <1>1 DEF Behind, Log
<1> QED
  BY <1>1, <1>2 DEF ResultOf, ToMain, TypeOK

LEMMA MaybeLogsType ==
  ASSUME TypeOK, NEW r \in Chats,
         wlog' \in {wlog} \cup (IF MayGrow(r) THEN {Append(wlog, NewEntry(r, "text"))} ELSE {})
  PROVE  wlog' \in Log
<1>1. CASE MayGrow(r) /\ wlog' = Append(wlog, NewEntry(r, "text"))
  BY <1>1, NewEntryType DEF TypeOK, Log
<1>2. CASE wlog' = wlog
  BY <1>2 DEF TypeOK
<1> QED
  BY <1>1, <1>2

LEMMA RunType ==
  ASSUME TypeOK, NEW r \in Chats, NEW l \in Log, Run(r, l)
  PROVE  /\ wlog' \in Log /\ cached' = TRUE
         /\ task' \in [Chats -> {"none", "syncing", "running", "done"}]
         /\ base' \in [Chats -> Log]
<1>1. PICK form \in {"text", "image"} : wlog' = Append(l, [covers |-> {<<r, 1>>}, by |-> r, form |-> form])
  BY DEF Run
<1>2. [covers |-> {<<r, 1>>}, by |-> r, form |-> form] \in Entry
  BY EntryOf
<1>3. wlog' \in Log
  BY <1>1, <1>2, EndOfChannel DEF Log
<1> QED
  BY <1>3 DEF Run, TypeOK

LEMMA TypeMain ==
  ASSUME TypeOK, \/ \E r \in Chats : Chat(r)
                 \/ CancelSession \/ CancelTimeout \/ Crash \/ Destroy \/ MainReceives
  PROVE  TypeOK'
<1> USE DEF workerVars
<1>1. ASSUME NEW r \in Chats, Chat(r)
      PROVE  TypeOK'
  <2>1. status' \in [Chats -> {"unsent", "pending"} \cup Outcome] /\ active' \in Pending' \cup {0}
    BY <1>1 DEF Chat, TypeOK, Pending
  <2>2. view' \in [Chats -> Log]
    BY <1>1 DEF Chat, TypeOK
  <2>3. CASE synced >= 0 /\ synced <= Len(mirror)
    <3> DEFINE m == [type |-> "incremental", r |-> r, from |-> synced,
                     msgs |-> Behind(mirror, synced), prefix |-> Prefix(mirror, synced)]
    <3>1. synced \in Nat
      BY <2>3 DEF TypeOK
    <3>2. m \in ToWorker
      BY <2>3, <3>1, SubLogs DEF TypeOK, ToWorker
    <3>3. toWorker' \in Seq(ToWorker)
      BY <1>1, <2>3, <3>2, PostType DEF Chat, TypeOK
    <3> QED
      BY <1>1, <2>1, <2>2, <3>3 DEF Chat, TypeOK
  <2>4. CASE ~(synced >= 0 /\ synced <= Len(mirror))
    <3>1. [type |-> "full", r |-> r, msgs |-> mirror] \in ToWorker
      BY DEF TypeOK, ToWorker
    <3>2. toWorker' \in Seq(ToWorker)
      BY <1>1, <2>4, <3>1, PostType DEF Chat, TypeOK
    <3> QED
      BY <1>1, <2>1, <2>2, <3>2 DEF Chat, TypeOK
  <2> QED
    BY <2>3, <2>4
<1>2. CASE CancelSession
  <2>1. [type |-> "cancel", r |-> active] \in ToWorker
    BY <1>2 DEF CancelSession, ToWorker, Pending
  <2>2. toWorker' \in Seq(ToWorker)
    BY <1>2, <2>1, PostType DEF CancelSession, TypeOK
  <2> QED
    BY <1>2, <2>2 DEF CancelSession, TypeOK, Pending
<1>3. CASE CancelTimeout
  <2>1. Reject({timer}, "cancelled") /\ "cancelled" \in Outcome
    BY <1>3 DEF CancelTimeout, Outcome
  <2>2. status' \in [Chats -> {"unsent", "pending"} \cup Outcome]
    BY <2>1, RejectType
  <2>3. <<>> \in Seq(ToWorker)
    OBVIOUS
  <2> QED
    BY <1>3, <2>2, <2>3 DEF CancelTimeout, TypeOK, Pending
<1>4. CASE Crash
  <2>1. Reject(Pending, "crashed") /\ "crashed" \in Outcome
    BY <1>4 DEF Crash, Outcome
  <2>2. status' \in [Chats -> {"unsent", "pending"} \cup Outcome]
    BY <2>1, RejectType
  <2>3. <<>> \in Seq(ToWorker)
    OBVIOUS
  <2> QED
    BY <1>4, <2>2, <2>3 DEF Crash, TypeOK, Pending
<1>5. CASE Destroy
  <2>1. Reject(Pending, "destroyed") /\ "destroyed" \in Outcome
    BY <1>5 DEF Destroy, Outcome
  <2>2. status' \in [Chats -> {"unsent", "pending"} \cup Outcome]
    BY <2>1, RejectType
  <2>3. <<>> \in Seq(ToWorker)
    OBVIOUS
  <2> QED
    BY <1>5, <2>2, <2>3 DEF Destroy, TypeOK, Pending
<1>6. CASE OnCancelled
  <2> DEFINE r == Head(toMain).r
  <2>1. toMain' \in Seq(ToMain)
    BY <1>6, HeadOfChannel DEF OnCancelled, Head0, TypeOK
  <2>2. CASE r \in Pending
    <3>1. Settle(r, "cancelled") /\ "cancelled" \in Outcome
      BY <1>6, <2>2 DEF OnCancelled, Outcome
    <3> QED
      BY <1>6, <2>1, <2>2, <3>1, SettleType DEF OnCancelled, TypeOK
  <2>3. CASE r \notin Pending
    BY <1>6, <2>1, <2>3 DEF OnCancelled, TypeOK, Pending
  <2> QED
    BY <2>2, <2>3
<1>7. CASE OnMismatch
  <2> DEFINE r == Head(toMain).r
  <2>1. toMain' \in Seq(ToMain) /\ r \in Chats
    BY <1>7, HeadOfChannel, ReturnedFields DEF OnMismatch, Head0, TypeOK
  <2>2. [type |-> "sync", r |-> r, msgs |-> mirror] \in ToWorker
    BY <2>1 DEF TypeOK, ToWorker
  <2>3. toWorker' \in Seq(ToWorker)
    BY <1>7, <2>2, PostType DEF OnMismatch, TypeOK
  <2> QED
    BY <1>7, <2>1, <2>3 DEF OnMismatch, Rearm, TypeOK, Pending
<1>8. CASE OnResult
  <2> DEFINE m == Head(toMain)
  <2>1. toMain' \in Seq(ToMain) /\ m \in ToMain /\ m.type = "result"
    BY <1>8, HeadOfChannel DEF OnResult, Head0, TypeOK
  <2>2. CASE m.r \in Pending
    <3>1. m.delta \in Log /\ m.full \in Log /\ m.length \in Nat
      BY <2>1, ReturnedFields
    <3>2. mirror' \in Log /\ synced' \in Nat
      <4>1. mirror \o m.delta \in Log
        BY <3>1 DEF TypeOK, Log
      <4> QED
        BY <1>8, <2>2, <3>1, <4>1 DEF OnResult
    <3>3. Settle(m.r, "resolved") /\ "resolved" \in Outcome
      BY <1>8, <2>2 DEF OnResult, Outcome
    <3> QED
      BY <1>8, <2>1, <2>2, <3>2, <3>3, SettleType DEF OnResult, TypeOK
  <2>3. CASE m.r \notin Pending
    BY <1>8, <2>1, <2>3 DEF OnResult, Rearm, TypeOK, Pending
  <2> QED
    BY <2>2, <2>3
<1>9. CASE OnError
  <2> DEFINE r == Head(toMain).r
  <2>1. toMain' \in Seq(ToMain)
    BY <1>9, HeadOfChannel DEF OnError, Head0, TypeOK
  <2>2. CASE r \in Pending
    <3>1. Settle(r, "failed") /\ "failed" \in Outcome
      BY <1>9, <2>2 DEF OnError, Outcome
    <3> QED
      BY <1>9, <2>1, <2>2, <3>1, SettleType DEF OnError, TypeOK
  <2>3. CASE r \notin Pending
    BY <1>9, <2>1, <2>3 DEF OnError, Rearm, TypeOK, Pending
  <2> QED
    BY <2>2, <2>3
<1> QED
  BY <1>1, <1>2, <1>3, <1>4, <1>5, <1>6, <1>7, <1>8, <1>9 DEF MainReceives

LEMMA TypeWorker ==
  ASSUME TypeOK, WorkerTakes \/ TurnSteps \/ TurnSettles \/ WorkerDies
  PROVE  TypeOK'
<1> USE DEF mainVars
<1> DEFINE m == Head(toWorker)
<1>1. ASSUME toWorker # <<>>
      PROVE  /\ m \in ToWorker /\ m.r \in Chats
             /\ m.type # "cancel" => m.msgs \in Log
             /\ m.type = "incremental" => m.from \in Nat
             /\ Tail(toWorker) \in Seq(ToWorker)
  BY <1>1, HeadOfChannel, SentFields DEF TypeOK
<1>2. CASE TakeFull
  BY <1>1, <1>2, RunType DEF TakeFull, Taken, TypeOK, Pending
<1>3. CASE TakeIncremental
  <2>1. Prefix(wlog, m.from) \o m.msgs \in Log
    <3>1. Prefix(wlog, m.from) \in Log
      BY <1>1, <1>3, SubLogs DEF TakeIncremental, Taken, PrefixVerified, TypeOK
    <3> QED
      BY <1>1, <1>3, <3>1 DEF TakeIncremental, Taken, Log
  <2> QED
    BY <1>1, <1>3, <2>1, RunType DEF TakeIncremental, Taken, TypeOK, Pending
<1>4. CASE AskFullSync
  <2>1. [type |-> "mismatch", r |-> m.r] \in ToMain
    BY <1>1, <1>4 DEF AskFullSync, Taken, ToMain
  <2> QED
    BY <1>1, <1>4, <2>1, EndOfChannel DEF AskFullSync, Taken, TypeOK, Pending
<1>5. CASE TakeSync
  BY <1>1, <1>5, RunType DEF TakeSync, Taken, TypeOK, Pending
<1>6. CASE TakeCancel
  <2>1. m.r \in Chats /\ Tail(toWorker) \in Seq(ToWorker)
    BY <1>1, <1>6 DEF TakeCancel, Taken
  <2> DEFINE ack == Append(toMain, [type |-> "cancelled", r |-> m.r])
  <2>2. ack \in Seq(ToMain)
    <3>1. [type |-> "cancelled", r |-> m.r] \in ToMain
      BY <2>1 DEF ToMain
    <3> QED
      BY <3>1, EndOfChannel DEF TypeOK
  <2>3. wlog' \in Log
    BY <1>6, <2>1, MaybeLogsType DEF TakeCancel, TypeOK
  <2>4. toMain' \in Seq(ToMain)
    <3>1. \A l \in Log : Append(ack, ResultOf(m.r, l)) \in Seq(ToMain)
      BY <2>1, <2>2, ResultType, EndOfChannel
    <3>2. toMain' = ack \/ toMain' = Append(ack, ResultOf(m.r, wlog'))
      BY <1>6 DEF TakeCancel
    <3> QED
      BY <2>2, <2>3, <3>1, <3>2
  <2>5. task' \in [Chats -> {"none", "syncing", "running", "done"}]
    BY <1>6, <2>1 DEF TakeCancel, TypeOK
  <2> QED
    BY <1>6, <2>1, <2>3, <2>4, <2>5 DEF TakeCancel, TypeOK, Pending
<1>7. ASSUME NEW r \in Chats, TurnAppends(r)
      PROVE  TypeOK'
  <2>1. wlog' \in Log
    BY <1>7, NewEntryType, EndOfChannel DEF TurnAppends, TypeOK, Log
  <2> QED
    BY <1>7, <2>1 DEF TurnAppends, TypeOK, Pending
<1>8. ASSUME NEW r \in Chats, TurnCompacts(r)
      PROVE  TypeOK'
  <2>1. wlog' \in Log
    BY <1>8, CompactedType DEF TurnCompacts, TypeOK
  <2> QED
    BY <1>8, <2>1 DEF TurnCompacts, TypeOK, Pending
<1>9. ASSUME NEW r \in Chats, TurnStripsImages(r)
      PROVE  TypeOK'
  <2>1. wlog' \in Log
    BY <1>9, StripType DEF TurnStripsImages, TypeOK
  <2> QED
    BY <1>9, <2>1 DEF TurnStripsImages, TypeOK, Pending
<1>10. ASSUME NEW r \in Chats, TurnEnds(r)
       PROVE  TypeOK'
  <2>1. toMain' \in Seq(ToMain)
    BY <1>10, ResultType, EndOfChannel DEF TurnEnds, TypeOK
  <2> QED
    BY <1>10, <2>1 DEF TurnEnds, TypeOK, Pending
<1>11. ASSUME NEW r \in Chats, TurnFails(r)
       PROVE  TypeOK'
  <2>1. wlog' \in Log
    BY <1>11, MaybeLogsType DEF TurnFails
  <2>2. [type |-> "error", r |-> r] \in ToMain
    BY DEF ToMain
  <2>3. toMain' \in Seq(ToMain)
    BY <1>11, <2>2, EndOfChannel DEF TurnFails, TypeOK
  <2> QED
    BY <1>11, <2>1, <2>3 DEF TurnFails, TypeOK, Pending
<1>12. CASE WorkerDies
  BY <1>12 DEF WorkerDies, TypeOK, Pending
<1> QED
  BY <1>2, <1>3, <1>4, <1>5, <1>6, <1>7, <1>8, <1>9, <1>10, <1>11, <1>12
     DEF WorkerTakes, TurnSteps, TurnSettles

LEMMA TypeStep ==
  ASSUME TypeOK, [Next]_vars
  PROVE  TypeOK'
<1>1. CASE UNCHANGED vars
  BY <1>1 DEF vars, mainVars, workerVars, TypeOK, Pending
<1> QED
  BY <1>1, TypeMain, TypeWorker DEF Next

(* Every variable keeps its type.                                          *)
THEOREM TypeCorrect == Spec => []TypeOK
<1> QED
  BY TypeInit, TypeStep, PTL DEF Spec

-----------------------------------------------------------------------------
(* What the channels hold: a message is added behind the others, or the    *)
(* first one is taken.                                                     *)
Grows(c, d, m) ==
  /\ Len(d) = Len(c) + 1 /\ d[Len(c) + 1] = m
  /\ \A i \in 1 .. Len(c) : d[i] = c[i]
Shrinks(c, d) ==
  /\ Len(c) >= 1 /\ Len(d) = Len(c) - 1
  /\ \A i \in 1 .. Len(d) : d[i] = c[i + 1]

LEMMA Lengths ==
  ASSUME TypeOK
  PROVE  /\ Len(toWorker) \in Nat /\ Len(toMain) \in Nat
         /\ \A i \in Out : toWorker[i] \in ToWorker /\ toWorker[i].r \in Chats
         /\ \A i \in Back : toMain[i] \in ToMain /\ toMain[i].r \in Chats
<1>1. /\ Len(toWorker) \in Nat /\ Len(toMain) \in Nat
      /\ \A i \in Out : toWorker[i] \in ToWorker
      /\ \A i \in Back : toMain[i] \in ToMain
  BY DEF TypeOK, Out, Back
<1> QED
  BY <1>1, SentFields, ReturnedFields

LEMMA PostGrows ==
  ASSUME TypeOK, NEW m, Post(m)
  PROVE  IF agent = "up" THEN Grows(toWorker, toWorker', m) ELSE toWorker' = toWorker
<1>1. toWorker \in Seq(ToWorker \cup {m})
  BY DEF TypeOK
<1> QED
  BY <1>1, EndOfChannel DEF Post, Grows

LEMMA MainReads ==
  ASSUME TypeOK, toMain # <<>>, toMain' = Tail(toMain)
  PROVE  /\ Shrinks(toMain, toMain') /\ 1 \in Back /\ Head(toMain) = toMain[1]
         /\ toMain[1] \in ToMain /\ toMain[1].r \in Chats
BY HeadOfChannel, ReturnedFields DEF TypeOK, Shrinks, Back

LEMMA WorkerReads ==
  ASSUME TypeOK, toWorker # <<>>, toWorker' = Tail(toWorker)
  PROVE  /\ Shrinks(toWorker, toWorker') /\ 1 \in Out /\ Head(toWorker) = toWorker[1]
         /\ toWorker[1] \in ToWorker /\ toWorker[1].r \in Chats
BY HeadOfChannel, SentFields DEF TypeOK, Shrinks, Out

LEMMA WorkerWrites ==
  ASSUME TypeOK, NEW m, toMain' = Append(toMain, m)
  PROVE  Grows(toMain, toMain', m)
<1>1. toMain \in Seq(ToMain \cup {m})
  BY DEF TypeOK
<1> QED
  BY <1>1, EndOfChannel DEF Grows

LEMMA UniqueAsk ==
  ASSUME NEW c, NEW c2, NEW d, NEW m, Len(c) \in Nat, Unique(c, d), Grows(c, c2, m),
         m.type \in Requests => /\ \A i \in 1 .. Len(c) : c[i].type \in Requests => c[i].r # m.r
                                /\ \A j \in 1 .. Len(d) :
                                     d[j].type \in {"mismatch", "result"} => d[j].r # m.r
  PROVE  Unique(c2, d)
<1>1. ASSUME NEW i \in 1 .. Len(c2)
      PROVE  IF i = Len(c2) THEN c2[i] = m ELSE i \in 1 .. Len(c) /\ c2[i] = c[i]
  BY DEF Grows
<1>2. Len(c2) = Len(c) + 1
  BY DEF Grows
<1>3. \A i, j \in 1 .. Len(c2) :
        c2[i].type \in Requests /\ c2[j].type \in Requests /\ c2[i].r = c2[j].r => i = j
  BY <1>1, <1>2 DEF Unique
<1>4. \A i \in 1 .. Len(c2), j \in 1 .. Len(d) :
        c2[i].type \in Requests /\ d[j].type \in {"mismatch", "result"} => c2[i].r # d[j].r
  BY <1>1 DEF Unique
<1> QED
  BY <1>3, <1>4 DEF Unique

LEMMA UniqueTaken ==
  ASSUME NEW c, NEW c2, NEW d, Len(c) \in Nat, Unique(c, d), Shrinks(c, c2)
  PROVE  /\ Unique(c2, d)
         /\ c[1].type \in Requests =>
              \A i \in 1 .. Len(c2) : c2[i].type \in Requests => c2[i].r # c[1].r
<1>1. \A i \in 1 .. Len(c2) : i + 1 \in 1 .. Len(c) /\ c2[i] = c[i + 1] /\ i + 1 # 1
  BY DEF Shrinks
<1>2. 1 \in 1 .. Len(c)
  BY DEF Shrinks
<1>3. ASSUME NEW i \in 1 .. Len(c2), NEW j \in 1 .. Len(c2),
             c2[i].type \in Requests, c2[j].type \in Requests, c2[i].r = c2[j].r
      PROVE  i = j
  <2>1. i + 1 = j + 1
    BY <1>1, <1>3 DEF Unique
  <2> QED
    BY <2>1
<1>4. \A i \in 1 .. Len(c2), j \in 1 .. Len(d) :
        c2[i].type \in Requests /\ d[j].type \in {"mismatch", "result"} => c2[i].r # d[j].r
  BY <1>1 DEF Unique
<1>5. ASSUME c[1].type \in Requests, NEW i \in 1 .. Len(c2), c2[i].type \in Requests
      PROVE  c2[i].r # c[1].r
  BY <1>1, <1>2, <1>5 DEF Unique
<1> QED
  BY <1>3, <1>4, <1>5 DEF Unique

LEMMA UniqueReply ==
  ASSUME NEW c, NEW d, NEW d2, NEW m, Len(d) \in Nat, Unique(c, d), Grows(d, d2, m),
         m.type \in {"mismatch", "result"} =>
           /\ \A i \in 1 .. Len(c) : c[i].type \in Requests => c[i].r # m.r
           /\ \A j \in 1 .. Len(d) : d[j].type = "mismatch" => d[j].r # m.r,
         m.type = "mismatch" => \A j \in 1 .. Len(d) : d[j].type = "result" => d[j].r # m.r
  PROVE  Unique(c, d2)
<1>1. ASSUME NEW i \in 1 .. Len(d2)
      PROVE  IF i = Len(d2) THEN d2[i] = m ELSE i \in 1 .. Len(d) /\ d2[i] = d[i]
  BY DEF Grows
<1>2. Len(d2) = Len(d) + 1
  BY DEF Grows
<1>3. \A i, j \in 1 .. Len(d2) :
        d2[i].type = "mismatch" /\ d2[j].type \in {"mismatch", "result"} /\ d2[i].r = d2[j].r => i = j
  BY <1>1, <1>2 DEF Unique
<1>4. \A i \in 1 .. Len(c), j \in 1 .. Len(d2) :
        c[i].type \in Requests /\ d2[j].type \in {"mismatch", "result"} => c[i].r # d2[j].r
  BY <1>1 DEF Unique
<1> QED
  BY <1>3, <1>4 DEF Unique

LEMMA UniqueRead ==
  ASSUME NEW c, NEW d, NEW d2, Len(d) \in Nat, Unique(c, d), Shrinks(d, d2)
  PROVE  /\ Unique(c, d2)
         /\ d[1].type = "mismatch" =>
              /\ \A i \in 1 .. Len(c) : c[i].type \in Requests => c[i].r # d[1].r
              /\ \A j \in 1 .. Len(d2) : d2[j].type \in {"mismatch", "result"} => d2[j].r # d[1].r
<1>1. \A i \in 1 .. Len(d2) : i + 1 \in 1 .. Len(d) /\ d2[i] = d[i + 1] /\ i + 1 # 1
  BY DEF Shrinks
<1>2. 1 \in 1 .. Len(d)
  BY DEF Shrinks
<1>3. ASSUME NEW i \in 1 .. Len(d2), NEW j \in 1 .. Len(d2),
             d2[i].type = "mismatch", d2[j].type \in {"mismatch", "result"}, d2[i].r = d2[j].r
      PROVE  i = j
  <2>1. i + 1 = j + 1
    BY <1>1, <1>3 DEF Unique
  <2> QED
    BY <2>1
<1>4. \A i \in 1 .. Len(c), j \in 1 .. Len(d2) :
        c[i].type \in Requests /\ d2[j].type \in {"mismatch", "result"} => c[i].r # d2[j].r
  BY <1>1 DEF Unique
<1>5. ASSUME d[1].type = "mismatch"
      PROVE  /\ \A i \in 1 .. Len(c) : c[i].type \in Requests => c[i].r # d[1].r
             /\ \A j \in 1 .. Len(d2) : d2[j].type \in {"mismatch", "result"} => d2[j].r # d[1].r
  <2>1. \A i \in 1 .. Len(c) : c[i].type \in Requests => c[i].r # d[1].r
    BY <1>2, <1>5 DEF Unique
  <2>2. ASSUME NEW j \in 1 .. Len(d2), d2[j].type \in {"mismatch", "result"}
        PROVE  d2[j].r # d[1].r
    BY <1>1, <1>2, <1>5, <2>2 DEF Unique
  <2> QED
    BY <2>1, <2>2
<1> QED
  BY <1>3, <1>4, <1>5 DEF Unique

LEMMA ChannelsInit == Init => Channels
BY DEF Init, Channels, InOrder, Sent, OneRequest, Unique, Phases, Working, Out, Back, Outcome

LEMMA ChannelsChat ==
  ASSUME TypeOK, Channels, NEW r \in Chats, Chat(r)
  PROVE  Channels'
<1> USE DEF Channels
<1>1. PICK m : /\ m.type \in Opening /\ m.r = r /\ Grows(toWorker, toWorker', m)
  <2>1. PICK m : m.type \in Opening /\ m.r = r /\ Post(m)
    BY DEF Chat, Opening
  <2> QED
    BY <2>1, PostGrows DEF Chat
<1>2. /\ agent = "up" /\ toMain' = toMain /\ task' = task /\ stopping' = stopping /\ agent' = agent
      /\ alive' = alive
      /\ status[r] = "unsent" /\ \A q \in Chats : q < r => q \in Sent
      /\ Sent' = Sent \cup {r} /\ Pending' = Pending \cup {r}
      /\ \A q \in Chats \ {r} : status'[q] = status[q]
      /\ status'[r] = "pending"
      /\ Pending \subseteq stopping
  BY DEF Chat, workerVars, Sent, Pending, TypeOK
<1>3. task[r] = "none" /\ r \notin stopping /\ r \notin Sent
  BY <1>2 DEF InOrder, Sent
<1>4. \A i \in Out : toWorker[i].r # r
  BY <1>2, <1>3 DEF InOrder
<1>5. \A i \in Back : toMain[i].r # r
  BY <1>2, <1>3 DEF InOrder
<1>6. Len(toWorker) \in Nat /\ Len(toMain) \in Nat
  BY Lengths
<1>7. InOrder'
  <2>1. ASSUME NEW q \in Chats, NEW p \in Chats, p < q, q \in Sent'
        PROVE  p \in Sent'
    BY <1>2, <2>1 DEF InOrder
  <2>2. ASSUME NEW q \in Chats, q \notin Sent'
        PROVE  /\ task[q] = "none" /\ q \notin stopping
               /\ \A i \in Out' : toWorker'[i].r # q
               /\ \A i \in Back : toMain[i].r # q
    BY <1>1, <1>2, <1>6, <2>2 DEF InOrder, Out, Grows
  <2> QED
    BY <1>2, <2>1, <2>2 DEF InOrder, Back
<1>8. OneRequest'
  BY <1>1, <1>2, <1>4, <1>5, <1>6, UniqueAsk DEF OneRequest, Out, Back
<1>9. Phases'
  BY <1>1, <1>2, <1>3, <1>6 DEF Phases, Out, Back, Grows, Opening
<1>10. Working'
  <2> SUFFICES ASSUME alive
               PROVE  Working'
    BY <1>2 DEF Working
  <2>1. \A i \in Out, q \in Chats : /\ i \in Out' /\ toWorker'[i] = toWorker[i]
                                    /\ Opens(toWorker'[i], q) <=> Opens(toWorker[i], q)
                                    /\ Stops(toWorker'[i], q) <=> Stops(toWorker[i], q)
    BY <1>1, <1>6 DEF Out, Grows, Opens, Stops
  <2>2. /\ Len(toWorker) + 1 \in Out' /\ Opens(toWorker'[Len(toWorker) + 1], r)
        /\ Out' = Out \cup {Len(toWorker) + 1}
        /\ \A q \in Chats : ~Stops(toWorker'[Len(toWorker) + 1], q)
    BY <1>1, <1>6 DEF Out, Grows, Opens, Stops, Opening
  <2>3. \A q \in Chats : status'[q] \in Outcome => task[q] = "done"
    BY <1>2 DEF Working, Outcome
  <2>4. \A q \in stopping : task[q] = "done" \/ \E k \in Out' : Stops(toWorker'[k], q)
    BY <2>1 DEF Working, TypeOK
  <2>5. \A q \in Sent' : task[q] = "none" => \E i \in Out' : Opens(toWorker'[i], q)
    BY <1>2, <2>1, <2>2 DEF Working, Sent
  <2>6. \A q \in Chats : \A k \in Out' :
          Stops(toWorker'[k], q) /\ task[q] = "none" => \E i \in Out' : i < k /\ Opens(toWorker'[i], q)
    BY <1>6, <2>1, <2>2 DEF Working
  <2>7. ASSUME NEW p \in Chats, NEW q \in Sent', p < q
        PROVE  task[p] = "done" \/ \E k, j \in Out' : k < j /\ Stops(toWorker'[k], p) /\ Opens(toWorker'[j], q)
    <3>1. CASE q = r
      <4>1. p \in Sent
        BY <1>2, <2>7, <3>1
      <4>2. p \in stopping \/ task[p] = "done"
        BY <1>2, <4>1 DEF Working, Sent, Pending, TypeOK
      <4>3. task[p] = "done" \/ \E k \in Out : Stops(toWorker[k], p)
        BY <4>2 DEF Working
      <4>4. \A k \in Out : k < Len(toWorker) + 1
        BY <1>6 DEF Out
      <4> QED
        BY <2>1, <2>2, <3>1, <4>3, <4>4
    <3>2. CASE q \in Sent
      BY <2>1, <2>7, <3>2 DEF Working
    <3> QED
      BY <1>2, <3>1, <3>2
  <2> QED
    BY <1>2, <2>3, <2>4, <2>5, <2>6, <2>7 DEF Working
<1> QED
  BY <1>7, <1>8, <1>9, <1>10

LEMMA ChannelsCancel ==
  ASSUME TypeOK, Channels, CancelSession
  PROVE  Channels'
<1> USE DEF Channels
<1> DEFINE m == [type |-> "cancel", r |-> active]
<1>1. /\ agent' = agent /\ agent = "up" /\ Grows(toWorker, toWorker', m)
      /\ active \in Chats /\ active \in Sent
      /\ stopping' = stopping \cup {active}
      /\ UNCHANGED <<status, toMain, task, alive>> /\ Sent' = Sent
      /\ Len(toWorker) \in Nat
  BY PostGrows, Lengths DEF CancelSession, workerVars, Sent, Pending
<1>2. InOrder'
  BY <1>1 DEF InOrder, Out, Back, Grows
<1>3. OneRequest'
  <2>1. m.type \notin Requests
    BY DEF Requests, Opening
  <2> QED
    BY <1>1, <2>1, UniqueAsk DEF OneRequest
<1>4. Phases'
  BY <1>1 DEF Phases, Out, Back, Grows, Opening
<1>5. Working'
  <2> SUFFICES ASSUME alive
               PROVE  Working'
    BY <1>1 DEF Working
  <2> DEFINE n == Len(toWorker) + 1
  <2>1. \A i \in Out : i \in Out' /\ toWorker'[i] = toWorker[i] /\ i < n
    BY <1>1 DEF Out, Grows
  <2>2. /\ n \in Out' /\ Stops(toWorker'[n], active) /\ Out' = Out \cup {n}
        /\ \A q \in Chats \ {active} : ~Stops(toWorker'[n], q)
    BY <1>1 DEF Out, Grows, Stops
  <2> HIDE DEF n
  <2>3. \A q \in stopping' : task[q] = "done" \/ \E k \in Out' : Stops(toWorker'[k], q)
    BY <1>1, <2>1, <2>2 DEF Working
  <2>4. \A q \in Sent : task[q] = "none" => \E i \in Out' : Opens(toWorker'[i], q)
    BY <2>1 DEF Working
  <2>5. ASSUME NEW q \in Chats, NEW k \in Out', Stops(toWorker'[k], q), task[q] = "none"
        PROVE  \E i \in Out' : i < k /\ Opens(toWorker'[i], q)
    <3>1. CASE k \in Out
      BY <2>1, <2>5, <3>1 DEF Working
    <3>2. CASE k = n
      <4>1. q \in Sent
        BY <1>1, <2>2, <2>5, <3>2
      <4>2. PICK i \in Out : Opens(toWorker[i], q)
        BY <2>5, <4>1 DEF Working
      <4> QED
        BY <2>1, <3>2, <4>2
    <3> QED
      BY <2>2, <3>1, <3>2
  <2>6. \A p \in Chats : \A q \in Sent :
          p < q => task[p] = "done" \/ \E k, j \in Out' : /\ k < j /\ Stops(toWorker'[k], p)
                                                         /\ Opens(toWorker'[j], q)
    BY <2>1 DEF Working
  <2> QED
    BY <1>1, <2>3, <2>4, <2>5, <2>6 DEF Working
<1> QED
  BY <1>2, <1>3, <1>4, <1>5

LEMMA ChannelsGivenUp ==
  ASSUME TypeOK, Channels, CancelTimeout \/ Crash \/ Destroy
  PROVE  Channels'
<1> USE DEF Channels
<1>1. /\ ~alive' /\ Len(toWorker') = 0
      /\ UNCHANGED <<toMain, task, stopping>>
  BY DEF CancelTimeout, Crash, Destroy
<1>2. Sent' = Sent
  <2>1. ASSUME NEW R, NEW how \in Outcome, Reject(R, how)
        PROVE  Sent' = Sent
    BY <2>1, RejectType DEF Sent, Outcome, TypeOK
  <2>2. {"cancelled", "crashed", "destroyed"} \subseteq Outcome
    BY DEF Outcome
  <2> QED
    BY <2>1, <2>2 DEF CancelTimeout, Crash, Destroy
<1> QED
  BY <1>1, <1>2 DEF InOrder, OneRequest, Unique, Phases, Working, Out, Back

(* A settled chat is one the worker is done with.                          *)
LEMMA Settled ==
  ASSUME TypeOK, Channels, OnCancelled \/ OnResult \/ OnError
  PROVE  /\ UNCHANGED <<toWorker, task, stopping, alive, agent>>
         /\ Shrinks(toMain, toMain') /\ Sent' = Sent
         /\ \A q \in Chats : \/ status'[q] = status[q]
                             \/ status[q] = "pending" /\ task[q] = "done" /\ q = toMain[1].r
<1>1. /\ UNCHANGED <<toWorker, task, stopping, alive, agent>>
      /\ toMain # <<>> /\ toMain' = Tail(toMain) /\ Head(toMain).type # "mismatch"
  BY DEF OnCancelled, OnResult, OnError, Head0, workerVars
<1>2. /\ Shrinks(toMain, toMain') /\ 1 \in Back /\ Head(toMain) = toMain[1]
      /\ toMain[1].r \in Chats
  BY <1>1, MainReads
<1>3. task[toMain[1].r] = "done"
  BY <1>1, <1>2 DEF Channels, Phases
<1>4. \/ status' = status
      \/ /\ toMain[1].r \in Pending
         /\ \E how \in Outcome : status' = [status EXCEPT ![toMain[1].r] = how]
  BY <1>2 DEF OnCancelled, OnResult, OnError, Settle, Outcome
<1>5. Sent' = Sent
  BY <1>4 DEF Sent, Pending, Outcome, TypeOK
<1> QED
  BY <1>1, <1>2, <1>3, <1>4, <1>5 DEF Pending, TypeOK

LEMMA ChannelsSettle ==
  ASSUME TypeOK, Channels, OnCancelled \/ OnResult \/ OnError
  PROVE  Channels'
<1> USE DEF Channels
<1>1. Len(toMain) \in Nat
  BY Lengths
<1>2. \A i \in Back' : i + 1 \in Back /\ toMain'[i] = toMain[i + 1]
  BY <1>1, Settled DEF Shrinks, Back
<1>3. OneRequest'
  BY <1>1, Settled, UniqueRead DEF OneRequest
<1>4. InOrder'
  BY <1>2, Settled DEF InOrder, Out
<1>5. Phases'
  BY <1>2, Settled DEF Phases, Out
<1>6. Working'
  <2>1. alive => \A q \in Chats : status'[q] \in Outcome => task[q] = "done"
    BY Settled DEF Working
  <2> QED
    BY <2>1, Settled DEF Working, Out
<1> QED
  BY <1>3, <1>4, <1>5, <1>6

LEMMA ChannelsMismatch ==
  ASSUME TypeOK, Channels, OnMismatch
  PROVE  Channels'
<1> USE DEF Channels
<1> DEFINE r == toMain[1].r
           m == [type |-> "sync", r |-> r, msgs |-> mirror]
<1>1. /\ UNCHANGED <<status, stopping, agent, task, alive>>
      /\ toMain # <<>> /\ toMain' = Tail(toMain) /\ Head(toMain).type = "mismatch"
  BY DEF OnMismatch, Head0, workerVars
<1>2. /\ Shrinks(toMain, toMain') /\ 1 \in Back /\ Head(toMain) = toMain[1] /\ r \in Chats
      /\ toMain[1].type = "mismatch"
  BY <1>1, MainReads
<1>3. \/ toWorker' = toWorker
      \/ Grows(toWorker, toWorker', m)
  <2>1. Post(m)
    BY <1>2 DEF OnMismatch
  <2> QED
    BY <2>1, PostGrows
<1>4. m.type = "sync" /\ m.r = r
  OBVIOUS
<1> HIDE DEF m
<1>5. Len(toMain) \in Nat /\ Len(toWorker) \in Nat
  BY Lengths
<1>6. \A i \in Back' : i + 1 \in Back /\ toMain'[i] = toMain[i + 1]
  BY <1>2, <1>5 DEF Shrinks, Back
<1>7. Sent' = Sent /\ r \in Sent /\ task[r] \in {"syncing", "done"}
  BY <1>1, <1>2 DEF InOrder, Phases, Sent
<1>8. OneRequest'
  <2>1. /\ Unique(toWorker, toMain')
        /\ \A i \in 1 .. Len(toWorker) : toWorker[i].type \in Requests => toWorker[i].r # r
        /\ \A j \in 1 .. Len(toMain') :
             toMain'[j].type \in {"mismatch", "result"} => toMain'[j].r # r
    BY <1>2, <1>5, UniqueRead DEF OneRequest
  <2>2. CASE Grows(toWorker, toWorker', m)
    BY <1>4, <1>5, <2>1, <2>2, UniqueAsk DEF OneRequest
  <2>3. CASE toWorker' = toWorker
    BY <2>1, <2>3 DEF OneRequest
  <2> QED
    BY <1>3, <2>2, <2>3
<1>9. \A i \in Out' : \/ i \in Out /\ toWorker'[i] = toWorker[i]
                      \/ toWorker'[i] = m
  BY <1>3, <1>5 DEF Out, Grows
<1>10. \A i \in Out : i \in Out' /\ toWorker'[i] = toWorker[i]
  BY <1>3, <1>5 DEF Out, Grows
<1>11. InOrder'
  <2>1. ASSUME NEW q \in Chats, q \notin Sent
        PROVE  \A i \in Out' : toWorker'[i].r # q
    BY <1>4, <1>7, <1>9, <2>1 DEF InOrder
  <2>2. ASSUME NEW q \in Chats, q \notin Sent
        PROVE  \A i \in Back' : toMain'[i].r # q
    BY <1>6, <2>2 DEF InOrder
  <2> QED
    BY <1>1, <1>7, <2>1, <2>2 DEF InOrder
<1>12. Phases'
  BY <1>4, <1>1, <1>6, <1>7, <1>9 DEF Phases, Opening
<1>13. Working'
  <2>1. \A q : ~Stops(m, q)
    BY <1>4 DEF Stops
  <2>2. ASSUME NEW q \in Chats, NEW k \in Out', Stops(toWorker'[k], q), task[q] = "none", alive
        PROVE  \E i \in Out' : i < k /\ Opens(toWorker'[i], q)
    BY <1>9, <1>10, <2>1, <2>2 DEF Working
  <2> QED
    BY <1>1, <1>7, <1>10, <2>2 DEF Working
<1> QED
  BY <1>8, <1>11, <1>12, <1>13

(* When a message is taken the worker goes on with the chat it is about.   *)
LEMMA WorkingTaken ==
  ASSUME TypeOK, Channels, alive, UNCHANGED <<alive, agent, status, stopping>>,
         Shrinks(toWorker, toWorker'),
         \A q \in Chats \ {toWorker[1].r} : task'[q] = task[q],
         task'[toWorker[1].r] # "none",
         toWorker[1].type = "cancel" \/ task[toWorker[1].r] = "done" => task'[toWorker[1].r] = "done"
  PROVE  Working'
<1> USE DEF Channels
<1> DEFINE r == toWorker[1].r
<1>1. Len(toWorker) \in Nat /\ r \in Chats /\ Sent' = Sent
  BY Lengths DEF Shrinks, Out, Sent
<1>2. \A k \in Out' : k + 1 \in Out /\ toWorker'[k] = toWorker[k + 1]
  BY <1>1 DEF Out, Shrinks
<1>3. \A k \in Out : k = 1 \/ (k - 1 \in Out' /\ toWorker'[k - 1] = toWorker[k] /\ k > 1)
  <2>1. ASSUME NEW k \in Out, k # 1
        PROVE  k - 1 \in Out' /\ toWorker'[k - 1] = toWorker[k] /\ k > 1
    <3>1. k - 1 \in 1 .. Len(toWorker') /\ k > 1 /\ (k - 1) + 1 = k
      BY <1>1, <2>1 DEF Out, Shrinks
    <3> QED
      BY <3>1 DEF Out, Shrinks
  <2> QED
    BY <2>1
<1>4. \A q \in Chats : task[q] = "done" => task'[q] = "done"
  OBVIOUS
<1>5. \A q \in Chats : task'[q] = "none" => task[q] = "none" /\ q # r
  OBVIOUS
<1>6. ASSUME NEW q \in Chats, q # r
      PROVE  ~Opens(toWorker[1], q) /\ ~Stops(toWorker[1], q)
  BY <1>6 DEF Opens, Stops
<1>7. ASSUME NEW q \in Chats, Stops(toWorker[1], q)
      PROVE  task'[q] = "done"
  BY <1>7 DEF Stops
<1>8. \A q \in Chats : status'[q] \in Outcome => task'[q] = "done"
  BY <1>4 DEF Working
<1>9. \A q \in stopping' : task'[q] = "done" \/ \E k \in Out' : Stops(toWorker'[k], q)
  <2>1. ASSUME NEW q \in stopping, NEW k \in Out, Stops(toWorker[k], q)
        PROVE  task'[q] = "done" \/ \E j \in Out' : Stops(toWorker'[j], q)
    BY <1>3, <1>7, <2>1 DEF TypeOK
  <2> QED
    BY <1>4, <2>1 DEF Working, TypeOK
<1>10. ASSUME NEW q \in Sent', task'[q] = "none"
       PROVE  \E i \in Out' : Opens(toWorker'[i], q)
  <2>1. q \in Chats /\ task[q] = "none" /\ q # r
    BY <1>1, <1>5, <1>10 DEF Sent
  <2>2. PICK i \in Out : Opens(toWorker[i], q)
    BY <1>1, <1>10, <2>1 DEF Working
  <2> QED
    BY <1>3, <1>6, <2>1, <2>2
<1>11. ASSUME NEW q \in Chats, NEW k \in Out', Stops(toWorker'[k], q), task'[q] = "none"
       PROVE  \E i \in Out' : i < k /\ Opens(toWorker'[i], q)
  <2>1. k + 1 \in Out /\ Stops(toWorker[k + 1], q) /\ task[q] = "none" /\ q # r /\ k \in Nat
    BY <1>2, <1>5, <1>11 DEF Out
  <2>2. PICK i \in Out : i < k + 1 /\ Opens(toWorker[i], q)
    BY <2>1 DEF Working
  <2>3. i - 1 \in Out' /\ Opens(toWorker'[i - 1], q) /\ i - 1 < k
    BY <1>3, <1>6, <2>1, <2>2 DEF Out
  <2> QED
    BY <2>3
<1>12. ASSUME NEW p \in Chats, NEW q \in Sent', p < q
       PROVE  task'[p] = "done" \/ \E k, j \in Out' : /\ k < j /\ Stops(toWorker'[k], p)
                                                     /\ Opens(toWorker'[j], q)
  <2>1. CASE task[p] = "done"
    BY <1>4, <2>1
  <2>2. ASSUME NEW k \in Out, NEW j \in Out, k < j, Stops(toWorker[k], p), Opens(toWorker[j], q)
        PROVE  task'[p] = "done" \/ \E i, n \in Out' : /\ i < n /\ Stops(toWorker'[i], p)
                                                      /\ Opens(toWorker'[n], q)
    <3>1. CASE k = 1
      BY <1>7, <2>2, <3>1
    <3>2. CASE k # 1
      <4>1. /\ k - 1 \in Out' /\ toWorker'[k - 1] = toWorker[k]
            /\ j - 1 \in Out' /\ toWorker'[j - 1] = toWorker[j]
            /\ k - 1 < j - 1
        BY <1>3, <2>2, <3>2 DEF Out
      <4> QED
        BY <2>2, <4>1
    <3> QED
      BY <3>1, <3>2
  <2> QED
    BY <1>1, <1>12, <2>1, <2>2 DEF Working
<1> QED
  BY <1>8, <1>9, <1>10, <1>11, <1>12 DEF Working

LEMMA TakenMessage ==
  ASSUME TypeOK, Channels, WorkerTakes
  PROVE  /\ alive /\ Shrinks(toWorker, toWorker') /\ Head(toWorker) = toWorker[1] /\ 1 \in Out
         /\ toWorker[1] \in ToWorker /\ toWorker[1].r \in Chats /\ toWorker[1].r \in Sent
         /\ UNCHANGED <<alive, agent, status, stopping, view>> /\ Sent' = Sent
         /\ \A k \in Out' : k + 1 \in Out /\ toWorker'[k] = toWorker[k + 1]
         /\ Unique(toWorker', toMain)
         /\ toWorker[1].type \in Requests =>
              /\ \A i \in Out' : toWorker'[i].type \in Requests => toWorker'[i].r # toWorker[1].r
              /\ \A j \in Back : toMain[j].type \in {"mismatch", "result"} => toMain[j].r # toWorker[1].r
<1> USE DEF Channels
<1>1. /\ alive /\ toWorker # <<>> /\ toWorker' = Tail(toWorker)
      /\ UNCHANGED <<alive, agent, status, stopping, view>>
  BY DEF WorkerTakes, TakeFull, TakeIncremental, AskFullSync, TakeSync, TakeCancel, Taken, mainVars
<1>2. /\ Shrinks(toWorker, toWorker') /\ Head(toWorker) = toWorker[1] /\ 1 \in Out
      /\ toWorker[1] \in ToWorker /\ toWorker[1].r \in Chats
  BY <1>1, WorkerReads
<1>3. Len(toWorker) \in Nat
  BY Lengths
<1>4. \A k \in Out' : k + 1 \in Out /\ toWorker'[k] = toWorker[k + 1]
  BY <1>2, <1>3 DEF Shrinks, Out
<1>5. /\ Unique(toWorker', toMain)
      /\ toWorker[1].type \in Requests =>
           \A i \in Out' : toWorker'[i].type \in Requests => toWorker'[i].r # toWorker[1].r
  BY <1>2, <1>3, UniqueTaken DEF OneRequest, Out
<1>6. toWorker[1].type \in Requests =>
        \A j \in Back : toMain[j].type \in {"mismatch", "result"} => toMain[j].r # toWorker[1].r
  BY <1>2 DEF OneRequest, Unique, Out, Back
<1>7. Sent' = Sent /\ toWorker[1].r \in Sent
  BY <1>1, <1>2 DEF InOrder, Sent
<1> QED
  BY <1>1, <1>2, <1>4, <1>5, <1>6, <1>7

(* A request is taken: the turn runs, or waits for the whole log.          *)
LEMMA ChannelsRequest ==
  ASSUME TypeOK, Channels, WorkerTakes,
         toWorker[1].type \in Requests, task[toWorker[1].r] # "done",
         \E p \in {"running", "syncing"} :
           /\ task' = [task EXCEPT ![toWorker[1].r] = p]
           /\ \/ toMain' = toMain
              \/ /\ p = "syncing"
                 /\ toMain' = Append(toMain, [type |-> "mismatch", r |-> toWorker[1].r])
  PROVE  Channels'
<1> USE DEF Channels
<1> DEFINE r == toWorker[1].r
           m == [type |-> "mismatch", r |-> r]
<1>1. m.type = "mismatch" /\ m.r = r
  OBVIOUS
<1>2. PICK p \in {"running", "syncing"} :
        /\ task' = [task EXCEPT ![r] = p]
        /\ toMain' = toMain \/ (p = "syncing" /\ Grows(toMain, toMain', m))
  BY WorkerWrites
<1> HIDE DEF m
<1>3. Len(toMain) \in Nat
  BY Lengths
<1>4. \A j \in Back' : (j \in Back /\ toMain'[j] = toMain[j]) \/ (p = "syncing" /\ toMain'[j] = m)
  BY <1>2, <1>3 DEF Back, Grows
<1>5. /\ task'[r] = p /\ \A q \in Chats \ {r} : task'[q] = task[q]
  BY <1>2, TakenMessage DEF TypeOK
<1>6. \A j \in Back : toMain[j].r # r
  BY TakenMessage DEF Phases
<1>7. OneRequest'
  <2>1. CASE toMain' = toMain
    BY <2>1, TakenMessage DEF OneRequest
  <2>2. CASE Grows(toMain, toMain', m)
    BY <1>1, <1>3, <1>6, <2>2, TakenMessage, UniqueReply DEF OneRequest, Out, Back
  <2> QED
    BY <1>2, <2>1, <2>2
<1>8. InOrder'
  <2>1. ASSUME NEW q \in Chats, q \notin Sent
        PROVE  \A j \in Back' : toMain'[j].r # q
    BY <1>1, <1>4, <2>1, TakenMessage DEF InOrder
  <2>2. ASSUME NEW q \in Chats, q \notin Sent
        PROVE  task'[q] = "none" /\ \A i \in Out' : toWorker'[i].r # q
    BY <1>5, <2>2, TakenMessage DEF InOrder
  <2> QED
    BY <2>1, <2>2, TakenMessage DEF InOrder
<1>9. Phases'
  <2>1. ASSUME NEW j \in Back'
        PROVE  IF toMain'[j].type = "mismatch" THEN task'[toMain'[j].r] \in {"syncing", "done"}
                                               ELSE task'[toMain'[j].r] = "done"
    <3>1. CASE j \in Back /\ toMain'[j] = toMain[j]
      <4>1. toMain[j].r \in Chats \ {r}
        BY <1>6, <3>1, Lengths
      <4> QED
        BY <1>5, <3>1, <4>1 DEF Phases
    <3>2. CASE p = "syncing" /\ toMain'[j] = m
      BY <1>1, <1>5, <3>2
    <3> QED
      BY <1>4, <3>1, <3>2
  <2>2. ASSUME NEW i \in Out'
        PROVE  /\ toWorker'[i].type \in Opening => task'[toWorker'[i].r] = "none"
               /\ toWorker'[i].type = "sync" => task'[toWorker'[i].r] \in {"syncing", "done"}
    <3>1. i + 1 \in Out /\ toWorker'[i] = toWorker[i + 1] /\ toWorker[i + 1].r \in Chats
      BY TakenMessage, Lengths
    <3>2. toWorker'[i].type \in Requests => toWorker'[i].r \in Chats \ {r}
      BY <3>1, TakenMessage
    <3> QED
      BY <1>5, <3>1, <3>2 DEF Phases, Requests
  <2> QED
    BY <2>1, <2>2 DEF Phases
<1>10. Working'
  <2>1. task'[r] # "none" /\ toWorker[1].type # "cancel"
    BY <1>5 DEF Requests, Opening
  <2> QED
    BY <1>5, <2>1, TakenMessage, WorkingTaken
<1> QED
  BY <1>7, <1>8, <1>9, <1>10

LEMMA ChannelsIgnored ==
  ASSUME TypeOK, Channels, WorkerTakes,
         toWorker[1].type = "sync", task[toWorker[1].r] # "syncing", UNCHANGED <<task, toMain>>
  PROVE  Channels'
<1> USE DEF Channels
<1>1. task[toWorker[1].r] = "done"
  BY TakenMessage DEF Phases
<1>2. OneRequest'
  BY TakenMessage DEF OneRequest
<1>3. InOrder'
  BY TakenMessage DEF InOrder, Back
<1>4. Phases'
  BY TakenMessage DEF Phases, Back
<1>5. Working'
  BY <1>1, TakenMessage, WorkingTaken
<1> QED
  BY <1>2, <1>3, <1>4, <1>5

(* The worker reports the end of a turn.                                   *)
LEMMA ReplyUnique ==
  ASSUME NEW c, NEW d, NEW m, Unique(c, d), d \in Seq(ToMain), m.type # "mismatch",
         m.type = "result" => /\ \A i \in 1 .. Len(c) : c[i].type \in Requests => c[i].r # m.r
                              /\ \A j \in 1 .. Len(d) : d[j].type = "mismatch" => d[j].r # m.r
  PROVE  Unique(c, Append(d, m))
<1>1. d \in Seq(ToMain \cup {m}) /\ Len(d) \in Nat
  OBVIOUS
<1>2. Grows(d, Append(d, m), m)
  BY <1>1, EndOfChannel DEF Grows
<1> QED
  BY <1>1, <1>2, UniqueReply

LEMMA ChannelsTakeCancel ==
  ASSUME TypeOK, Channels, TakeCancel
  PROVE  Channels'
<1> USE DEF Channels
<1> DEFINE r == toWorker[1].r
           a == [type |-> "cancelled", r |-> r]
           ack == Append(toMain, a)
<1>1. WorkerTakes /\ toWorker[1].type = "cancel" /\ Head(toWorker) = toWorker[1] /\ 1 \in Out
      /\ r \in Chats
  BY TakenMessage DEF TakeCancel, WorkerTakes, Taken
<1>2. task[r] # "none"
  <2>1. Stops(toWorker[1], r)
    BY <1>1 DEF Stops
  <2>2. \A i \in Out : ~(i < 1)
    BY Lengths DEF Out
  <2> QED
    BY <1>1, <2>1, <2>2, TakenMessage DEF Working
<1>3. /\ task'[r] = "done" /\ \A q \in Chats \ {r} : task'[q] = task[q]
  BY <1>1, <1>2 DEF TakeCancel, TypeOK
<1>4. a.type = "cancelled" /\ a.r = r
  OBVIOUS
<1>5. \/ toMain' = ack
      \/ task[r] = "running" /\ toMain' = Append(ack, ResultOf(r, wlog'))
  BY <1>1 DEF TakeCancel
<1>6. ResultOf(r, wlog').type = "result" /\ ResultOf(r, wlog').r = r
  BY DEF ResultOf
<1>7. ack \in Seq(ToMain)
  BY <1>1 DEF TypeOK, ToMain
<1>8. \A i \in Out : toWorker[i].r = r => toWorker[i].type \notin Opening
  BY <1>2 DEF Phases
<1> HIDE DEF a
<1>9. /\ Len(toMain) \in Nat /\ Len(ack) = Len(toMain) + 1 /\ ack[Len(ack)] = a
      /\ \A j \in 1 .. Len(toMain) : ack[j] = toMain[j]
  <2>1. Grows(toMain, ack, a)
    <3>1. toMain \in Seq(ToMain \cup {a})
      BY DEF TypeOK
    <3> QED
      BY <3>1, EndOfChannel DEF Grows
  <2> QED
    BY <2>1, Lengths DEF Grows
<1> HIDE DEF ack
<1>10. \A j \in 1 .. Len(ack) : (j \in Back /\ ack[j] = toMain[j]) \/ ack[j] = a
  BY <1>9 DEF Back
<1>11. \A j \in Back' : \/ j \in Back /\ toMain'[j] = toMain[j]
                        \/ toMain'[j].type \in {"cancelled", "result"} /\ toMain'[j].r = r
  <2>1. CASE toMain' = ack
    BY <1>4, <1>10, <2>1 DEF Back
  <2>2. CASE toMain' = Append(ack, ResultOf(r, wlog'))
    <3>1. ack \in Seq(ToMain \cup {ResultOf(r, wlog')})
      BY <1>7
    <3>2. Grows(ack, toMain', ResultOf(r, wlog'))
      BY <2>2, <3>1, EndOfChannel DEF Grows
    <3>3. Len(ack) \in Nat
      BY <1>7
    <3> QED
      BY <1>4, <1>6, <1>10, <3>2, <3>3 DEF Back, Grows
  <2> QED
    BY <1>5, <2>1, <2>2
<1>12. OneRequest'
  <2>1. Unique(toWorker', ack)
    <3>1. Unique(toWorker', toMain) /\ a.type # "mismatch" /\ a.type # "result"
      BY <1>1, <1>4, TakenMessage
    <3> QED
      BY <3>1, ReplyUnique DEF ack, TypeOK
  <2>2. CASE toMain' = ack
    BY <2>1, <2>2 DEF OneRequest
  <2>3. CASE task[r] = "running" /\ toMain' = Append(ack, ResultOf(r, wlog'))
    <3>1. \A i \in Out : toWorker[i].r = r => toWorker[i].type \notin Requests
      BY <1>8, <2>3 DEF Phases, Requests
    <3>2. \A i \in 1 .. Len(toWorker') : toWorker'[i].type \in Requests => toWorker'[i].r # r
      BY <1>1, <3>1, TakenMessage DEF Out
    <3>3. \A j \in 1 .. Len(ack) : ack[j].type = "mismatch" => ack[j].r # r
      BY <1>4, <1>10, <2>3 DEF Phases
    <3> QED
      BY <1>6, <1>7, <2>1, <2>3, <3>2, <3>3, ReplyUnique DEF OneRequest
  <2> QED
    BY <1>5, <2>2, <2>3
<1>13. InOrder'
  BY <1>1, <1>3, <1>11, TakenMessage DEF InOrder
<1>14. Phases'
  <2>1. ASSUME NEW i \in Out'
        PROVE  /\ toWorker'[i].type \in Opening => task'[toWorker'[i].r] = "none"
               /\ toWorker'[i].type = "sync" => task'[toWorker'[i].r] \in {"syncing", "done"}
    <3>1. i + 1 \in Out /\ toWorker'[i] = toWorker[i + 1] /\ toWorker[i + 1].r \in Chats
      BY <1>1, TakenMessage, Lengths
    <3> QED
      BY <1>3, <1>8, <3>1 DEF Phases
  <2>2. ASSUME NEW j \in Back'
        PROVE  IF toMain'[j].type = "mismatch" THEN task'[toMain'[j].r] \in {"syncing", "done"}
                                               ELSE task'[toMain'[j].r] = "done"
    <3>1. CASE j \in Back /\ toMain'[j] = toMain[j]
      BY <1>3, <3>1, Lengths DEF Phases
    <3>2. CASE toMain'[j].type \in {"cancelled", "result"} /\ toMain'[j].r = r
      BY <1>3, <3>2
    <3> QED
      BY <1>11, <3>1, <3>2
  <2> QED
    BY <2>1, <2>2 DEF Phases
<1>15. Working'
  BY <1>1, <1>3, TakenMessage, WorkingTaken
<1> QED
  BY <1>12, <1>13, <1>14, <1>15

LEMMA ChannelsTake ==
  ASSUME TypeOK, Channels, WorkerTakes
  PROVE  Channels'
<1> USE DEF Channels
<1>1. Head(toWorker) = toWorker[1] /\ 1 \in Out
  BY TakenMessage
<1>2. CASE TakeFull \/ TakeIncremental
  <2>1. toWorker[1].type \in Requests /\ toWorker[1].type \in Opening
    BY <1>1, <1>2 DEF TakeFull, TakeIncremental, Taken, Requests, Opening
  <2>2. task[toWorker[1].r] = "none"
    BY <1>1, <2>1 DEF Phases
  <2>3. task' = [task EXCEPT ![toWorker[1].r] = "running"] /\ toMain' = toMain
    BY <1>1, <1>2 DEF TakeFull, TakeIncremental, Run
  <2> QED
    BY <2>1, <2>2, <2>3, ChannelsRequest
<1>3. CASE AskFullSync
  <2>1. toWorker[1].type \in Requests /\ toWorker[1].type \in Opening
    BY <1>1, <1>3 DEF AskFullSync, Taken, Requests, Opening
  <2>2. task[toWorker[1].r] = "none"
    BY <1>1, <2>1 DEF Phases
  <2>3. task' = [task EXCEPT ![toWorker[1].r] = "syncing"]
        /\ toMain' = Append(toMain, [type |-> "mismatch", r |-> toWorker[1].r])
    BY <1>1, <1>3 DEF AskFullSync
  <2> QED
    BY <2>1, <2>2, <2>3, ChannelsRequest
<1>4. CASE TakeSync /\ task[toWorker[1].r] = "syncing"
  <2>1. toWorker[1].type \in Requests
    BY <1>1, <1>4 DEF TakeSync, Taken, Requests
  <2>2. task' = [task EXCEPT ![toWorker[1].r] = "running"] /\ toMain' = toMain
    BY <1>1, <1>4 DEF TakeSync, Run
  <2> QED
    BY <1>4, <2>1, <2>2, ChannelsRequest
<1>5. CASE TakeSync /\ task[toWorker[1].r] # "syncing"
  BY <1>1, <1>5, ChannelsIgnored DEF TakeSync, Taken
<1>6. CASE TakeCancel
  BY <1>6, ChannelsTakeCancel
<1> QED
  BY <1>2, <1>3, <1>4, <1>5, <1>6 DEF WorkerTakes

LEMMA ChannelsTurn ==
  ASSUME TypeOK, Channels, TurnSteps \/ TurnSettles \/ WorkerDies
  PROVE  Channels'
<1> USE DEF Channels
<1>1. /\ UNCHANGED <<status, stopping, agent, toWorker>> /\ (alive' => alive)
      /\ Sent' = Sent /\ Out' = Out
  <2>1. /\ UNCHANGED <<mainVars, toWorker>>
        /\ UNCHANGED alive \/ ~alive'
    BY DEF TurnSteps, TurnSettles, WorkerDies, TurnAppends, TurnCompacts, TurnStripsImages,
       TurnEnds, TurnFails
  <2> QED
    BY <2>1 DEF mainVars, Sent, Out
<1>2. CASE UNCHANGED <<task, toMain>>
  BY <1>1, <1>2 DEF InOrder, OneRequest, Phases, Working, Back
<1>3. ASSUME NEW r \in Chats, NEW m, task[r] = "running", task' = [task EXCEPT ![r] = "done"],
             toMain' = Append(toMain, m), m.r = r, m.type \in {"result", "error"}
      PROVE  Channels'
  <2>1. Grows(toMain, toMain', m)
    BY <1>3, WorkerWrites
  <2>2. Len(toMain) \in Nat
    BY Lengths
  <2>3. \A j \in Back' : (j \in Back /\ toMain'[j] = toMain[j]) \/ toMain'[j] = m
    BY <2>1, <2>2 DEF Back, Grows
  <2>4. task'[r] = "done" /\ \A q \in Chats \ {r} : task'[q] = task[q]
    BY <1>3 DEF TypeOK
  <2>5. OneRequest'
    <3>1. \A i \in 1 .. Len(toWorker) : toWorker[i].type \in Requests => toWorker[i].r # r
      BY <1>3 DEF Phases, Requests, Out
    <3>2. \A j \in 1 .. Len(toMain) : toMain[j].type = "mismatch" => toMain[j].r # r
      BY <1>3 DEF Phases, Back
    <3> QED
      BY <1>1, <1>3, <2>1, <2>2, <3>1, <3>2, UniqueReply DEF OneRequest
  <2>6. r \in Sent
    BY <1>3 DEF InOrder
  <2>7. InOrder'
    <3>1. ASSUME NEW q \in Chats, q \notin Sent
          PROVE  task'[q] = "none"
      BY <2>4, <2>6, <3>1 DEF InOrder
    <3>2. ASSUME NEW q \in Chats, q \notin Sent
          PROVE  \A j \in Back' : toMain'[j].r # q
      BY <1>3, <2>3, <2>6, <3>2 DEF InOrder
    <3> QED
      BY <1>1, <3>1, <3>2 DEF InOrder
  <2>8. Phases'
    <3>1. \A i \in Out : toWorker[i].r \in Chats
      BY Lengths
    <3>2. \A i \in Back : toMain[i].r \in Chats
      BY Lengths
    <3>3. ASSUME NEW j \in Back'
          PROVE  IF toMain'[j].type = "mismatch" THEN task'[toMain'[j].r] \in {"syncing", "done"}
                                                 ELSE task'[toMain'[j].r] = "done"
      <4>1. CASE j \in Back /\ toMain'[j] = toMain[j]
        BY <2>4, <3>2, <4>1 DEF Phases
      <4> QED
        BY <1>3, <2>3, <2>4, <4>1
    <3>4. ASSUME NEW i \in Out
          PROVE  /\ toWorker[i].type \in Opening => task'[toWorker[i].r] = "none"
                 /\ toWorker[i].type = "sync" => task'[toWorker[i].r] \in {"syncing", "done"}
      BY <1>3, <2>4, <3>1 DEF Phases
    <3> QED
      BY <1>1, <3>3, <3>4 DEF Phases
  <2>9. Working'
    <3>1. \A q \in Chats : /\ task[q] = "done" => task'[q] = "done"
                           /\ task'[q] = "none" => task[q] = "none"
      BY <1>3, <2>4
    <3> QED
      BY <1>1, <3>1 DEF Working, TypeOK, Sent
  <2> QED
    BY <2>5, <2>7, <2>8, <2>9
<1>4. ASSUME NEW r \in Chats, TurnEnds(r)
      PROVE  Channels'
  <2>1. ResultOf(r, wlog).type = "result" /\ ResultOf(r, wlog).r = r
    BY DEF ResultOf
  <2> QED
    BY <1>3, <1>4, <2>1 DEF TurnEnds, Running
<1>5. ASSUME NEW r \in Chats, TurnFails(r)
      PROVE  Channels'
  BY <1>3, <1>5 DEF TurnFails, Running
<1> QED
  BY <1>2, <1>4, <1>5 DEF TurnSteps, TurnSettles, WorkerDies, TurnAppends, TurnCompacts,
     TurnStripsImages

LEMMA ChannelsStep ==
  ASSUME TypeOK, Channels, [Next]_vars
  PROVE  Channels'
<1>1. CASE UNCHANGED vars
  BY <1>1 DEF vars, mainVars, workerVars, Channels, InOrder, OneRequest, Phases, Working, Out, Back,
     Sent
<1> QED
  BY <1>1, ChannelsChat, ChannelsCancel, ChannelsGivenUp, ChannelsSettle, ChannelsMismatch,
     ChannelsTake, ChannelsTurn
     DEF Next, MainReceives

(* What the channels hold and how far the worker is.                       *)
THEOREM ChannelsHold == Spec => []Channels
<1> QED
  BY TypeInit, TypeStep, ChannelsInit, ChannelsStep, PTL DEF Spec

-----------------------------------------------------------------------------
(* While the latest chat is pending it is the one a cancel reaches.        *)
LEMMA ReachesStep ==
  ASSUME TypeOK, InOrder, CancelReaches, [Next]_vars
  PROVE  CancelReaches'
<1>1. ASSUME UNCHANGED <<status, agent, active>>
      PROVE  CancelReaches'
  BY <1>1 DEF CancelReaches, Pending
<1>2. ASSUME NEW r \in Chats, Chat(r)
      PROVE  CancelReaches'
  <2>1. /\ status[r] = "unsent" /\ active' = r
        /\ \A q \in Chats \ {r} : status'[q] = status[q]
        /\ status'[r] = "pending"
    BY <1>2 DEF Chat, TypeOK
  <2>2. ASSUME NEW q \in Pending', q # r
        PROVE  q < r
    <3>1. q \in Chats /\ q \in Sent /\ r \notin Sent
      BY <2>1, <2>2 DEF Pending, Sent
    <3>2. ~(r < q)
      BY <3>1 DEF InOrder
    <3> QED
      BY <2>2, <3>1, <3>2 DEF Chats
  <2> QED
    BY <2>1, <2>2 DEF CancelReaches
<1>3. ASSUME NEW r \in Pending, NEW how \in Outcome, Settle(r, how), agent' = agent
      PROVE  CancelReaches'
  <2>1. /\ Pending' = Pending \ {r}
        /\ \A q \in Chats : status'[q] = "unsent" <=> status[q] = "unsent"
    BY <1>3 DEF Settle, Pending, Outcome, TypeOK
  <2> QED
    BY <1>3, <2>1 DEF CancelReaches, Settle, Pending
<1>4. CASE CancelTimeout \/ Crash \/ Destroy
  BY <1>4 DEF CancelTimeout, Crash, Destroy, CancelReaches
<1>5. CASE OnCancelled \/ OnResult \/ OnError
  <2>1. {"cancelled", "resolved", "failed"} \subseteq Outcome
    BY DEF Outcome
  <2> QED
    BY <1>1, <1>3, <1>5, <2>1 DEF OnCancelled, OnResult, OnError
<1>6. CASE CancelSession \/ OnMismatch
  BY <1>1, <1>6 DEF CancelSession, OnMismatch
<1>7. CASE WorkerTakes \/ TurnSteps \/ TurnSettles \/ WorkerDies \/ UNCHANGED vars
  <2>1. UNCHANGED mainVars
    BY <1>7 DEF WorkerTakes, TakeFull, TakeIncremental, AskFullSync, TakeSync, TakeCancel, TurnSteps,
       TurnAppends, TurnCompacts, TurnStripsImages, TurnSettles, TurnEnds, TurnFails, WorkerDies, vars
  <2> QED
    BY <1>1, <2>1 DEF mainVars
<1> QED
  BY <1>2, <1>4, <1>5, <1>6, <1>7 DEF Next, MainReceives

THEOREM CancelAlwaysReaches == Spec => []CancelReaches
<1>1. Init => CancelReaches
  BY DEF Init, CancelReaches, Pending
<1>2. TypeOK /\ Channels /\ CancelReaches /\ [Next]_vars => CancelReaches'
  BY ReachesStep DEF Channels
<1> QED
  BY <1>1, <1>2, TypeCorrect, ChannelsHold, PTL DEF Spec

-----------------------------------------------------------------------------
(* A turn runs on the log the main thread showed for it.                   *)
Content == Carried /\ RunsOnMirror

LEMMA ContentInit == Init => Content
BY DEF Init, Content, Carried, RunsOnMirror, Out, Back

LEMMA ContentChat ==
  ASSUME TypeOK, Channels, Content, NEW r \in Chats, Chat(r)
  PROVE  Content'
<1>1. PICK m : /\ m.r = r /\ Grows(toWorker, toWorker', m)
               /\ m.type \in {"full", "sync"} => m.msgs = mirror
               /\ m.type = "incremental" => Len(m.prefix) = m.from /\ m.prefix \o m.msgs = mirror
  <2>1. CASE synced >= 0 /\ synced <= Len(mirror)
    <3> DEFINE m == [type |-> "incremental", r |-> r, from |-> synced,
                     msgs |-> Behind(mirror, synced), prefix |-> Prefix(mirror, synced)]
    <3>1. Post(m)
      BY <2>1 DEF Chat
    <3>2. Grows(toWorker, toWorker', m)
      BY <3>1, PostGrows DEF Chat
    <3>3. Len(m.prefix) = m.from /\ m.prefix \o m.msgs = mirror
      BY <2>1, SubLogs DEF TypeOK
    <3>4. m.r = r /\ m.type = "incremental"
      OBVIOUS
    <3> HIDE DEF m
    <3> QED
      BY <3>2, <3>3, <3>4
  <2>2. CASE ~(synced >= 0 /\ synced <= Len(mirror))
    <3> DEFINE m == [type |-> "full", r |-> r, msgs |-> mirror]
    <3>1. Post(m)
      BY <2>2 DEF Chat
    <3>2. Grows(toWorker, toWorker', m)
      BY <3>1, PostGrows DEF Chat
    <3>3. m.r = r /\ m.type = "full" /\ m.msgs = mirror
      OBVIOUS
    <3> HIDE DEF m
    <3> QED
      BY <3>2, <3>3
  <2> QED
    BY <2>1, <2>2
<1>2. /\ UNCHANGED <<toMain, task, base>>
      /\ view'[r] = mirror /\ \A q \in Chats \ {r} : view'[q] = view[q]
      /\ status[r] = "unsent"
  BY DEF Chat, workerVars, TypeOK
<1>3. /\ task[r] = "none"
      /\ \A i \in Out : toWorker[i].r \in Chats \ {r}
      /\ \A i \in Back : toMain[i].r \in Chats \ {r}
  BY <1>2, Lengths DEF Channels, InOrder, Sent
<1>4. \A i \in Out' : (i \in Out /\ toWorker'[i] = toWorker[i]) \/ toWorker'[i] = m
  BY <1>1, Lengths DEF Out, Grows
<1>5. RunsOnMirror'
  BY <1>2, <1>3 DEF Content, RunsOnMirror
<1>6. ASSUME NEW i \in Out'
      PROVE  LET n == toWorker'[i]
             IN  /\ n.type \in {"full", "sync"} => n.msgs = view'[n.r]
                 /\ n.type = "incremental" => Len(n.prefix) = n.from /\ n.prefix \o n.msgs = view'[n.r]
  <2>1. CASE i \in Out /\ toWorker'[i] = toWorker[i]
    <3>1. view'[toWorker[i].r] = view[toWorker[i].r]
      BY <1>2, <1>3, <2>1
    <3> QED
      BY <2>1, <3>1 DEF Content, Carried
  <2>2. CASE toWorker'[i] = m
    BY <1>1, <1>2, <2>2
  <2> QED
    BY <1>4, <2>1, <2>2
<1>7. \A i \in Back' : toMain'[i].type = "result" => base'[toMain'[i].r] = view'[toMain'[i].r]
  BY <1>2, <1>3 DEF Content, Carried, Back
<1> QED
  BY <1>5, <1>6, <1>7 DEF Content, Carried

LEMMA ContentMain ==
  ASSUME TypeOK, Channels, Content,
         CancelSession \/ CancelTimeout \/ Crash \/ Destroy \/ OnCancelled \/ OnResult \/ OnError
  PROVE  Content'
<1>1. UNCHANGED <<view, base, task>>
  BY DEF CancelSession, CancelTimeout, Crash, Destroy, OnCancelled, OnResult, OnError, workerVars
<1>2. \A i \in Out' : \/ i \in Out /\ toWorker'[i] = toWorker[i]
                      \/ toWorker'[i].type = "cancel"
  <2>1. CASE CancelSession
    <3> DEFINE m == [type |-> "cancel", r |-> active]
    <3>1. Post(m) /\ agent = "up" /\ m.type = "cancel"
      BY <2>1 DEF CancelSession
    <3> HIDE DEF m
    <3>2. Grows(toWorker, toWorker', m)
      BY <3>1, PostGrows
    <3> QED
      BY <3>1, <3>2, Lengths DEF Grows, Out
  <2>2. CASE CancelTimeout \/ Crash \/ Destroy
    BY <2>2 DEF CancelTimeout, Crash, Destroy, Out
  <2>3. CASE OnCancelled \/ OnResult \/ OnError
    BY <2>3, Settled DEF Out
  <2> QED
    BY <2>1, <2>2, <2>3
<1>3. \A i \in Back' : \E j \in Back : toMain'[i] = toMain[j]
  <2>1. CASE OnCancelled \/ OnResult \/ OnError
    BY <2>1, Settled, Lengths DEF Shrinks, Back
  <2>2. CASE CancelSession \/ CancelTimeout \/ Crash \/ Destroy
    BY <2>2 DEF CancelSession, CancelTimeout, Crash, Destroy, Back
  <2> QED
    BY <2>1, <2>2
<1> QED
  BY <1>1, <1>2, <1>3 DEF Content, Carried, RunsOnMirror

LEMMA ContentMismatch ==
  ASSUME TypeOK, Channels, Content, OnMismatch
  PROVE  Content'
<1> DEFINE r == toMain[1].r
           m == [type |-> "sync", r |-> r, msgs |-> mirror]
<1>1. /\ toMain # <<>> /\ toMain' = Tail(toMain) /\ Head(toMain).type = "mismatch"
      /\ UNCHANGED <<base, task>>
  BY DEF OnMismatch, Head0, workerVars
<1>2. /\ Shrinks(toMain, toMain') /\ 1 \in Back /\ Head(toMain) = toMain[1] /\ r \in Chats
  BY <1>1, MainReads
<1>3. /\ view'[r] = mirror /\ \A q \in Chats \ {r} : view'[q] = view[q]
  BY <1>2 DEF OnMismatch, TypeOK
<1>4. toWorker' = toWorker \/ Grows(toWorker, toWorker', m)
  <2>1. Post(m)
    BY <1>2 DEF OnMismatch
  <2> QED
    BY <2>1, PostGrows
<1>5. m.type = "sync" /\ m.r = r /\ m.msgs = mirror
  OBVIOUS
<1> HIDE DEF m
<1>6. Len(toMain) \in Nat /\ Len(toWorker) \in Nat
  BY Lengths
<1>7. \A i \in Back' : i + 1 \in Back /\ toMain'[i] = toMain[i + 1]
  BY <1>2, <1>6 DEF Shrinks, Back
<1>8. \A i \in Out' : (i \in Out /\ toWorker'[i] = toWorker[i]) \/ toWorker'[i] = m
  BY <1>4, <1>6 DEF Out, Grows
<1>9. task[r] # "running"
  BY <1>1, <1>2 DEF Channels, Phases
<1>10. /\ \A i \in Out : toWorker[i].type \in Requests => toWorker[i].r # r
       /\ \A j \in Back' : toMain'[j].type = "result" => toMain'[j].r # r
  <2>1. toMain[1].type = "mismatch" /\ Unique(toWorker, toMain)
    BY <1>1, <1>2 DEF Channels, OneRequest
  <2> QED
    BY <1>2, <1>6, <2>1, UniqueRead DEF Out, Back
<1>11. ASSUME NEW i \in Out'
       PROVE  LET n == toWorker'[i]
              IN  /\ n.type \in {"full", "sync"} => n.msgs = view'[n.r]
                  /\ n.type = "incremental" => Len(n.prefix) = n.from /\ n.prefix \o n.msgs = view'[n.r]
  <2>1. CASE i \in Out /\ toWorker'[i] = toWorker[i]
    <3>1. toWorker[i].type \in Requests => view'[toWorker[i].r] = view[toWorker[i].r]
      BY <1>3, <1>10, <2>1, Lengths
    <3> QED
      BY <2>1, <3>1 DEF Content, Carried, Requests, Opening
  <2>2. CASE toWorker'[i] = m
    BY <1>3, <1>5, <2>2
  <2> QED
    BY <1>8, <2>1, <2>2
<1>12. ASSUME NEW j \in Back', toMain'[j].type = "result"
       PROVE  base'[toMain'[j].r] = view'[toMain'[j].r]
  <2>1. j + 1 \in Back /\ toMain'[j] = toMain[j + 1] /\ toMain[j + 1].r \in Chats \ {r}
    BY <1>7, <1>10, <1>12, Lengths
  <2> QED
    BY <1>1, <1>3, <1>12, <2>1 DEF Content, Carried
<1>13. RunsOnMirror'
  BY <1>1, <1>3, <1>9 DEF Content, RunsOnMirror
<1> QED
  BY <1>11, <1>12, <1>13 DEF Content, Carried

(* A turn starts on the log its request carried, or was found to match.    *)
LEMMA StartsOnView ==
  ASSUME TypeOK, Channels, Content, WorkerTakes, NEW q \in Chats
  PROVE  \/ base'[q] = base[q] /\ (task'[q] = "running" => task[q] = "running")
         \/ base'[q] = view[q]
<1> DEFINE m == toWorker[1]
<1>1. Head(toWorker) = m /\ 1 \in Out /\ m \in ToWorker /\ m.r \in Chats
  BY TakenMessage
<1>2. ASSUME NEW l, Run(m.r, l), l = view[m.r]
      PROVE  \/ base'[q] = base[q] /\ (task'[q] = "running" => task[q] = "running")
             \/ base'[q] = view[q]
  BY <1>1, <1>2 DEF Run, TypeOK
<1>3. CASE TakeFull
  <2>1. m.msgs = view[m.r]
    BY <1>1, <1>3 DEF TakeFull, Taken, Content, Carried
  <2> QED
    BY <1>1, <1>2, <1>3, <2>1 DEF TakeFull
<1>4. CASE TakeIncremental
  <2>1. m.type = "incremental" /\ Prefix(wlog, m.from) = m.prefix /\ Run(m.r, Prefix(wlog, m.from) \o m.msgs)
    BY <1>1, <1>4 DEF TakeIncremental, Taken, PrefixVerified
  <2>2. Prefix(wlog, m.from) \o m.msgs = view[m.r]
    BY <1>1, <2>1 DEF Content, Carried
  <2> QED
    BY <1>2, <2>1, <2>2
<1>5. CASE TakeSync
  <2>1. m.msgs = view[m.r]
    BY <1>1, <1>5 DEF TakeSync, Taken, Content, Carried
  <2>2. Run(m.r, m.msgs) \/ UNCHANGED <<task, base>>
    BY <1>1, <1>5 DEF TakeSync
  <2> QED
    BY <1>2, <2>1, <2>2
<1>6. CASE AskFullSync \/ TakeCancel
  BY <1>1, <1>6 DEF AskFullSync, TakeCancel, TypeOK
<1> QED
  BY <1>3, <1>4, <1>5, <1>6 DEF WorkerTakes

(* What the worker adds to the channel: the result of the turn it runs.    *)
LEMMA TakeReplies ==
  ASSUME TypeOK, Channels, WorkerTakes, NEW j \in Back', toMain'[j].type = "result"
  PROVE  \/ j \in Back /\ toMain'[j] = toMain[j]
         \/ /\ task[toWorker[1].r] = "running" /\ toMain'[j] = ResultOf(toWorker[1].r, wlog')
            /\ TakeCancel
<1> DEFINE r == toWorker[1].r
           a == [type |-> "cancelled", r |-> r]
           ack == Append(toMain, a)
<1>1. Head(toWorker) = toWorker[1] /\ r \in Chats
  BY TakenMessage
<1>2. CASE toMain' = toMain
  BY <1>2 DEF Back
<1>3. ASSUME NEW m \in ToMain, m.type # "result", toMain' = Append(toMain, m)
      PROVE  j \in Back /\ toMain'[j] = toMain[j]
  <2>1. Grows(toMain, toMain', m)
    BY <1>3, WorkerWrites
  <2> QED
    BY <1>3, <2>1, Lengths DEF Grows, Back
<1>4. [type |-> "mismatch", r |-> r] \in ToMain /\ a \in ToMain /\ a.type = "cancelled"
  BY <1>1 DEF ToMain
<1>5. CASE TakeFull \/ TakeIncremental \/ TakeSync
  BY <1>2, <1>5 DEF TakeFull, TakeIncremental, TakeSync
<1>6. CASE AskFullSync
  BY <1>1, <1>3, <1>4, <1>6 DEF AskFullSync
<1>7. CASE TakeCancel
  <2>1. toMain' = ack \/ (task[r] = "running" /\ toMain' = Append(ack, ResultOf(r, wlog')))
    BY <1>1, <1>7 DEF TakeCancel
  <2>2. CASE toMain' = ack
    BY <1>3, <1>4, <2>2
  <2>3. CASE task[r] = "running" /\ toMain' = Append(ack, ResultOf(r, wlog'))
    <3> DEFINE m == ResultOf(r, wlog')
    <3> HIDE DEF a, m
    <3>1. toMain \in Seq(ToMain) /\ ack \in Seq(ToMain)
      BY <1>4 DEF TypeOK
    <3>2. Grows(toMain, ack, a)
      BY <1>4, <3>1, EndOfChannel DEF Grows
    <3>3. Grows(ack, toMain', m)
      <4>1. ack \in Seq(ToMain \cup {m}) /\ toMain' = Append(ack, m)
        BY <2>3, <3>1 DEF m
      <4> QED
        BY <4>1, EndOfChannel DEF Grows
    <3>4. (j \in 1 .. Len(ack) /\ toMain'[j] = ack[j]) \/ toMain'[j] = m
      BY <3>1, <3>3 DEF Grows, Back
    <3>5. \A i \in 1 .. Len(ack) : (i \in Back /\ ack[i] = toMain[i]) \/ ack[i] = a
      BY <3>2, Lengths DEF Grows, Back
    <3> QED
      BY <1>4, <1>7, <2>3, <3>4, <3>5 DEF m
  <2> QED
    BY <2>1, <2>2, <2>3
<1> QED
  BY <1>5, <1>6, <1>7 DEF WorkerTakes

(* And what a turn adds by itself.                                         *)
LEMMA TurnReplies ==
  ASSUME TypeOK, TurnSteps \/ TurnSettles \/ WorkerDies, NEW j \in Back', toMain'[j].type = "result"
  PROVE  \/ j \in Back /\ toMain'[j] = toMain[j]
         \/ \E r \in Chats : TurnEnds(r) /\ toMain'[j] = ResultOf(r, wlog)
<1>1. CASE TurnSteps \/ WorkerDies
  BY <1>1 DEF TurnSteps, WorkerDies, TurnAppends, TurnCompacts, TurnStripsImages, Back
<1>2. ASSUME NEW r \in Chats, TurnEnds(r)
      PROVE  \/ j \in Back /\ toMain'[j] = toMain[j]
             \/ \E q \in Chats : TurnEnds(q) /\ toMain'[j] = ResultOf(q, wlog)
  <2>1. Grows(toMain, toMain', ResultOf(r, wlog))
    BY <1>2, WorkerWrites DEF TurnEnds
  <2> QED
    BY <1>2, <2>1, Lengths DEF Grows, Back
<1>3. ASSUME NEW r \in Chats, TurnFails(r)
      PROVE  j \in Back /\ toMain'[j] = toMain[j]
  <2> DEFINE m == [type |-> "error", r |-> r]
  <2>1. m.type = "error"
    OBVIOUS
  <2>2. toMain' = Append(toMain, m)
    BY <1>3 DEF TurnFails
  <2> HIDE DEF m
  <2>3. Grows(toMain, toMain', m)
    BY <2>2, WorkerWrites
  <2> QED
    BY <2>1, <2>3, Lengths DEF Grows, Back
<1> QED
  BY <1>1, <1>2, <1>3 DEF TurnSettles

LEMMA ContentWorker ==
  ASSUME TypeOK, Channels, Content, WorkerTakes \/ TurnSteps \/ TurnSettles \/ WorkerDies
  PROVE  Content'
<1> USE DEF Content
<1>1. CASE WorkerTakes
  <2>1. \A i \in Out' : \E k \in Out : toWorker'[i] = toWorker[k]
    BY <1>1, TakenMessage
  <2>2. view' = view
    BY <1>1, TakenMessage
  <2>3. RunsOnMirror'
    BY <1>1, <2>2, StartsOnView DEF RunsOnMirror
  <2>4. ASSUME NEW j \in Back', toMain'[j].type = "result"
        PROVE  base'[toMain'[j].r] = view[toMain'[j].r]
    <3>1. CASE j \in Back /\ toMain'[j] = toMain[j]
      <4>1. base[toMain[j].r] = view[toMain[j].r] /\ toMain[j].r \in Chats
        BY <2>4, <3>1, Lengths DEF Carried
      <4> QED
        BY <1>1, <3>1, <4>1, StartsOnView
    <3>2. CASE task[toWorker[1].r] = "running" /\ toMain'[j] = ResultOf(toWorker[1].r, wlog')
      <4>1. toMain'[j].r = toWorker[1].r /\ toWorker[1].r \in Chats
        BY <1>1, <3>2, TakenMessage DEF ResultOf
      <4>2. base[toWorker[1].r] = view[toWorker[1].r]
        BY <3>2, <4>1 DEF RunsOnMirror
      <4> QED
        BY <1>1, <4>1, <4>2, StartsOnView
    <3> QED
      BY <1>1, <2>4, <3>1, <3>2, TakeReplies
  <2>5. ASSUME NEW i \in Out'
        PROVE  LET n == toWorker'[i]
               IN  /\ n.type \in {"full", "sync"} => n.msgs = view[n.r]
                   /\ n.type = "incremental" => Len(n.prefix) = n.from /\ n.prefix \o n.msgs = view[n.r]
    <3>1. PICK k \in Out : toWorker'[i] = toWorker[k]
      BY <2>1
    <3> QED
      BY <3>1 DEF Carried
  <2> QED
    BY <2>2, <2>3, <2>4, <2>5 DEF Carried
<1>2. CASE TurnSteps \/ TurnSettles \/ WorkerDies
  <2>1. UNCHANGED <<toWorker, base, view>>
    BY <1>2 DEF TurnSteps, TurnSettles, WorkerDies, TurnAppends, TurnCompacts, TurnStripsImages,
       TurnEnds, TurnFails
  <2>2. \A q \in Chats : task'[q] = "running" => task[q] = "running"
    BY <1>2 DEF TurnSteps, TurnSettles, WorkerDies, TurnAppends, TurnCompacts, TurnStripsImages,
       TurnEnds, TurnFails, TypeOK
  <2>3. ASSUME NEW j \in Back', toMain'[j].type = "result"
        PROVE  base[toMain'[j].r] = view[toMain'[j].r]
    <3>1. CASE j \in Back /\ toMain'[j] = toMain[j]
      BY <2>3, <3>1 DEF Carried
    <3>2. ASSUME NEW r \in Chats, TurnEnds(r), toMain'[j] = ResultOf(r, wlog)
          PROVE  base[toMain'[j].r] = view[toMain'[j].r]
      <4>1. task[r] = "running"
        BY <3>2 DEF TurnEnds, Running
      <4>2. ResultOf(r, wlog).r = r
        BY DEF ResultOf
      <4> QED
        BY <3>2, <4>1, <4>2 DEF RunsOnMirror
    <3> QED
      BY <1>2, <2>3, <3>1, <3>2, TurnReplies
  <2> QED
    BY <2>1, <2>2, <2>3 DEF Carried, RunsOnMirror, Out
<1> QED
  BY <1>1, <1>2

LEMMA ContentStep ==
  ASSUME TypeOK, Channels, Content, [Next]_vars
  PROVE  Content'
<1>1. CASE UNCHANGED vars
  BY <1>1 DEF vars, mainVars, workerVars, Content, Carried, RunsOnMirror, Out, Back
<1> QED
  BY <1>1, ContentChat, ContentMain, ContentMismatch, ContentWorker DEF Next, MainReceives

LEMMA ContentHolds == Spec => []Content
<1> QED
  BY TypeInit, TypeStep, ChannelsInit, ChannelsStep, ContentInit, ContentStep, PTL DEF Spec

(* A turn runs on exactly the log the main thread showed for it: whichever *)
(* way handleChat brought the worker's copy up to date.                    *)
THEOREM TurnRunsOnMirror == Spec => []RunsOnMirror
<1>1. Content => RunsOnMirror
  BY DEF Content
<1> QED
  BY <1>1, ContentHolds, PTL

-----------------------------------------------------------------------------
(* Which turns' messages a log holds.                                      *)
LEMMA FromMore ==
  ASSUME NEW S, NEW T, S \subseteq T, NEW l, From(l, S)
  PROVE  From(l, T)
BY DEF From

LEMMA FromAppend ==
  ASSUME NEW T, NEW l \in Log, From(l, T), NEW e \in Entry, \A id \in e.covers : id[1] \in T
  PROVE  From(Append(l, e), T)
<1>1. Grows(l, Append(l, e), e) /\ Len(l) \in Nat
  BY EndOfChannel DEF Log, Grows
<1> QED
  BY <1>1 DEF Grows, From

LEMMA FromConcat ==
  ASSUME NEW T, NEW l \in Log, NEW k \in Log, From(l, T), From(k, T)
  PROVE  From(l \o k, T)
<1>1. /\ Len(l) \in Nat /\ Len(k) \in Nat /\ Len(l \o k) = Len(l) + Len(k)
      /\ \A i \in 1 .. Len(l \o k) : (l \o k)[i] = IF i <= Len(l) THEN l[i] ELSE k[i - Len(l)]
  BY ConcatProperties DEF Log
<1>2. ASSUME NEW i \in 1 .. Len(l \o k), NEW id \in (l \o k)[i].covers
      PROVE  id[1] \in T
  <2>1. CASE i <= Len(l)
    BY <1>1, <1>2, <2>1 DEF From
  <2>2. CASE ~(i <= Len(l))
    <3>1. i - Len(l) \in 1 .. Len(k)
      BY <1>1, <2>2
    <3> QED
      BY <1>1, <1>2, <2>2, <3>1 DEF From
  <2> QED
    BY <2>1, <2>2
<1> QED
  BY <1>2 DEF From

LEMMA FromBehind ==
  ASSUME NEW T, NEW l \in Log, NEW n \in Nat, From(l, T)
  PROVE  From(Behind(l, n), T)
<1>1. Len(l) \in Nat
  BY DEF Log
<1>2. CASE n <= Len(l)
  <2>1. \A i \in 1 .. Len(l) - n : n + i \in 1 .. Len(l)
    BY <1>1
  <2>2. /\ Len(Behind(l, n)) = Len(l) - n
        /\ \A i \in 1 .. Len(l) - n : Behind(l, n)[i] = l[n + i]
    BY <1>2, SubLogs
  <2> QED
    BY <2>1, <2>2 DEF From
<1>3. CASE n > Len(l)
  <2>1. Behind(l, n) = <<>>
    BY <1>1, <1>3 DEF Behind, Log
  <2> QED
    BY <2>1 DEF From
<1> QED
  BY <1>1, <1>2, <1>3

LEMMA FromStrip ==
  ASSUME NEW T, NEW l \in Log, From(l, T)
  PROVE  From(StripImages(l), T)
BY StripType DEF From

LEMMA FromCompacted ==
  ASSUME NEW T, NEW l \in Log, From(l, T), NEW r \in Chats, NEW b \in CutPoints(r, l)
  PROVE  From(Compacted(r, l, b), T)
<1> DEFINE k == Compacted(r, l, b)
<1>1. /\ Len(l) \in Nat /\ b \in 2 .. Len(l) /\ Len(k) = Len(l) - b + 2
      /\ k[1].covers = UNION {l[i].covers : i \in 1 .. b - 1}
      /\ \A i \in 2 .. Len(l) - b + 2 : k[i] = l[b + i - 2]
  BY CompactedType DEF Log
<1> HIDE DEF k
<1>2. ASSUME NEW id \in k[1].covers
      PROVE  id[1] \in T
  <2>1. PICK i \in 1 .. b - 1 : id \in l[i].covers
    BY <1>1, <1>2
  <2>2. i \in 1 .. Len(l)
    BY <1>1
  <2> QED
    BY <2>1, <2>2 DEF From
<1>3. ASSUME NEW i \in 2 .. Len(k), NEW id \in k[i].covers
      PROVE  id[1] \in T
  <2>1. k[i] = l[b + i - 2] /\ b + i - 2 \in 1 .. Len(l)
    BY <1>1, <1>3
  <2> QED
    BY <1>3, <2>1 DEF From
<1>4. From(k, T)
  <2>1. \A i \in 1 .. Len(k) : i = 1 \/ i \in 2 .. Len(k)
    BY <1>1
  <2> QED
    BY <1>2, <1>3, <2>1 DEF From
<1> QED
  BY <1>4 DEF k

(* At most one turn runs.                                                  *)
LEMMA OneRunner ==
  ASSUME TypeOK, Channels, alive, NEW r \in Chats, NEW q \in Chats,
         task[r] = "running", task[q] = "running"
  PROVE  r = q
<1> USE DEF Channels
<1>1. r \in Sent /\ q \in Sent
  BY DEF InOrder
<1>2. ASSUME NEW p \in Chats, NEW t \in Sent, p < t, task[p] = "running", task[t] = "running"
      PROVE  FALSE
  <2>1. PICK j \in Out : Opens(toWorker[j], t)
    BY <1>2 DEF Working
  <2> QED
    BY <1>2, <2>1 DEF Phases, Opens
<1> QED
  BY <1>1, <1>2 DEF Chats

LEMMA OneRunnerNext ==
  ASSUME TypeOK, Channels, [Next]_vars, alive', NEW r \in Chats, NEW q \in Chats,
         task'[r] = "running", task'[q] = "running"
  PROVE  r = q
<1>1. TypeOK' /\ Channels'
  BY TypeStep, ChannelsStep
<1> USE DEF Channels
<1>2. r \in Sent' /\ q \in Sent'
  BY <1>1 DEF InOrder
<1>3. ASSUME NEW p \in Chats, NEW t \in Sent', p < t, task'[p] = "running", task'[t] = "running"
      PROVE  FALSE
  <2>1. PICK j \in Out' : Opens(toWorker'[j], t)
    BY <1>1, <1>3 DEF Working
  <2> QED
    BY <1>1, <1>3, <2>1 DEF Phases, Opens
<1> QED
  BY <1>2, <1>3 DEF Chats

-----------------------------------------------------------------------------
(* A turn that did not succeed leaves no trace.                            *)
LEMMA TracelessInit == Init => Traceless
BY DEF Init, Traceless, From, Running, Back

LEMMA ResolvedStays ==
  ASSUME TypeOK, [Next]_vars
  PROVE  Resolved \subseteq Resolved'
<1>1. ASSUME NEW R, NEW how, Reject(R, how)
      PROVE  Resolved \subseteq Resolved'
  BY <1>1 DEF Reject, Resolved, Pending
<1>2. ASSUME NEW r \in Pending, NEW how, Settle(r, how)
      PROVE  Resolved \subseteq Resolved'
  BY <1>2 DEF Settle, Resolved, Pending, TypeOK
<1>3. CASE UNCHANGED status
  BY <1>3 DEF Resolved
<1>4. ASSUME NEW r \in Chats, Chat(r)
      PROVE  Resolved \subseteq Resolved'
  BY <1>4 DEF Chat, Resolved, TypeOK
<1>5. CASE CancelTimeout \/ Crash \/ Destroy
  BY <1>1, <1>5 DEF CancelTimeout, Crash, Destroy
<1>6. CASE OnCancelled \/ OnResult \/ OnError
  BY <1>2, <1>3, <1>6 DEF OnCancelled, OnResult, OnError
<1>7. CASE CancelSession \/ OnMismatch
  BY <1>3, <1>7 DEF CancelSession, OnMismatch
<1>8. CASE WorkerTakes \/ TurnSteps \/ TurnSettles \/ WorkerDies \/ UNCHANGED vars
  <2>1. UNCHANGED mainVars
    BY <1>8 DEF WorkerTakes, TakeFull, TakeIncremental, AskFullSync, TakeSync, TakeCancel, TurnSteps,
       TurnAppends, TurnCompacts, TurnStripsImages, TurnSettles, TurnEnds, TurnFails, WorkerDies, vars
  <2> QED
    BY <1>3, <2>1 DEF mainVars
<1> QED
  BY <1>4, <1>5, <1>6, <1>7, <1>8 DEF Next, MainReceives

(* Steps that write no log.                                                *)
LEMMA TracelessKept ==
  ASSUME TypeOK, Traceless, Resolved \subseteq Resolved', UNCHANGED <<mirror, base, wlog>>,
         \A r \in Chats : Running(r)' => Running(r),
         \A r \in Chats : view'[r] \in {view[r], mirror},
         \A i \in Back' : toMain'[i].type = "result" => \E j \in Back : toMain'[i] = toMain[j]
  PROVE  Traceless'
<1>1. From(mirror, Resolved')
  BY FromMore DEF Traceless
<1>2. ASSUME NEW r \in Chats
      PROVE  From(view'[r], Resolved') /\ From(base[r], Resolved')
  BY FromMore DEF Traceless
<1>3. ASSUME NEW r \in Chats, Running(r)'
      PROVE  From(wlog, Resolved' \cup {r})
  <2>1. Resolved \cup {r} \subseteq Resolved' \cup {r}
    OBVIOUS
  <2> QED
    BY <1>3, <2>1, FromMore DEF Traceless
<1>4. ASSUME NEW i \in Back', toMain'[i].type = "result"
      PROVE  /\ From(toMain'[i].delta, Resolved' \cup {toMain'[i].r})
             /\ From(toMain'[i].full, Resolved' \cup {toMain'[i].r})
  <2>1. PICK j \in Back : toMain'[i] = toMain[j]
    BY <1>4
  <2> DEFINE m == toMain[j]
  <2>2. Resolved \cup {m.r} \subseteq Resolved' \cup {m.r}
    OBVIOUS
  <2>3. From(m.delta, Resolved \cup {m.r}) /\ From(m.full, Resolved \cup {m.r})
    BY <1>4, <2>1 DEF Traceless
  <2> HIDE DEF m
  <2>4. From(m.delta, Resolved' \cup {m.r}) /\ From(m.full, Resolved' \cup {m.r})
    BY <2>2, <2>3, FromMore
  <2> QED
    BY <2>1, <2>4 DEF m
<1> QED
  BY <1>1, <1>2, <1>3, <1>4 DEF Traceless

LEMMA TracelessMain ==
  ASSUME TypeOK, Channels, Traceless, [Next]_vars,
         \/ \E r \in Chats : Chat(r)
         \/ CancelSession \/ CancelTimeout \/ Crash \/ Destroy
         \/ OnCancelled \/ OnMismatch \/ OnError
         \/ OnResult /\ Head(toMain).r \notin Pending
  PROVE  Traceless'
<1>1. UNCHANGED <<mirror, base, wlog, task>> /\ (alive' => alive)
  <2>1. ASSUME NEW r \in Chats, Chat(r)
        PROVE  UNCHANGED <<mirror, base, wlog, task, alive>>
    BY <2>1 DEF Chat, workerVars
  <2>2. CASE CancelTimeout \/ Crash \/ Destroy
    BY <2>2 DEF CancelTimeout, Crash, Destroy
  <2>3. CASE CancelSession \/ OnCancelled \/ OnMismatch \/ OnError
    BY <2>3 DEF CancelSession, OnCancelled, OnMismatch, OnError, workerVars
  <2>4. CASE OnResult /\ Head(toMain).r \notin Pending
    BY <2>4 DEF OnResult, workerVars
  <2> QED
    BY <2>1, <2>2, <2>3, <2>4
<1>2. \A r \in Chats : view'[r] \in {view[r], mirror}
  <2>1. ASSUME NEW q, view' = [view EXCEPT ![q] = mirror]
        PROVE  \A r \in Chats : view'[r] \in {view[r], mirror}
    BY <2>1 DEF TypeOK
  <2>2. ASSUME NEW r \in Chats, Chat(r)
        PROVE  \E q : view' = [view EXCEPT ![q] = mirror]
    BY <2>2 DEF Chat
  <2>3. CASE OnMismatch
    BY <2>3 DEF OnMismatch
  <2>4. CASE \/ CancelSession \/ CancelTimeout \/ Crash \/ Destroy
             \/ OnCancelled \/ OnError \/ OnResult
    BY <2>4 DEF CancelSession, CancelTimeout, Crash, Destroy, OnCancelled, OnError, OnResult
  <2> QED
    BY <2>1, <2>2, <2>3, <2>4
<1>3. toMain' = toMain \/ (toMain # <<>> /\ toMain' = Tail(toMain))
  BY DEF Chat, CancelSession, CancelTimeout, Crash, Destroy, OnCancelled, OnMismatch, OnError,
     OnResult, Head0
<1>4. \A i \in Back' : \E j \in Back : toMain'[i] = toMain[j]
  <2>1. CASE toMain' = toMain
    BY <2>1 DEF Back
  <2>2. CASE toMain # <<>> /\ toMain' = Tail(toMain)
    BY <2>2, MainReads, Lengths DEF Shrinks, Back
  <2> QED
    BY <1>3, <2>1, <2>2
<1> QED
  BY <1>1, <1>2, <1>4, ResolvedStays, TracelessKept DEF Running

LEMMA TracelessResult ==
  ASSUME TypeOK, Channels, Traceless, [Next]_vars, OnResult, Head(toMain).r \in Pending
  PROVE  Traceless'
<1> DEFINE m == toMain[1]
<1>1. /\ toMain # <<>> /\ toMain' = Tail(toMain) /\ Head(toMain).type = "result"
      /\ UNCHANGED <<view, base, task, alive, wlog>>
  BY DEF OnResult, Head0, workerVars
<1>2. /\ Shrinks(toMain, toMain') /\ 1 \in Back /\ Head(toMain) = m /\ m \in ToMain
      /\ m.type = "result"
  BY <1>1, MainReads
<1>3. m.delta \in Log /\ m.full \in Log /\ m.r \in Chats
  BY <1>2, ReturnedFields
<1>4. Resolved \subseteq Resolved' /\ m.r \in Resolved'
  <2>1. status' = [status EXCEPT ![m.r] = "resolved"]
    BY <1>2 DEF OnResult, Settle
  <2> QED
    BY <1>3, <2>1, ResolvedStays DEF Resolved, TypeOK
<1>5. From(m.delta, Resolved') /\ From(m.full, Resolved') /\ From(mirror, Resolved')
  <2>1. From(m.delta, Resolved \cup {m.r}) /\ From(m.full, Resolved \cup {m.r})
    BY <1>2 DEF Traceless
  <2>2. Resolved \cup {m.r} \subseteq Resolved'
    BY <1>4
  <2> HIDE DEF m
  <2> QED
    BY <1>4, <2>1, <2>2, FromMore DEF Traceless
<1>6. From(mirror', Resolved')
  <2>1. mirror' = m.full \/ mirror' = mirror \o m.delta
    BY <1>2 DEF OnResult
  <2>2. From(mirror \o m.delta, Resolved')
    BY <1>3, <1>5, FromConcat DEF TypeOK
  <2> QED
    BY <1>5, <2>1, <2>2
<1>7. \A i \in Back' : \E j \in Back : toMain'[i] = toMain[j]
  BY <1>2, Lengths DEF Shrinks, Back
<1>8. ASSUME NEW r \in Chats
      PROVE  From(view[r], Resolved') /\ From(base[r], Resolved')
  BY <1>4, FromMore DEF Traceless
<1>9. ASSUME NEW r \in Chats, Running(r)'
      PROVE  From(wlog, Resolved' \cup {r})
  <2>1. Running(r)
    BY <1>1, <1>9 DEF Running
  <2>2. Resolved \cup {r} \subseteq Resolved' \cup {r}
    BY <1>4
  <2> QED
    BY <2>1, <2>2, FromMore DEF Traceless
<1>10. ASSUME NEW i \in Back', toMain'[i].type = "result"
       PROVE  /\ From(toMain'[i].delta, Resolved' \cup {toMain'[i].r})
              /\ From(toMain'[i].full, Resolved' \cup {toMain'[i].r})
  <2>1. PICK j \in Back : toMain'[i] = toMain[j]
    BY <1>7
  <2> DEFINE n == toMain[j]
  <2>2. Resolved \cup {n.r} \subseteq Resolved' \cup {n.r}
    BY <1>4
  <2>3. From(n.delta, Resolved \cup {n.r}) /\ From(n.full, Resolved \cup {n.r})
    BY <1>10, <2>1 DEF Traceless
  <2> HIDE DEF n
  <2>4. From(n.delta, Resolved' \cup {n.r}) /\ From(n.full, Resolved' \cup {n.r})
    BY <2>2, <2>3, FromMore
  <2> QED
    BY <2>1, <2>4 DEF n
<1> QED
  BY <1>1, <1>6, <1>8, <1>9, <1>10 DEF Traceless

LEMMA TracelessRun ==
  ASSUME TypeOK, Channels, Content, Traceless, [Next]_vars, WorkerTakes, toMain' = toMain,
         NEW l \in Log, Run(toWorker[1].r, l), l = view[toWorker[1].r], UNCHANGED mirror
  PROVE  Traceless'
<1> DEFINE r == toWorker[1].r
<1>1. r \in Chats /\ view' = view /\ Resolved' = Resolved /\ alive' = alive /\ alive
  BY TakenMessage DEF Resolved
<1>2. From(l, Resolved)
  BY <1>1 DEF Traceless
<1>3. task' = [task EXCEPT ![r] = "running"] /\ base' = [base EXCEPT ![r] = l]
  BY DEF Run
<1>4. \A q \in Chats : From(base'[q], Resolved)
  BY <1>1, <1>2, <1>3 DEF Traceless, TypeOK
<1>5. From(wlog', Resolved \cup {r})
  <2>1. PICK form \in {"text", "image"} :
          wlog' = Append(l, [covers |-> {<<r, 1>>}, by |-> r, form |-> form])
    BY DEF Run
  <2> DEFINE e == [covers |-> {<<r, 1>>}, by |-> r, form |-> form]
  <2>2. e \in Entry /\ \A id \in e.covers : id[1] \in Resolved \cup {r}
    <3>1. e \in Entry
      BY <1>1, EntryOf
    <3>2. \A id \in e.covers : id = <<r, 1>>
      OBVIOUS
    <3> QED
      BY <3>1, <3>2
  <2>3. From(l, Resolved \cup {r})
    BY <1>2, FromMore
  <2> HIDE DEF e
  <2>4. From(Append(l, e), Resolved \cup {r})
    BY <2>2, <2>3, FromAppend
  <2> QED
    BY <2>1, <2>4 DEF e
<1>6. ASSUME NEW q \in Chats, Running(q)'
      PROVE  From(wlog', Resolved \cup {q})
  <2>1. q = r
    BY <1>1, <1>3, <1>6, OneRunnerNext DEF Running, TypeOK
  <2> QED
    BY <1>5, <2>1
<1> QED
  BY <1>1, <1>4, <1>6 DEF Traceless, Back

(* The result of a turn holds its messages and those it started with.      *)
LEMMA ResultFrom ==
  ASSUME TypeOK, NEW T, NEW r \in Chats, NEW l \in Log, From(l, T)
  PROVE  From(ResultOf(r, l).delta, T) /\ From(ResultOf(r, l).full, T)
<1>1. Len(base[r]) \in Nat
  BY DEF TypeOK, Log
<1>2. From(Behind(l, Len(base[r])), T)
  BY <1>1, FromBehind
<1>3. From(<<>>, T)
  BY DEF From
<1> QED
  BY <1>2, <1>3 DEF ResultOf

LEMMA MaybeLogsFrom ==
  ASSUME TypeOK, NEW T, NEW r \in Chats, r \in T, From(wlog, T),
         wlog' \in {wlog} \cup (IF MayGrow(r) THEN {Append(wlog, NewEntry(r, "text"))} ELSE {})
  PROVE  From(wlog', T)
<1>1. CASE MayGrow(r) /\ wlog' = Append(wlog, NewEntry(r, "text"))
  <2>1. NewEntry(r, "text") \in Entry /\ \A id \in NewEntry(r, "text").covers : id[1] = r
    BY <1>1, NewEntryType DEF TypeOK
  <2> QED
    BY <1>1, <2>1, FromAppend DEF TypeOK
<1> QED
  BY <1>1

LEMMA TracelessTake ==
  ASSUME TypeOK, Channels, Content, Traceless, [Next]_vars, WorkerTakes
  PROVE  Traceless'
<1> DEFINE m == toWorker[1]
           r == m.r
<1>1. /\ Head(toWorker) = m /\ 1 \in Out /\ m \in ToWorker /\ r \in Chats
      /\ view' = view /\ Resolved' = Resolved /\ alive /\ alive' = alive
  BY TakenMessage DEF Resolved
<1>2. mirror' = mirror
  BY DEF WorkerTakes, TakeFull, TakeIncremental, AskFullSync, TakeSync, TakeCancel, mainVars
<1>3. CASE TakeFull
  <2>1. m.msgs = view[r] /\ Run(r, m.msgs) /\ toMain' = toMain
    BY <1>1, <1>3 DEF TakeFull, Taken, Content, Carried
  <2> QED
    BY <1>1, <1>2, <2>1, TracelessRun DEF TypeOK
<1>4. CASE TakeIncremental
  <2>1. /\ m.type = "incremental" /\ Prefix(wlog, m.from) = m.prefix
        /\ Run(r, Prefix(wlog, m.from) \o m.msgs) /\ toMain' = toMain
    BY <1>1, <1>4 DEF TakeIncremental, Taken, PrefixVerified
  <2>2. Prefix(wlog, m.from) \o m.msgs = view[r]
    BY <1>1, <2>1 DEF Content, Carried
  <2> QED
    BY <1>1, <1>2, <2>1, <2>2, TracelessRun DEF TypeOK
<1>5. CASE TakeSync /\ task[r] = "syncing"
  <2>1. m.msgs = view[r] /\ Run(r, m.msgs) /\ toMain' = toMain
    BY <1>1, <1>5 DEF TakeSync, Taken, Content, Carried
  <2> QED
    BY <1>1, <1>2, <2>1, TracelessRun DEF TypeOK
<1>6. CASE AskFullSync \/ (TakeSync /\ task[r] # "syncing") \/ (TakeCancel /\ task[r] # "running")
  <2>1. UNCHANGED <<base, wlog>>
    BY <1>1, <1>6 DEF AskFullSync, TakeSync, TakeCancel
  <2>2. \A q \in Chats : Running(q)' => Running(q)
    BY <1>1, <1>6 DEF AskFullSync, TakeSync, TakeCancel, Running, TypeOK
  <2>3. \A i \in Back' : toMain'[i].type = "result" => i \in Back /\ toMain'[i] = toMain[i]
    BY <1>6, TakeReplies DEF AskFullSync, TakeSync, TakeCancel, Taken
  <2> QED
    BY <1>1, <1>2, <2>1, <2>2, <2>3, TracelessKept
<1>7. CASE TakeCancel /\ task[r] = "running"
  <2>1. /\ task' = [task EXCEPT ![r] = "done"] /\ base' = base
        /\ wlog' \in {wlog} \cup (IF MayGrow(r) THEN {Append(wlog, NewEntry(r, "text"))} ELSE {})
    BY <1>1, <1>7 DEF TakeCancel
  <2>2. From(wlog', Resolved \cup {r}) /\ wlog' \in Log
    BY <1>1, <1>7, <2>1, MaybeLogsFrom, MaybeLogsType DEF Traceless, Running
  <2>3. \A q \in Chats : ~Running(q)'
    <3>1. \A q \in Chats : task[q] = "running" => q = r
      BY <1>1, <1>7, OneRunner
    <3> QED
      BY <1>1, <2>1, <3>1 DEF Running, TypeOK
  <2>4. ASSUME NEW i \in Back', toMain'[i].type = "result"
        PROVE  /\ From(toMain'[i].delta, Resolved \cup {toMain'[i].r})
               /\ From(toMain'[i].full, Resolved \cup {toMain'[i].r})
    <3>1. CASE i \in Back /\ toMain'[i] = toMain[i]
      BY <2>4, <3>1 DEF Traceless
    <3>2. CASE toMain'[i] = ResultOf(r, wlog')
      <4>1. toMain'[i].r = r
        BY <3>2 DEF ResultOf
      <4> QED
        BY <1>1, <2>2, <3>2, <4>1, ResultFrom
    <3> QED
      BY <2>4, <3>1, <3>2, TakeReplies
  <2> QED
    BY <1>1, <1>2, <2>1, <2>3, <2>4 DEF Traceless
<1> QED
  BY <1>3, <1>4, <1>5, <1>6, <1>7 DEF WorkerTakes

LEMMA TracelessTurn ==
  ASSUME TypeOK, Channels, Traceless, TurnSteps \/ TurnSettles \/ WorkerDies
  PROVE  Traceless'
<1>1. UNCHANGED <<mirror, view, base, status>> /\ Resolved' = Resolved /\ (alive' => alive)
  <2>1. /\ UNCHANGED <<mainVars, view, base>>
        /\ UNCHANGED alive \/ ~alive'
    BY DEF TurnSteps, TurnSettles, WorkerDies, TurnAppends, TurnCompacts, TurnStripsImages,
       TurnEnds, TurnFails
  <2> QED
    BY <2>1 DEF mainVars, Resolved
<1>2. ASSUME NEW r \in Chats, Running(r), From(wlog', Resolved \cup {r}), alive' = alive,
             \A q \in Chats : task'[q] = "running" => task[q] = "running",
             \A i \in Back' : toMain'[i].type = "result" => i \in Back /\ toMain'[i] = toMain[i]
      PROVE  Traceless'
  <2>1. ASSUME NEW q \in Chats, Running(q)'
        PROVE  From(wlog', Resolved \cup {q})
    <3>1. q = r
      BY <1>2, <2>1, OneRunner DEF Running
    <3> QED
      BY <1>2, <3>1
  <2> QED
    BY <1>1, <1>2, <2>1 DEF Traceless
<1>3. ASSUME NEW r \in Chats, TurnAppends(r)
      PROVE  Traceless'
  <2>1. PICK form \in {"text", "image"} : wlog' = Append(wlog, NewEntry(r, form))
    BY <1>3 DEF TurnAppends
  <2>2. NewEntry(r, form) \in Entry /\ \A id \in NewEntry(r, form).covers : id[1] = r
    BY <1>3, NewEntryType DEF TurnAppends, TypeOK
  <2>3. Running(r) /\ UNCHANGED <<task, toMain, alive>>
    BY <1>3 DEF TurnAppends
  <2>4. From(wlog', Resolved \cup {r})
    <3>1. From(wlog, Resolved \cup {r}) /\ wlog \in Log
      BY <2>3 DEF Traceless, TypeOK
    <3>2. \A id \in NewEntry(r, form).covers : id[1] \in Resolved \cup {r}
      BY <2>2
    <3> QED
      BY <2>1, <2>2, <3>1, <3>2, FromAppend
  <2> QED
    BY <1>2, <2>3, <2>4 DEF Back
<1>4. ASSUME NEW r \in Chats, TurnCompacts(r)
      PROVE  Traceless'
  <2>1. Running(r) /\ UNCHANGED <<task, toMain, alive>>
    BY <1>4 DEF TurnCompacts
  <2>2. From(wlog', Resolved \cup {r})
    <3>1. From(wlog, Resolved \cup {r}) /\ wlog \in Log
      BY <2>1 DEF Traceless, TypeOK
    <3>2. PICK b \in CutPoints(r, wlog) : wlog' = Compacted(r, wlog, b)
      BY <1>4 DEF TurnCompacts
    <3> QED
      BY <3>1, <3>2, FromCompacted
  <2> QED
    BY <1>2, <2>1, <2>2 DEF Back
<1>5. ASSUME NEW r \in Chats, TurnStripsImages(r)
      PROVE  Traceless'
  <2>1. Running(r) /\ UNCHANGED <<task, toMain, alive>>
    BY <1>5 DEF TurnStripsImages
  <2>2. From(wlog', Resolved \cup {r})
    BY <1>5, <2>1, FromStrip DEF TurnStripsImages, Traceless, TypeOK
  <2> QED
    BY <1>2, <2>1, <2>2 DEF Back
<1>6. ASSUME NEW r \in Chats, TurnFails(r)
      PROVE  Traceless'
  <2>1. Running(r) /\ alive' = alive /\ task' = [task EXCEPT ![r] = "done"]
    BY <1>6 DEF TurnFails
  <2>2. From(wlog', Resolved \cup {r})
    BY <1>6, <2>1, MaybeLogsFrom DEF TurnFails, Traceless
  <2>3. ASSUME NEW i \in Back', toMain'[i].type = "result"
        PROVE  i \in Back /\ toMain'[i] = toMain[i]
    <3> DEFINE n == [type |-> "error", r |-> r]
    <3>1. Append(toMain, n) = toMain' /\ n.type = "error"
      BY <1>6 DEF TurnFails
    <3> HIDE DEF n
    <3>2. Grows(toMain, toMain', n)
      BY <3>1, WorkerWrites
    <3> QED
      BY <2>3, <3>1, <3>2, Lengths DEF Grows, Back
  <2> QED
    BY <1>2, <2>1, <2>2, <2>3 DEF TypeOK
<1>7. ASSUME NEW r \in Chats, TurnEnds(r)
      PROVE  Traceless'
  <2>1. Running(r) /\ UNCHANGED <<alive, wlog>> /\ task' = [task EXCEPT ![r] = "done"]
    BY <1>7 DEF TurnEnds
  <2>2. From(wlog, Resolved \cup {r}) /\ wlog \in Log
    BY <2>1 DEF Traceless, TypeOK
  <2>3. ASSUME NEW i \in Back', toMain'[i].type = "result"
        PROVE  /\ From(toMain'[i].delta, Resolved \cup {toMain'[i].r})
               /\ From(toMain'[i].full, Resolved \cup {toMain'[i].r})
    <3>1. Grows(toMain, toMain', ResultOf(r, wlog))
      BY <1>7, WorkerWrites DEF TurnEnds
    <3>2. CASE i \in Back /\ toMain'[i] = toMain[i]
      BY <2>3, <3>2 DEF Traceless
    <3>3. CASE toMain'[i] = ResultOf(r, wlog)
      <4>1. toMain'[i].r = r
        BY <3>3 DEF ResultOf
      <4> QED
        BY <2>2, <3>3, <4>1, ResultFrom
    <3> QED
      BY <3>1, <3>2, <3>3, Lengths DEF Grows, Back
  <2>4. \A q \in Chats : Running(q)' => Running(q)
    BY <2>1 DEF Running, TypeOK
  <2> QED
    BY <1>1, <2>1, <2>3, <2>4 DEF Traceless
<1>8. CASE WorkerDies
  BY <1>1, <1>8 DEF WorkerDies, Traceless, Running, Back
<1> QED
  BY <1>3, <1>4, <1>5, <1>6, <1>7, <1>8 DEF TurnSteps, TurnSettles

LEMMA TracelessStep ==
  ASSUME TypeOK, Channels, Content, Traceless, [Next]_vars
  PROVE  Traceless'
<1>1. CASE UNCHANGED vars
  BY <1>1 DEF vars, mainVars, workerVars, Traceless, Resolved, Running, Back
<1> QED
  BY <1>1, TracelessMain, TracelessResult, TracelessTake, TracelessTurn DEF Next, MainReceives

LEMMA TracelessHolds == Spec => []Traceless
<1> QED
  BY TypeInit, TypeStep, ChannelsInit, ChannelsStep, ContentInit, ContentStep, TracelessInit,
     TracelessStep, PTL DEF Spec

LEMMA FromNone ==
  ASSUME NEW l \in Log, NEW T, From(l, T), NEW r, r \notin T
  PROVE  Of(r, l) = {}
<1>1. DOMAIN l = 1 .. Len(l)
  BY DEF Log
<1> QED
  BY <1>1 DEF Of, Covered, From

(* Nothing a turn wrote that was cancelled, failed or lost its worker is   *)
(* in the main log, or in the log another turn runs on: only a result the  *)
(* main thread still waits for changes its log.                            *)
THEOREM NoTurnLeavesTrace == Spec => []NoTrace
<1>1. TypeOK /\ Traceless => NoTrace
  <2> SUFFICES ASSUME TypeOK, Traceless, NEW r \in Chats, status[r] \in Outcome \ {"resolved"}
               PROVE  /\ Of(r, mirror) = {}
                      /\ \A q \in Chats \ {r} : Of(r, base[q]) = {}
    BY DEF NoTrace
  <2>1. r \notin Resolved
    BY DEF Resolved
  <2> QED
    BY <2>1, FromNone DEF Traceless, TypeOK
<1> QED
  BY <1>1, TypeCorrect, TracelessHolds, PTL

-----------------------------------------------------------------------------
(* A caller that waits for its turns leaves none of them behind.           *)
LEMMA SerialInit == Init => Serial
BY DEF Init, Serial, Pending

LEMMA SerialStep ==
  ASSUME TypeOK, Serial, [Next]_vars
  PROVE  Serial'
<1> SUFFICES ASSUME ~Overlap
             PROVE  Serial'
  BY DEF Serial
<1>1. CASE UNCHANGED <<mirror, status, timer, agent, view>>
  BY <1>1 DEF Serial, Pending
<1>2. ASSUME NEW r \in Chats, Chat(r)
      PROVE  Serial'
  <2>1. /\ Pending = {} /\ agent = "up" /\ UNCHANGED <<agent, timer, mirror>>
        /\ status' = [status EXCEPT ![r] = "pending"] /\ view' = [view EXCEPT ![r] = mirror]
    BY <1>2 DEF Chat
  <2>2. Pending' = {r} /\ view'[r] = mirror
    BY <2>1 DEF Pending, TypeOK
  <2> QED
    BY <2>1, <2>2 DEF Serial
<1>3. CASE CancelSession
  BY <1>3 DEF CancelSession, Serial, Pending
<1>4. CASE CancelTimeout
  <2>1. Pending' = {}
    <3>1. Reject({timer}, "cancelled") /\ "cancelled" \in Outcome /\ timer # 0
      BY <1>4 DEF CancelTimeout, Outcome
    <3>2. Pending' = Pending \ {timer}
      BY <3>1, RejectType
    <3> QED
      BY <3>1, <3>2 DEF Serial, TypeOK
  <2> QED
    BY <1>4, <2>1 DEF CancelTimeout, Serial, TypeOK
<1>5. CASE Crash \/ Destroy
  <2>1. Reject(Pending, "crashed") \/ Reject(Pending, "destroyed")
    BY <1>5 DEF Crash, Destroy
  <2>2. Pending' = {}
    BY <2>1, RejectType DEF Outcome
  <2> QED
    BY <1>5, <2>2 DEF Crash, Destroy, Serial
<1>6. ASSUME NEW r \in Pending, NEW how \in Outcome, Settle(r, how), agent' = agent
      PROVE  Serial'
  <2>1. Pending' = Pending \ {r} /\ timer' = 0
    BY <1>6, SettleType
  <2>2. Pending' = {}
    BY <2>1 DEF Serial
  <2> QED
    BY <1>6, <2>1, <2>2 DEF Serial
<1>7. ASSUME Rearm, UNCHANGED <<mirror, status, agent>>,
             \A r \in Chats : view'[r] \in {view[r], mirror}
      PROVE  Serial'
  BY <1>7 DEF Rearm, Serial, Pending
<1>8. CASE OnMismatch
  <2>1. \A r \in Chats : view'[r] \in {view[r], mirror}
    BY <1>8 DEF OnMismatch, TypeOK
  <2> QED
    BY <1>7, <1>8, <2>1 DEF OnMismatch
<1>9. CASE OnCancelled \/ OnResult \/ OnError
  <2>1. {"cancelled", "resolved", "failed"} \subseteq Outcome
    BY DEF Outcome
  <2>2. CASE OnCancelled
    BY <1>1, <1>6, <2>1, <2>2 DEF OnCancelled
  <2>3. CASE OnResult
    BY <1>6, <1>7, <2>1, <2>3 DEF OnResult
  <2>4. CASE OnError
    BY <1>6, <1>7, <2>1, <2>4 DEF OnError
  <2> QED
    BY <1>9, <2>2, <2>3, <2>4
<1>10. CASE WorkerTakes \/ TurnSteps \/ TurnSettles \/ WorkerDies \/ UNCHANGED vars
  <2>1. UNCHANGED <<mainVars, view>>
    BY <1>10 DEF WorkerTakes, TakeFull, TakeIncremental, AskFullSync, TakeSync, TakeCancel,
       TurnSteps, TurnAppends, TurnCompacts, TurnStripsImages, TurnSettles, TurnEnds, TurnFails,
       WorkerDies, vars
  <2> QED
    BY <1>1, <2>1 DEF mainVars
<1> QED
  BY <1>2, <1>3, <1>4, <1>5, <1>8, <1>9, <1>10 DEF Next, MainReceives

LEMMA SerialHolds == Spec => []Serial
<1> QED
  BY TypeInit, TypeStep, SerialInit, SerialStep, PTL DEF Spec

(* If every chat waits for its predecessor, no promise is left pending on  *)
(* a worker that was given up: the cancel timer, a crash and destroy()     *)
(* reach the one there is.                                                 *)
THEOREM NobodyStranded == ~Overlap => (Spec => []NoneStranded)
<1>1. ~Overlap /\ Serial => NoneStranded
  BY DEF Serial, NoneStranded
<1> SUFFICES ASSUME ~Overlap
             PROVE  Spec => []NoneStranded
  OBVIOUS
<1> QED
  BY <1>1, SerialHolds, PTL

-----------------------------------------------------------------------------
(* What a turn makes of the log it started on.                             *)
LEMMA OwnPairs == \A t, n : n \in Nat => <<t, n>> \in TL!Own(t)
BY DEF TL!Own

LEMMA ContinuesAppend ==
  ASSUME NEW l \in Log, NEW k \in Log, NEW t, Continues(l, k, t),
         NEW e \in Entry, e.covers \subseteq TL!Own(t)
  PROVE  Continues(Append(l, e), k, t)
<1>1. Grows(l, Append(l, e), e) /\ Len(l) \in Nat /\ Len(k) \in Nat
  BY EndOfChannel DEF Log, Grows
<1> QED
  BY <1>1 DEF Grows, Continues

LEMMA RewritesAppend ==
  ASSUME NEW l \in Log, NEW k \in Log, NEW t, NEW n \in 1 .. Len(k), Rewrites(l, k, n, t),
         NEW e \in Entry, e.covers \subseteq TL!Own(t)
  PROVE  Rewrites(Append(l, e), k, n, t)
<1> DEFINE m == Append(l, e)
<1>1. Grows(l, m, e) /\ Len(l) \in Nat /\ Len(k) \in Nat
  BY EndOfChannel DEF Log, Grows
<1> HIDE DEF m
<1>2. Len(l) - 1 >= Len(k) - n /\ Len(m) = Len(l) + 1 /\ m[Len(l) + 1] = e
  BY <1>1 DEF Rewrites, Grows
<1>3. m[1] = l[1]
  BY <1>1, <1>2 DEF Grows
<1>4. \A i \in 1 .. Len(k) - n : m[1 + i].covers = k[n + i].covers
  BY <1>1, <1>2 DEF Rewrites, Grows
<1>5. ASSUME NEW i \in Len(k) - n + 1 .. Len(m) - 1
      PROVE  m[1 + i].covers \subseteq TL!Own(t)
  <2>1. CASE i = Len(l)
    BY <1>1, <1>2, <2>1
  <2>2. CASE i # Len(l)
    <3>1. i \in Len(k) - n + 1 .. Len(l) - 1 /\ 1 + i \in 1 .. Len(l)
      BY <1>1, <1>2, <2>2
    <3> QED
      BY <1>1, <3>1 DEF Rewrites, Grows
  <2> QED
    BY <2>1, <2>2
<1>6. Rewrites(m, k, n, t)
  BY <1>1, <1>2, <1>3, <1>4, <1>5 DEF Rewrites
<1> QED
  BY <1>6 DEF m

LEMMA GrownAppend ==
  ASSUME NEW l \in Log, NEW k \in Log, NEW t, Grown(l, k, t),
         NEW e \in Entry, e.covers \subseteq TL!Own(t)
  PROVE  Grown(Append(l, e), k, t)
BY ContinuesAppend, RewritesAppend DEF Grown

LEMMA SameCovers ==
  ASSUME NEW l \in Log, NEW m \in Log, NEW k \in Log, NEW t,
         Len(m) = Len(l), \A i \in 1 .. Len(l) : m[i].covers = l[i].covers
  PROVE  /\ Continues(l, k, t) => Continues(m, k, t)
         /\ \A n \in 1 .. Len(k) : Rewrites(l, k, n, t) => Rewrites(m, k, n, t)
         /\ Grown(l, k, t) => Grown(m, k, t)
<1>1. Len(l) \in Nat /\ Len(k) \in Nat
  BY DEF Log
<1>2. Continues(l, k, t) => Continues(m, k, t)
  BY <1>1 DEF Continues
<1>3. ASSUME NEW n \in 1 .. Len(k), Rewrites(l, k, n, t)
      PROVE  Rewrites(m, k, n, t)
  <2>1. Len(l) - 1 >= Len(k) - n
    BY <1>3 DEF Rewrites
  <2>2. m[1].covers = l[1].covers
    BY <1>1, <2>1
  <2>3. \A i \in 1 .. Len(k) - n : m[1 + i].covers = l[1 + i].covers
    BY <1>1, <2>1
  <2>4. \A i \in Len(k) - n + 1 .. Len(l) - 1 : m[1 + i].covers = l[1 + i].covers
    BY <1>1, <2>1
  <2> QED
    BY <1>3, <2>2, <2>3, <2>4 DEF Rewrites
<1> QED
  BY <1>2, <1>3 DEF Grown

(* A compaction of a turn folds what it started on, as far as the cut, and *)
(* maybe messages of its own; started on nothing, it folds its own.        *)
LEMMA CompactedGrown ==
  ASSUME NEW l \in Log, NEW k \in Log, NEW t \in Chats, Continues(l, k, t), NEW b \in CutPoints(t, l)
  PROVE  Grown(Compacted(t, l, b), k, t)
<1> DEFINE c == Compacted(t, l, b)
<1>1. /\ Len(l) \in Nat /\ Len(k) \in Nat /\ b \in 2 .. Len(l) /\ Len(c) = Len(l) - b + 2
      /\ c[1].covers = UNION {l[i].covers : i \in 1 .. b - 1}
      /\ \A i \in 2 .. Len(l) - b + 2 : c[i] = l[b + i - 2]
  BY CompactedType DEF Log
<1> HIDE DEF c
<1>2. /\ Len(l) >= Len(k)
      /\ \A i \in 1 .. Len(k) : l[i].covers = k[i].covers
      /\ \A i \in Len(k) + 1 .. Len(l) : l[i].covers \subseteq TL!Own(t)
  BY DEF Continues
<1>3. CASE b - 1 <= Len(k)
  <2> DEFINE n == b - 1
  <2>1. n \in 1 .. Len(k)
    BY <1>1, <1>3
  <2>2. \A i \in 1 .. n : l[i].covers = k[i].covers
    BY <1>2, <2>1
  <2>3. c[1].covers = UNION {k[i].covers : i \in 1 .. n}
    BY <1>1, <2>2
  <2>4. ASSUME NEW i \in 1 .. Len(k) - n
        PROVE  c[1 + i].covers = k[n + i].covers
    <3>1. 1 + i \in 2 .. Len(l) - b + 2 /\ n + i \in 1 .. Len(k) /\ b + (1 + i) - 2 = n + i
      BY <1>1, <1>2, <2>1
    <3> QED
      BY <1>1, <1>2, <3>1
  <2>5. ASSUME NEW i \in Len(k) - n + 1 .. Len(c) - 1
        PROVE  c[1 + i].covers \subseteq TL!Own(t)
    <3>1. 1 + i \in 2 .. Len(l) - b + 2 /\ n + i \in Len(k) + 1 .. Len(l) /\ b + (1 + i) - 2 = n + i
      BY <1>1, <1>2, <2>1
    <3> QED
      BY <1>1, <1>2, <3>1
  <2>6. Len(c) - 1 >= Len(k) - n
    BY <1>1, <1>2
  <2> HIDE DEF n
  <2>7. Rewrites(c, k, n, t)
    BY <2>3, <2>4, <2>5, <2>6 DEF Rewrites
  <2> QED
    BY <2>1, <2>7 DEF Grown, c
<1>4. ASSUME NEW id \in c[1].covers, Len(k) < b - 1,
             \A i \in 1 .. Len(k) : id \notin k[i].covers
      PROVE  id \in TL!Own(t)
  <2>1. PICK i \in 1 .. b - 1 : id \in l[i].covers
    BY <1>1, <1>4
  <2>2. i \notin 1 .. Len(k)
    BY <1>2, <1>4, <2>1
  <2>3. i \in Len(k) + 1 .. Len(l)
    BY <1>1, <2>1, <2>2
  <2> QED
    BY <1>2, <2>1, <2>3
<1>5. ASSUME Len(k) < b - 1, NEW i \in 2 .. Len(c)
      PROVE  c[i].covers \subseteq TL!Own(t)
  <2>1. b + i - 2 \in Len(k) + 1 .. Len(l)
    BY <1>1, <1>5
  <2> QED
    BY <1>1, <1>2, <2>1
<1>6. CASE Len(k) < b - 1 /\ Len(k) > 0
  <2> DEFINE n == Len(k)
             folded == UNION {k[i].covers : i \in 1 .. n}
  <2>1. n \in 1 .. Len(k)
    BY <1>1, <1>6
  <2>2. folded \subseteq c[1].covers
    <3>1. ASSUME NEW i \in 1 .. n
          PROVE  k[i].covers \subseteq c[1].covers
      <4>1. i \in 1 .. b - 1 /\ l[i].covers = k[i].covers
        BY <1>1, <1>2, <1>6
      <4> QED
        BY <1>1, <4>1
    <3> QED
      BY <3>1
  <2>3. c[1].covers \ folded \subseteq TL!Own(t)
    BY <1>4, <1>6
  <2>4. ASSUME NEW i \in Len(k) - n + 1 .. Len(c) - 1
        PROVE  c[1 + i].covers \subseteq TL!Own(t)
    <3>1. 1 + i \in 2 .. Len(c)
      BY <1>1, <2>4
    <3> QED
      BY <1>5, <1>6, <3>1
  <2>5. Len(c) - 1 >= Len(k) - n /\ \A i \in 1 .. Len(k) - n : c[1 + i].covers = k[n + i].covers
    BY <1>1
  <2> HIDE DEF n
  <2>6. Rewrites(c, k, n, t)
    BY <2>2, <2>3, <2>4, <2>5 DEF Rewrites
  <2> QED
    BY <2>1, <2>6 DEF Grown, c
<1>7. CASE Len(k) = 0
  <2>1. Len(k) < b - 1
    BY <1>1, <1>7
  <2>2. c[1].covers \subseteq TL!Own(t)
    BY <1>1, <1>4, <1>7, <2>1
  <2>3. \A i \in 1 .. Len(c) : i = 1 \/ i \in 2 .. Len(c)
    BY <1>1
  <2>4. Continues(c, k, t)
    BY <1>1, <1>5, <1>7, <2>1, <2>2, <2>3 DEF Continues
  <2> QED
    BY <2>4 DEF Grown, c
<1> QED
  BY <1>1, <1>3, <1>6, <1>7

LEMMA LoggedAppend ==
  ASSUME TypeOK, NEW r \in Chats, Logged(r, wlog), MayGrow(r), NEW form \in {"text", "image"}
  PROVE  Logged(r, Append(wlog, NewEntry(r, form)))
<1>1. NewEntry(r, form) \in Entry /\ NewEntry(r, form).covers \subseteq TL!Own(r)
  BY NewEntryType, OwnPairs DEF TypeOK
<1> QED
  BY <1>1, GrownAppend, ContinuesAppend DEF Logged, TypeOK

LEMMA MaybeLogsLogged ==
  ASSUME TypeOK, NEW r \in Chats, Logged(r, wlog),
         wlog' \in {wlog} \cup (IF MayGrow(r) THEN {Append(wlog, NewEntry(r, "text"))} ELSE {})
  PROVE  Logged(r, wlog')
BY LoggedAppend

LEMMA ResultReported ==
  ASSUME TypeOK, NEW r \in Chats, NEW l \in Log, Logged(r, l)
  PROVE  Reported(ResultOf(r, l))
<1> DEFINE m == ResultOf(r, l)
           n == Len(base[r])
<1>1. /\ m.r = r /\ m.compacted = rewritten[r] /\ m.delta = Behind(l, n)
      /\ m.full = IF rewritten[r] THEN l ELSE <<>>
  BY DEF ResultOf
<1> HIDE DEF m
<1>2. CASE rewritten[r]
  BY <1>1, <1>2 DEF Logged, Reported, m
<1>3. CASE ~rewritten[r]
  <2>1. Continues(l, base[r], r) /\ n \in Nat /\ Len(l) \in Nat
    BY <1>3 DEF Logged, TypeOK, Log
  <2>2. n <= Len(l)
    BY <2>1 DEF Continues
  <2> HIDE DEF n
  <2>3. Len(Behind(l, n)) = Len(l) - n /\ \A i \in 1 .. Len(l) - n : Behind(l, n)[i] = l[n + i]
    BY <2>1, <2>2, SubLogs
  <2>4. ASSUME NEW i \in 1 .. Len(l) - n
        PROVE  l[n + i].covers \subseteq TL!Own(r)
    <3>1. n + i \in n + 1 .. Len(l)
      BY <2>1, <2>4
    <3> QED
      BY <2>1, <3>1 DEF Continues, n
  <2> QED
    BY <1>1, <1>3, <2>3, <2>4 DEF Reported, m
<1> QED
  BY <1>2, <1>3

LEMMA TurnsInit == Init => Turns
BY DEF Init, Turns, Running, Back

LEMMA TurnsKept ==
  ASSUME TypeOK, Turns, UNCHANGED <<base, wlog, rewritten>>,
         \A r \in Chats : Running(r)' => Running(r),
         \A i \in Back' : toMain'[i].type = "result" => \E j \in Back : toMain'[i] = toMain[j]
  PROVE  Turns'
<1>1. ASSUME NEW r \in Chats, Running(r)'
      PROVE  Logged(r, wlog)'
  BY <1>1 DEF Turns, Logged
<1>2. ASSUME NEW i \in Back', toMain'[i].type = "result"
      PROVE  Reported(toMain[i])'
  BY <1>2 DEF Turns, Reported
<1> QED
  BY <1>1, <1>2 DEF Turns

LEMMA TurnsMain ==
  ASSUME TypeOK, Turns,
         \/ \E r \in Chats : Chat(r)
         \/ CancelSession \/ CancelTimeout \/ Crash \/ Destroy \/ MainReceives
  PROVE  Turns'
<1>1. UNCHANGED <<base, wlog, rewritten, task>> /\ (alive' => alive)
  <2>1. ASSUME NEW r \in Chats, Chat(r)
        PROVE  UNCHANGED workerVars
    BY <2>1 DEF Chat
  <2>2. CASE CancelTimeout \/ Crash \/ Destroy
    BY <2>2 DEF CancelTimeout, Crash, Destroy
  <2>3. CASE CancelSession \/ OnCancelled \/ OnMismatch \/ OnResult \/ OnError
    BY <2>3 DEF CancelSession, OnCancelled, OnMismatch, OnResult, OnError, workerVars
  <2> QED
    BY <2>1, <2>2, <2>3 DEF MainReceives, workerVars
<1>2. toMain' = toMain \/ (toMain # <<>> /\ toMain' = Tail(toMain))
  <2>1. ASSUME NEW r \in Chats, Chat(r)
        PROVE  toMain' = toMain
    BY <2>1 DEF Chat
  <2>2. CASE CancelTimeout \/ Crash \/ Destroy \/ CancelSession
    BY <2>2 DEF CancelTimeout, Crash, Destroy, CancelSession
  <2>3. CASE OnCancelled \/ OnMismatch \/ OnResult \/ OnError
    BY <2>3 DEF OnCancelled, OnMismatch, OnResult, OnError, Head0
  <2> QED
    BY <2>1, <2>2, <2>3 DEF MainReceives
<1>3. \A i \in Back' : \E j \in Back : toMain'[i] = toMain[j]
  <2>1. CASE toMain' = toMain
    BY <2>1 DEF Back
  <2>2. CASE toMain # <<>> /\ toMain' = Tail(toMain)
    BY <2>2, MainReads, Lengths DEF Shrinks, Back
  <2> QED
    BY <1>2, <2>1, <2>2
<1> QED
  BY <1>1, <1>3, TurnsKept DEF Running

LEMMA TurnsRun ==
  ASSUME TypeOK, Channels, Turns, [Next]_vars, WorkerTakes, toMain' = toMain, rewritten' = rewritten,
         task[toWorker[1].r] # "done", NEW l \in Log, Run(toWorker[1].r, l)
  PROVE  Turns'
<1> DEFINE r == toWorker[1].r
<1>1. r \in Chats /\ alive' = alive /\ alive
  BY TakenMessage
<1>2. task' = [task EXCEPT ![r] = "running"] /\ base' = [base EXCEPT ![r] = l]
  BY DEF Run
<1>3. Continues(wlog', l, r)
  <2>1. PICK form \in {"text", "image"} :
          wlog' = Append(l, [covers |-> {<<r, 1>>}, by |-> r, form |-> form])
    BY DEF Run
  <2> DEFINE e == [covers |-> {<<r, 1>>}, by |-> r, form |-> form]
  <2>2. e \in Entry
    BY <1>1, EntryOf
  <2>3. e.covers \subseteq TL!Own(r)
    BY OwnPairs
  <2>4. Continues(l, l, r)
    BY DEF Continues, Log
  <2> HIDE DEF e
  <2>5. Continues(Append(l, e), l, r)
    BY <2>2, <2>3, <2>4, ContinuesAppend
  <2> QED
    BY <2>1, <2>5 DEF e
<1>4. ASSUME NEW q \in Chats, Running(q)'
      PROVE  Logged(q, wlog)'
  <2>1. q = r
    BY <1>1, <1>2, <1>4, OneRunnerNext DEF Running, TypeOK
  <2>2. base'[r] = l
    BY <1>1, <1>2 DEF TypeOK
  <2>3. Continues(wlog', base'[r], r) /\ Grown(wlog', base'[r], r)
    BY <1>3, <2>2 DEF Grown
  <2> QED
    BY <2>1, <2>3 DEF Logged
<1>5. ASSUME NEW i \in Back, toMain[i].type = "result"
      PROVE  Reported(toMain[i])'
  <2>1. toMain[i].r \in Chats \ {r}
    BY <1>5, Lengths DEF Channels, Phases
  <2>2. base'[toMain[i].r] = base[toMain[i].r]
    BY <1>2, <2>1 DEF TypeOK
  <2>3. Reported(toMain[i])
    BY <1>5 DEF Turns
  <2> QED
    BY <2>2, <2>3 DEF Reported
<1> QED
  BY <1>4, <1>5 DEF Turns, Back

LEMMA TurnsTake ==
  ASSUME TypeOK, Channels, Turns, [Next]_vars, WorkerTakes
  PROVE  Turns'
<1> DEFINE m == toWorker[1]
           r == m.r
<1>1. /\ Head(toWorker) = m /\ 1 \in Out /\ m \in ToWorker /\ r \in Chats
      /\ alive /\ alive' = alive /\ (m.type # "cancel" => m.msgs \in Log)
      /\ (m.type = "incremental" => m.from \in Nat /\ m.prefix \in Log)
  BY TakenMessage, SentFields
<1>2. rewritten' = rewritten
  BY DEF WorkerTakes, TakeFull, TakeIncremental, AskFullSync, TakeSync, TakeCancel
<1>3. CASE TakeFull
  <2>1. m.type = "full" /\ Run(r, m.msgs) /\ toMain' = toMain
    BY <1>1, <1>3 DEF TakeFull, Taken
  <2>2. task[r] # "done"
    BY <1>1, <2>1 DEF Channels, Phases, Opening
  <2> QED
    BY <1>1, <1>2, <2>1, <2>2, TurnsRun
<1>4. CASE TakeIncremental
  <2>1. /\ m.type = "incremental" /\ Prefix(wlog, m.from) = m.prefix
        /\ Run(r, Prefix(wlog, m.from) \o m.msgs) /\ toMain' = toMain
    BY <1>1, <1>4 DEF TakeIncremental, Taken, PrefixVerified
  <2>2. task[r] # "done"
    BY <1>1, <2>1 DEF Channels, Phases, Opening
  <2>3. Prefix(wlog, m.from) \o m.msgs \in Log
    BY <1>1, <2>1 DEF Log
  <2> QED
    BY <1>2, <2>1, <2>2, <2>3, TurnsRun
<1>5. CASE TakeSync /\ task[r] = "syncing"
  <2>1. m.type = "sync" /\ Run(r, m.msgs) /\ toMain' = toMain
    BY <1>1, <1>5 DEF TakeSync, Taken
  <2> QED
    BY <1>1, <1>2, <1>5, <2>1, TurnsRun
<1>6. CASE AskFullSync \/ (TakeSync /\ task[r] # "syncing") \/ (TakeCancel /\ task[r] # "running")
  <2>1. UNCHANGED <<base, wlog>>
    BY <1>1, <1>6 DEF AskFullSync, TakeSync, TakeCancel
  <2>2. \A q \in Chats : Running(q)' => Running(q)
    BY <1>1, <1>6 DEF AskFullSync, TakeSync, TakeCancel, Running, TypeOK
  <2>3. \A i \in Back' : toMain'[i].type = "result" => i \in Back /\ toMain'[i] = toMain[i]
    BY <1>6, TakeReplies DEF AskFullSync, TakeSync, TakeCancel, Taken
  <2> QED
    BY <1>2, <2>1, <2>2, <2>3, TurnsKept
<1>7. CASE TakeCancel /\ task[r] = "running"
  <2>1. /\ task' = [task EXCEPT ![r] = "done"] /\ base' = base
        /\ wlog' \in {wlog} \cup (IF MayGrow(r) THEN {Append(wlog, NewEntry(r, "text"))} ELSE {})
    BY <1>1, <1>7 DEF TakeCancel
  <2>2. Logged(r, wlog') /\ wlog' \in Log
    BY <1>1, <1>7, <2>1, MaybeLogsLogged, MaybeLogsType DEF Turns, Running
  <2>3. \A q \in Chats : ~Running(q)'
    <3>1. \A q \in Chats : task[q] = "running" => q = r
      BY <1>1, <1>7, OneRunner
    <3> QED
      BY <1>1, <2>1, <3>1 DEF Running, TypeOK
  <2>4. ASSUME NEW i \in Back', toMain'[i].type = "result"
        PROVE  Reported(toMain[i])'
    <3>1. CASE i \in Back /\ toMain'[i] = toMain[i]
      <4>1. Reported(toMain[i])
        BY <2>4, <3>1 DEF Turns
      <4> QED
        BY <2>1, <3>1, <4>1 DEF Reported
    <3>2. CASE toMain'[i] = ResultOf(r, wlog')
      <4>1. Reported(ResultOf(r, wlog'))
        BY <1>1, <2>2, ResultReported
      <4> QED
        BY <2>1, <3>2, <4>1 DEF Reported
    <3> QED
      BY <2>4, <3>1, <3>2, TakeReplies
  <2> QED
    BY <2>3, <2>4 DEF Turns
<1> QED
  BY <1>3, <1>4, <1>5, <1>6, <1>7 DEF WorkerTakes

LEMMA TurnsTurn ==
  ASSUME TypeOK, Channels, Turns, TurnSteps \/ TurnSettles \/ WorkerDies
  PROVE  Turns'
<1>1. base' = base
  BY DEF TurnSteps, TurnSettles, WorkerDies, TurnAppends, TurnCompacts, TurnStripsImages,
     TurnEnds, TurnFails
<1>2. ASSUME NEW r \in Chats, Running(r), Logged(r, wlog)', alive' = alive,
             \A q \in Chats : task'[q] = "running" => task[q] = "running",
             \A i \in Back' : toMain'[i].type = "result" => i \in Back /\ toMain'[i] = toMain[i]
      PROVE  Turns'
  <2>1. ASSUME NEW q \in Chats, Running(q)'
        PROVE  Logged(q, wlog)'
    <3>1. q = r
      BY <1>2, <2>1, OneRunner DEF Running
    <3> QED
      BY <1>2, <3>1
  <2>2. ASSUME NEW i \in Back', toMain'[i].type = "result"
        PROVE  Reported(toMain[i])'
    BY <1>1, <1>2, <2>2 DEF Turns, Reported
  <2> QED
    BY <2>1, <2>2 DEF Turns
<1>3. ASSUME NEW r \in Chats, TurnAppends(r)
      PROVE  Turns'
  <2>1. Running(r) /\ MayGrow(r) /\ UNCHANGED <<task, toMain, alive, rewritten>>
    BY <1>3 DEF TurnAppends
  <2>2. PICK form \in {"text", "image"} : wlog' = Append(wlog, NewEntry(r, form))
    BY <1>3 DEF TurnAppends
  <2>3. Logged(r, wlog')
    BY <2>1, <2>2, LoggedAppend DEF Turns
  <2>4. Logged(r, wlog)'
    BY <1>1, <2>1, <2>3 DEF Logged
  <2> QED
    BY <1>2, <2>1, <2>4 DEF Back
<1>4. ASSUME NEW r \in Chats, TurnCompacts(r)
      PROVE  Turns'
  <2>1. Running(r) /\ ~rewritten[r] /\ UNCHANGED <<task, toMain, alive>> /\ rewritten'[r]
    BY <1>4 DEF TurnCompacts, TypeOK
  <2>2. PICK b \in CutPoints(r, wlog) : wlog' = Compacted(r, wlog, b)
    BY <1>4 DEF TurnCompacts
  <2>3. Continues(wlog, base[r], r) /\ wlog \in Log /\ base[r] \in Log
    BY <2>1 DEF Turns, Logged, TypeOK
  <2>4. Grown(wlog', base[r], r)
    BY <2>2, <2>3, CompactedGrown
  <2>5. Logged(r, wlog)'
    BY <1>1, <2>1, <2>4 DEF Logged
  <2> QED
    BY <1>2, <2>1, <2>5 DEF Back
<1>5. ASSUME NEW r \in Chats, TurnStripsImages(r)
      PROVE  Turns'
  <2>1. Running(r) /\ UNCHANGED <<task, toMain, alive, rewritten>> /\ wlog' = StripImages(wlog)
    BY <1>5 DEF TurnStripsImages
  <2>2. Logged(r, wlog)
    BY <2>1 DEF Turns
  <2>3. Logged(r, wlog')
    BY <2>1, <2>2, StripType, SameCovers DEF Logged, TypeOK
  <2>4. Logged(r, wlog)'
    BY <1>1, <2>1, <2>3 DEF Logged
  <2> QED
    BY <1>2, <2>1, <2>4 DEF Back
<1>6. ASSUME NEW r \in Chats, TurnFails(r) \/ TurnEnds(r)
      PROVE  Turns'
  <2>1. /\ Running(r) /\ alive' = alive /\ task' = [task EXCEPT ![r] = "done"]
        /\ rewritten' = rewritten
    BY <1>6 DEF TurnFails, TurnEnds
  <2>2. \A q \in Chats : ~Running(q)'
    <3>1. \A q \in Chats : task[q] = "running" => q = r
      BY <2>1, OneRunner DEF Running
    <3> QED
      BY <2>1, <3>1 DEF Running, TypeOK
  <2>3. ASSUME NEW i \in Back', toMain'[i].type = "result"
        PROVE  Reported(toMain[i])'
    <3>1. CASE i \in Back /\ toMain'[i] = toMain[i]
      <4>1. Reported(toMain[i])
        BY <2>3, <3>1 DEF Turns
      <4> QED
        BY <1>1, <3>1, <4>1 DEF Reported
    <3>2. ASSUME NEW q \in Chats, TurnEnds(q), toMain'[i] = ResultOf(q, wlog)
          PROVE  Reported(toMain[i])'
      <4>1. Logged(q, wlog) /\ wlog \in Log
        BY <3>2 DEF TurnEnds, Turns, TypeOK
      <4>2. Reported(ResultOf(q, wlog))
        BY <4>1, ResultReported
      <4> QED
        BY <1>1, <3>2, <4>2 DEF Reported
    <3> QED
      BY <1>6, <2>3, <3>1, <3>2, TurnReplies DEF TurnSettles
  <2> QED
    BY <2>2, <2>3 DEF Turns
<1>7. CASE WorkerDies
  BY <1>7, TurnsKept DEF WorkerDies, Running, Back
<1> QED
  BY <1>3, <1>4, <1>5, <1>6, <1>7 DEF TurnSteps, TurnSettles

LEMMA TurnsStep ==
  ASSUME TypeOK, Channels, Turns, [Next]_vars
  PROVE  Turns'
<1>1. CASE UNCHANGED vars
  BY <1>1, TurnsKept DEF vars, mainVars, workerVars, Running, Back
<1> QED
  BY <1>1, TurnsMain, TurnsTake, TurnsTurn DEF Next, MainReceives

-----------------------------------------------------------------------------
(* The session's turns are transactions: the refinement of TurnLog.        *)
History(l) == [i \in DOMAIN l |-> l[i].covers]

LEMMA HistoryType ==
  ASSUME NEW l \in Log
  PROVE  /\ History(l) \in Seq(SUBSET Ids) /\ Len(History(l)) = Len(l) /\ Len(l) \in Nat
         /\ DOMAIN l = 1 .. Len(l)
         /\ \A i \in 1 .. Len(l) : History(l)[i] = l[i].covers
<1>1. Len(l) \in Nat /\ DOMAIN l = 1 .. Len(l) /\ \A i \in 1 .. Len(l) : l[i] \in Entry
  BY DEF Log
<1>2. \A e \in Entry : e.covers \in SUBSET Ids
  BY DEF Entry
<1> QED
  BY <1>1, <1>2 DEF History

LEMMA ContinuesExtends ==
  ASSUME NEW l \in Log, NEW k \in Log, NEW t, Continues(l, k, t)
  PROVE  TL!Extends(History(l), History(k), t)
<1> DEFINE a == History(l)
           b == History(k)
<1>1. /\ a \in Seq(SUBSET Ids) /\ Len(a) = Len(l) /\ Len(l) \in Nat
      /\ b \in Seq(SUBSET Ids) /\ Len(b) = Len(k) /\ Len(k) \in Nat
      /\ \A i \in 1 .. Len(l) : a[i] = l[i].covers
      /\ \A i \in 1 .. Len(k) : b[i] = k[i].covers
  BY HistoryType
<1> HIDE DEF a, b
<1>2. Len(a) >= Len(b) /\ \A i \in 1 .. Len(b) : a[i] = b[i]
  BY <1>1 DEF Continues
<1>3. \A i \in Len(b) + 1 .. Len(a) : a[i] \subseteq TL!Own(t)
  BY <1>1 DEF Continues
<1>4. SubSeq(a, 1, Len(b)) = b
  BY <1>1, <1>2
<1> QED
  BY <1>2, <1>3, <1>4 DEF TL!Extends, a, b

LEMMA RewritesFolds ==
  ASSUME NEW l \in Log, NEW k \in Log, NEW t, NEW n \in 1 .. Len(k), Rewrites(l, k, n, t)
  PROVE  TL!Folds(History(l), History(k), n, t)
<1> DEFINE a == History(l)
           b == History(k)
           rest == SubSeq(b, n + 1, Len(b))
<1>1. /\ a \in Seq(SUBSET Ids) /\ Len(a) = Len(l) /\ Len(l) \in Nat
      /\ b \in Seq(SUBSET Ids) /\ Len(b) = Len(k) /\ Len(k) \in Nat
      /\ \A i \in 1 .. Len(l) : a[i] = l[i].covers
      /\ \A i \in 1 .. Len(k) : b[i] = k[i].covers
  BY HistoryType
<1> HIDE DEF a, b
<1>2. n \in Nat /\ n >= 1 /\ n <= Len(b) /\ Len(a) - 1 >= Len(b) - n /\ Len(a) >= 1
  BY <1>1 DEF Rewrites
<1>3. /\ Tail(a) \in Seq(SUBSET Ids) /\ Len(Tail(a)) = Len(a) - 1
      /\ \A i \in 1 .. Len(a) - 1 : Tail(a)[i] = a[1 + i]
  BY <1>1, <1>2
<1>4. /\ rest \in Seq(SUBSET Ids) /\ Len(rest) = Len(b) - n
      /\ \A i \in 1 .. Len(b) - n : rest[i] = b[n + i]
  BY <1>1, <1>2
<1>5. TL!Covered(SubSeq(b, 1, n)) = UNION {k[i].covers : i \in 1 .. n}
  <2>1. /\ DOMAIN SubSeq(b, 1, n) = 1 .. n
        /\ \A i \in 1 .. n : SubSeq(b, 1, n)[i] = k[i].covers
    BY <1>1, <1>2
  <2> QED
    BY <2>1 DEF TL!Covered
<1>6. a[1] = l[1].covers
  BY <1>1, <1>2
<1> HIDE DEF rest
<1>7. \A i \in 1 .. Len(rest) : Tail(a)[i] = rest[i]
  <2>1. ASSUME NEW i \in 1 .. Len(b) - n
        PROVE  a[1 + i] = b[n + i]
    <3>1. 1 + i \in 1 .. Len(l) /\ n + i \in 1 .. Len(k)
      BY <1>1, <1>2
    <3> QED
      BY <1>1, <2>1, <3>1 DEF Rewrites
  <2> QED
    BY <1>1, <1>2, <1>3, <1>4, <2>1
<1>8. ASSUME NEW i \in Len(rest) + 1 .. Len(Tail(a))
      PROVE  Tail(a)[i] \subseteq TL!Own(t)
  <2>1. i \in Len(k) - n + 1 .. Len(l) - 1 /\ 1 + i \in 1 .. Len(l) /\ i \in 1 .. Len(a) - 1
    BY <1>1, <1>2, <1>3, <1>4
  <2>2. l[1 + i].covers \subseteq TL!Own(t)
    BY <2>1 DEF Rewrites
  <2> QED
    BY <1>1, <1>3, <2>1, <2>2
<1>9. TL!Extends(Tail(a), rest, t)
  <2>1. SubSeq(Tail(a), 1, Len(rest)) = rest
    BY <1>1, <1>2, <1>3, <1>4, <1>7
  <2> QED
    BY <1>2, <1>3, <1>4, <1>8, <2>1 DEF TL!Extends
<1> QED
  BY <1>2, <1>5, <1>6, <1>9 DEF TL!Folds, Rewrites, rest, a, b

(* A delta of a turn's own messages continues any log.                     *)
LEMMA DeltaContinues ==
  ASSUME NEW l \in Log, NEW d \in Log, NEW t, \A n \in 1 .. Len(d) : d[n].covers \subseteq TL!Own(t)
  PROVE  Continues(l \o d, l, t)
<1>1. /\ Len(l) \in Nat /\ Len(d) \in Nat /\ Len(l \o d) = Len(l) + Len(d)
      /\ \A i \in 1 .. Len(l) + Len(d) : (l \o d)[i] = IF i <= Len(l) THEN l[i] ELSE d[i - Len(l)]
  BY ConcatProperties DEF Log
<1>2. ASSUME NEW i \in Len(l) + 1 .. Len(l \o d)
      PROVE  (l \o d)[i].covers \subseteq TL!Own(t)
  <2>1. i - Len(l) \in 1 .. Len(d) /\ ~(i <= Len(l)) /\ i \in 1 .. Len(l) + Len(d)
    BY <1>1
  <2> QED
    BY <1>1, <2>1
<1> QED
  BY <1>1, <1>2 DEF Continues

LEMMA RefinesInit == Init => TL!Init
<1> SUFFICES ASSUME Init
             PROVE  TL!Init
  OBVIOUS
<1>1. mirror \in Log
  BY TypeInit DEF TypeOK
<1>2. History(mirror) \in Seq(SUBSET Ids)
  BY <1>1, HistoryType
<1>3. Ids \subseteq TL!Id
  BY DEF Ids, TL!Id
<1>4. History(mirror) = <<>>
  BY DEF Init, History
<1>5. [i \in DOMAIN mirror |-> mirror[i].covers] \in Seq(SUBSET TL!Id)
  BY <1>4 DEF History
<1>6. Pending = {}
  BY DEF Init, Pending
<1> QED
  BY <1>5, <1>6 DEF TL!Init

(* A result the main thread waits for is a commit.                         *)
LEMMA RefinesResult ==
  ASSUME TypeOK, Content, Turns, Serial, ~Overlap, OnResult, Head(toMain).r \in Pending
  PROVE  TL!Next
<1> DEFINE m == toMain[1]
<1>1. /\ toMain # <<>> /\ toMain' = Tail(toMain) /\ Head(toMain).type = "result"
  BY DEF OnResult, Head0
<1>2. /\ 1 \in Back /\ Head(toMain) = m /\ m \in ToMain /\ m.type = "result" /\ m.r \in Chats
  BY <1>1, MainReads
<1>3. m.delta \in Log /\ m.full \in Log /\ m.compacted \in BOOLEAN
  BY <1>2, ReturnedFields
<1>4. /\ mirror' = IF m.compacted THEN m.full ELSE mirror \o m.delta
      /\ Settle(m.r, "resolved") /\ m.r \in Pending
  BY <1>2 DEF OnResult
<1>5. base[m.r] = mirror /\ Reported(m)
  BY <1>2, <1>4 DEF Content, Carried, Serial, Turns
<1>6. Pending' = Pending \ {m.r}
  BY <1>4, SettleType DEF Outcome
<1> HIDE DEF m
<1>7. mirror' \in Log /\ mirror \in Log
  BY <1>3, <1>4 DEF TypeOK, Log
<1>8. Grown(mirror', mirror, m.r)
  <2>1. CASE m.compacted
    BY <1>4, <1>5, <2>1 DEF Reported
  <2>2. CASE ~m.compacted
    BY <1>3, <1>4, <1>5, <1>7, <2>2, DeltaContinues DEF Reported, Grown
  <2> QED
    BY <2>1, <2>2
<1>9. \/ TL!Extends(History(mirror'), History(mirror), m.r)
      \/ \E n \in 1 .. Len(History(mirror)) : TL!Folds(History(mirror'), History(mirror), n, m.r)
  <2>1. Len(History(mirror)) = Len(mirror)
    BY <1>7, HistoryType
  <2> QED
    BY <1>7, <1>8, <2>1, ContinuesExtends, RewritesFolds DEF Grown
<1>10. ASSUME NEW r \in Chats, r = m.r
       PROVE  TL!Next
  <2>1. TL!Commit(r)
    BY <1>4, <1>6, <1>9, <1>10 DEF TL!Commit, History
  <2> QED
    BY <2>1 DEF TL!Next
<1> QED
  BY <1>2, <1>10

LEMMA RefinesStep ==
  ASSUME TypeOK, Content, Turns, Serial, ~Overlap, [Next]_vars
  PROVE  [TL!Next]_TL!vars
<1>1. CASE UNCHANGED <<mirror, status>>
  BY <1>1 DEF TL!vars, Pending
<1>2. ASSUME NEW r \in Chats, Chat(r)
      PROVE  TL!Next
  <2>1. mirror' = mirror /\ status' = [status EXCEPT ![r] = "pending"]
    BY <1>2 DEF Chat
  <2>2. Pending' = Pending \cup {r}
    BY <2>1 DEF Pending, TypeOK
  <2>3. TL!Begin(r)
    BY <2>1, <2>2 DEF TL!Begin
  <2> QED
    BY <2>3 DEF TL!Next
<1>3. CASE CancelTimeout
  <2>1. Reject({timer}, "cancelled") /\ "cancelled" \in Outcome /\ timer # 0 /\ mirror' = mirror
    BY <1>3 DEF CancelTimeout, Outcome
  <2>2. Pending' = Pending \ {timer}
    BY <2>1, RejectType
  <2>3. CASE timer \in Pending
    <3>1. TL!Abandon(timer) /\ timer \in Chats
      BY <2>1, <2>2, <2>3 DEF TL!Abandon, Pending
    <3> QED
      BY <3>1 DEF TL!Next
  <2>4. CASE timer \notin Pending
    BY <2>1, <2>2, <2>4 DEF TL!vars
  <2> QED
    BY <2>3, <2>4
<1>4. CASE Crash \/ Destroy
  <2>1. (Reject(Pending, "crashed") \/ Reject(Pending, "destroyed")) /\ mirror' = mirror
    BY <1>4 DEF Crash, Destroy
  <2>2. Pending' = {}
    BY <2>1, RejectType DEF Outcome
  <2>3. TL!AbandonAll
    BY <2>1, <2>2 DEF TL!AbandonAll
  <2> QED
    BY <2>3 DEF TL!Next
<1>5. ASSUME NEW r \in Pending, NEW how \in Outcome, Settle(r, how), mirror' = mirror
      PROVE  TL!Next
  <2>1. Pending' = Pending \ {r}
    BY <1>5, SettleType
  <2>2. TL!Abandon(r) /\ r \in Chats
    BY <1>5, <2>1 DEF TL!Abandon, Pending
  <2> QED
    BY <2>2 DEF TL!Next
<1>6. CASE OnCancelled \/ OnError
  <2>1. {"cancelled", "failed"} \subseteq Outcome
    BY DEF Outcome
  <2> QED
    BY <1>1, <1>5, <1>6, <2>1 DEF OnCancelled, OnError
<1>7. CASE OnResult
  BY <1>1, <1>7, RefinesResult DEF OnResult
<1>8. CASE CancelSession \/ OnMismatch
  BY <1>1, <1>8 DEF CancelSession, OnMismatch
<1>9. CASE WorkerTakes \/ TurnSteps \/ TurnSettles \/ WorkerDies \/ UNCHANGED vars
  <2>1. UNCHANGED mainVars
    BY <1>9 DEF WorkerTakes, TakeFull, TakeIncremental, AskFullSync, TakeSync, TakeCancel,
       TurnSteps, TurnAppends, TurnCompacts, TurnStripsImages, TurnSettles, TurnEnds, TurnFails,
       WorkerDies, vars
  <2> QED
    BY <1>1, <2>1 DEF mainVars
<1> QED
  BY <1>2, <1>3, <1>4, <1>6, <1>7, <1>8, <1>9 DEF Next, MainReceives

LEMMA TurnsHold == Spec => []Turns
<1> QED
  BY TypeInit, TypeStep, ChannelsInit, ChannelsStep, TurnsInit, TurnsStep, PTL DEF Spec

(* If every chat waits for its predecessor, the session's turns are        *)
(* transactions on the main log: each begins on the log as it is, and      *)
(* either its messages enter as a whole behind everything settled before,  *)
(* perhaps with a prefix folded, or it leaves the log as it was.           *)
THEOREM TurnsAreTransactions == ~Overlap => (Spec => Transactions)
<1> SUFFICES ASSUME ~Overlap
             PROVE  Spec => Transactions
  OBVIOUS
<1>1. TypeOK /\ Content /\ Turns /\ Serial /\ [Next]_vars => [TL!Next]_TL!vars
  BY RefinesStep
<1> QED
  BY <1>1, RefinesInit, TypeCorrect, ContentHolds, TurnsHold, SerialHolds, PTL
     DEF Spec, Transactions, TL!Spec
================================================================================
