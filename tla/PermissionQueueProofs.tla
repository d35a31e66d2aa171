------------------------- MODULE PermissionQueueProofs -------------------------
(***************************************************************************)
(* Proofs about PermissionQueue, for any calls, paths and commands: every  *)
(* waiting call is served, and none is told what was not answered to it.   *)
(***************************************************************************)
EXTENDS PermissionQueue, SequenceTheorems, TLAPS

(* The dialog shows the first entry.                                       *)
ShowsFirst == shown = Pending(queue)

(* An entry whose grant is awaited was approved; while nothing was removed *)
(* from under a grant, it is the first entry.                              *)
Granted ==
  /\ granting \subseteq answered.yes
  /\ upset = {} => \A e \in granting : queue # <<>> /\ e = Head(queue)

IInv == TypeOK /\ ShowsFirst /\ Granted /\ Served /\ AnswersTheirs /\ WaitPublished

-----------------------------------------------------------------------------
(* What a removal does to the queue.                                       *)
LEMMA QueueFacts ==
  ASSUME NEW q \in Seq(Calls)
  PROVE  /\ Len(q) \in Nat /\ DOMAIN q = 1 .. Len(q)
         /\ \A i \in 1 .. Len(q) : q[i] \in Calls
         /\ q # <<>> => 1 \in DOMAIN q /\ Head(q) = q[1]
         /\ q = <<>> => DOMAIN q = {}
BY LenProperties, ElementOfSeq, EmptySeq

LEMMA TailLeaves ==
  ASSUME NEW q \in Seq(Calls), q # <<>>
  PROVE  /\ Tail(q) \in Seq(Calls)
         /\ Range(q) \ {Head(q)} \subseteq Range(Tail(q))
<1>1. /\ Tail(q) \in Seq(Calls) /\ Len(Tail(q)) = Len(q) - 1
      /\ \A i \in 1 .. Len(Tail(q)) : Tail(q)[i] = q[i + 1]
  BY HeadTailProperties
<1>2. Len(q) \in Nat /\ DOMAIN q = 1 .. Len(q) /\ DOMAIN Tail(q) = 1 .. Len(Tail(q)) /\ Head(q) = q[1]
  BY <1>1, QueueFacts
<1>3. ASSUME NEW i \in DOMAIN q, q[i] # Head(q) PROVE q[i] \in Range(Tail(q))
  <2>1. i - 1 \in DOMAIN Tail(q) /\ (i - 1) + 1 = i
    BY <1>1, <1>2, <1>3
  <2>2. Tail(q)[i - 1] = q[i]
    BY <1>1, <1>2, <2>1
  <2> QED
    BY <2>1, <2>2 DEF Range
<1> QED
  BY <1>1, <1>3 DEF Range

LEMMA RemoveLeaves ==
  ASSUME NEW q \in Seq(Calls), NEW i \in DOMAIN q
  PROVE  /\ RemoveAt(q, i) \in Seq(Calls)
         /\ Range(q) \ {q[i]} \subseteq Range(RemoveAt(q, i))
         /\ i # 1 => RemoveAt(q, i) # <<>> /\ Head(RemoveAt(q, i)) = Head(q)
<1> DEFINE a == SubSeq(q, 1, i - 1)
           b == SubSeq(q, i + 1, Len(q))
<1>1. Len(q) \in Nat /\ i \in 1 .. Len(q) /\ DOMAIN q = 1 .. Len(q)
  BY QueueFacts
<1>2. /\ a \in Seq(Calls) /\ Len(a) = i - 1
      /\ \A k \in 1 .. i - 1 : a[k] = q[k]
  <2>1. \A k \in 1 .. i - 1 : q[k] \in Calls
    BY <1>1, QueueFacts
  <2>2. /\ a \in Seq(Calls) /\ Len(a) = IF 1 <= i - 1 THEN i - 1 - 1 + 1 ELSE 0
        /\ \A k \in 1 .. i - 1 - 1 + 1 : a[k] = q[1 + k - 1]
    BY <1>1, <2>1, SubSeqProperties
  <2>3. i - 1 - 1 + 1 = i - 1 /\ \A k \in 1 .. i - 1 : 1 + k - 1 = k
    BY <1>1
  <2> QED
    BY <1>1, <2>2, <2>3
<1>3. /\ b \in Seq(Calls) /\ Len(b) = Len(q) - i
      /\ \A k \in 1 .. Len(q) - i : b[k] = q[i + k]
  <2>1. \A k \in i + 1 .. Len(q) : q[k] \in Calls
    BY <1>1, QueueFacts
  <2>2. /\ b \in Seq(Calls) /\ Len(b) = IF i + 1 <= Len(q) THEN Len(q) - (i + 1) + 1 ELSE 0
        /\ \A k \in 1 .. Len(q) - (i + 1) + 1 : b[k] = q[(i + 1) + k - 1]
    BY <1>1, <2>1, SubSeqProperties
  <2>3. Len(q) - (i + 1) + 1 = Len(q) - i /\ \A k \in 1 .. Len(q) - i : (i + 1) + k - 1 = i + k
    BY <1>1
  <2> QED
    BY <1>1, <2>2, <2>3
<1> HIDE DEF a, b
<1>4. /\ a \o b \in Seq(Calls) /\ Len(a \o b) = Len(a) + Len(b)
      /\ \A k \in 1 .. Len(a) + Len(b) : (a \o b)[k] = IF k <= Len(a) THEN a[k] ELSE b[k - Len(a)]
  BY <1>2, <1>3, ConcatProperties
<1>5. Len(a) + Len(b) = Len(q) - 1 /\ Len(a) = i - 1
  BY <1>1, <1>2, <1>3
<1>6. DOMAIN (a \o b) = 1 .. Len(q) - 1
  BY <1>4, <1>5, LenProperties
<1>7. \A k \in 1 .. Len(q) - 1 : (a \o b)[k] = IF k <= i - 1 THEN a[k] ELSE b[k - (i - 1)]
  BY <1>4, <1>5
<1>8. ASSUME NEW k \in 1 .. Len(q), k # i PROVE q[k] \in Range(a \o b)
  <2>1. CASE k < i
    <3>1. k \in 1 .. Len(q) - 1 /\ k <= i - 1 /\ k \in 1 .. i - 1
      BY <1>1, <2>1
    <3>2. (a \o b)[k] = q[k]
      BY <1>2, <1>7, <3>1
    <3> QED
      BY <1>6, <3>1, <3>2 DEF Range
  <2>2. CASE k > i
    <3>1. k - 1 \in 1 .. Len(q) - 1 /\ ~(k - 1 <= i - 1) /\ (k - 1) - (i - 1) = k - i
      BY <1>1, <2>2
    <3>2. k - i \in 1 .. Len(q) - i /\ i + (k - i) = k
      BY <1>1, <2>2
    <3>3. (a \o b)[k - 1] = b[k - i] /\ b[k - i] = q[k]
      BY <1>3, <1>7, <3>1, <3>2
    <3> QED
      BY <1>6, <3>1, <3>3 DEF Range
  <2> QED
    BY <1>1, <1>8, <2>1, <2>2
<1>9. ASSUME i # 1 PROVE a \o b # <<>> /\ Head(a \o b) = q[1]
  <2>1. 1 \in 1 .. Len(q) - 1 /\ 1 <= i - 1 /\ 1 \in 1 .. i - 1
    BY <1>1, <1>9
  <2>2. (a \o b)[1] = q[1]
    BY <1>2, <1>7, <2>1
  <2>3. a \o b # <<>>
    BY <1>4, <1>6, <2>1, QueueFacts
  <2> QED
    BY <1>4, <2>2, <2>3, QueueFacts
<1> QED
  BY <1>1, <1>4, <1>8, <1>9, QueueFacts DEF Range, RemoveAt, a, b

LEMMA WithoutLeaves ==
  ASSUME queue \in Seq(Calls), NEW removed, NEW q \in Without(removed)
  PROVE  /\ q \in Seq(Calls)
         /\ Range(q) = Queued \ removed
         /\ queue # <<>> /\ Head(queue) \notin removed => q # <<>> /\ Head(q) = Head(queue)
<1>0. PICK n \in 0 .. Len(queue) : \E at \in [1 .. n -> Places(removed)] :
        /\ InOrder(at) /\ Range(at) = Places(removed)
        /\ q = [k \in DOMAIN at |-> queue[at[k]]]
  BY DEF Without
<1>1. PICK at \in [1 .. n -> Places(removed)] :
        /\ InOrder(at) /\ Range(at) = Places(removed)
        /\ q = [k \in DOMAIN at |-> queue[at[k]]]
  BY <1>0
<1>2. Len(queue) \in Nat /\ DOMAIN queue = 1 .. Len(queue)
  BY QueueFacts
<1>3. Places(removed) \subseteq DOMAIN queue /\ n \in Nat /\ DOMAIN at = 1 .. n
  BY <1>1, <1>2 DEF Places
<1>4. \A k \in 1 .. n : at[k] \in DOMAIN queue /\ queue[at[k]] \in Calls /\ q[k] = queue[at[k]]
  BY <1>1, <1>2, <1>3, QueueFacts
<1>5. q \in Seq(Calls) /\ DOMAIN q = 1 .. n
  <2>1. q \in [1 .. n -> Calls]
    BY <1>1, <1>3, <1>4
  <2> QED
    BY <1>3, <2>1
<1>6. Range(q) = {queue[i] : i \in Places(removed)}
  BY <1>1, <1>3, <1>4, <1>5 DEF Range
<1>7. Range(q) = Queued \ removed
  BY <1>6 DEF Places, Queued, Range
<1>8. ASSUME queue # <<>>, Head(queue) \notin removed PROVE q # <<>> /\ Head(q) = Head(queue)
  <2>1. 1 \in Places(removed) /\ Head(queue) = queue[1]
    BY <1>8, QueueFacts DEF Places
  <2>2. PICK k \in 1 .. n : at[k] = 1
    BY <1>1, <1>3, <2>1 DEF Range
  <2>3. 1 \in 1 .. n /\ at[1] >= 1
    BY <1>2, <1>3, <1>4, <2>2
  <2>4. k = 1
    BY <1>1, <1>2, <1>3, <1>4, <2>2, <2>3 DEF InOrder
  <2> QED
    BY <1>4, <1>5, <2>1, <2>2, <2>3, <2>4, QueueFacts
<1> QED
  BY <1>5, <1>7, <1>8

-----------------------------------------------------------------------------
(* The calls, the queue and the answers keep their types.                  *)
LEMMA TypeNext ==
  ASSUME TypeOK, ShowsFirst, Next
  PROVE  TypeOK'
<1> USE PermissionConstants DEF TypeOK
<1>0. \A cs, how : how \in {"allowed", "denied", "rejected"} =>
        Settled(cs, how) \in [Calls -> [st : {"unasked", "waiting", "allowed", "denied", "rejected"},
                                        for : Paths \cup Commands \cup {Nothing},
                                        entry : Calls \cup {Nobody}, tracked : BOOLEAN]]
  BY DEF Settled
<1>1. ASSUME NEW q \in Seq(Calls), Leave(q)
      PROVE  queue' \in Seq(Calls) /\ shown' \in Calls \cup {Nobody} /\ waiting' \in BOOLEAN
  BY <1>1, QueueFacts DEF Leave, SyncPending, PublishEnd, Pending
<1>2. queue # <<>> => Tail(queue) \in Seq(Calls) /\ Head(queue) \in Calls
  BY TailLeaves, QueueFacts
<1>3. ASSUME NEW c \in Calls, Join(c) \/ RequestAborted(c) \/ AbortJoined(c) PROVE TypeOK'
  <2>1. Queued \subseteq Calls
    BY QueueFacts DEF Queued, Range
  <2> QED
    BY <1>0, <1>3, <2>1 DEF Join, RequestAborted, AbortJoined, Mergeable
<1>4. ASSUME NEW c \in Calls, Request(c) PROVE TypeOK'
  <2>1. Append(queue, c) \in Seq(Calls) /\ Pending(Append(queue, c)) \in Calls \cup {Nobody}
    BY AppendProperties, QueueFacts DEF Pending
  <2> QED
    BY <1>4, <2>1 DEF Request
<1>5. ASSUME NEW c \in Calls, AbortOwner(c) PROVE TypeOK'
  <2>1. PICK i \in DOMAIN queue : queue[i] = c /\ Leave(RemoveAt(queue, i))
    BY <1>5 DEF AbortOwner
  <2>2. RemoveAt(queue, i) \in Seq(Calls)
    BY RemoveLeaves
  <2> QED
    BY <1>0, <1>1, <1>5, <2>1, <2>2 DEF AbortOwner, Disturb
<1>6. CASE Deny \/ ApproveCommand \/ ApprovePath
  <2>1. shown \in Calls /\ queue # <<>>
    BY <1>6 DEF Deny, ApproveCommand, ApprovePath, Respond
  <2>2. answered' \in [yes : SUBSET Calls, no : SUBSET Calls]
    BY <1>6, <2>1 DEF Deny, ApproveCommand, ApprovePath, Respond
  <2>3. CASE Deny
    BY <1>0, <1>1, <1>2, <2>1, <2>2, <2>3 DEF Deny
  <2>4. CASE ApproveCommand
    BY <1>0, <1>1, <1>2, <2>1, <2>2, <2>4 DEF ApproveCommand
  <2>5. CASE ApprovePath
    BY <1>2, <2>1, <2>2, <2>5 DEF ApprovePath
  <2> QED
    BY <1>6, <2>3, <2>4, <2>5
<1>7. ASSUME NEW e \in granting, GrantReturns(e) PROVE TypeOK'
  <2>1. PICK q \in Seq(Calls) : Leave(q)
    BY <1>2, <1>7 DEF GrantReturns
  <2>2. queue' \in Seq(Calls) /\ shown' \in Calls \cup {Nobody} /\ waiting' \in BOOLEAN
    BY <1>1, <2>1
  <2> QED
    BY <1>0, <1>7, <2>2 DEF GrantReturns
<1>8. ASSUME NEW only \in BOOLEAN, CancelRequests(only) PROVE TypeOK'
  <2> DEFINE removed == {e \in Queued : only => ~call[e].tracked}
  <2>1. PICK q \in Without(removed) : Leave(q)
    BY <1>8 DEF CancelRequests
  <2>2. q \in Seq(Calls)
    BY WithoutLeaves
  <2> QED
    BY <1>0, <1>1, <1>8, <2>1, <2>2 DEF CancelRequests, Disturb
<1> QED
  BY <1>3, <1>4, <1>5, <1>6, <1>7, <1>8 DEF Next

(* Whatever happens to the queue, the dialog and the watchdogs follow.     *)
LEMMA ShowsNext ==
  ASSUME TypeOK, ShowsFirst, WaitPublished, Next
  PROVE  ShowsFirst' /\ WaitPublished'
<1>1. ASSUME NEW q, Leave(q), waiting \/ q = <<>> PROVE ShowsFirst' /\ WaitPublished'
  BY <1>1 DEF Leave, SyncPending, PublishEnd, Pending, ShowsFirst, WaitPublished
<1>2. ASSUME NEW q, Leave(q), queue # <<>> PROVE ShowsFirst' /\ WaitPublished'
  BY <1>1, <1>2 DEF WaitPublished
<1>3. ASSUME NEW c \in Calls, Join(c) \/ RequestAborted(c) \/ AbortJoined(c)
      PROVE  ShowsFirst' /\ WaitPublished'
  BY <1>3 DEF Join, RequestAborted, AbortJoined, ShowsFirst, WaitPublished, Pending
<1>4. ASSUME NEW c \in Calls, Request(c) PROVE ShowsFirst' /\ WaitPublished'
  <2>1. Append(queue, c) # <<>>
    BY AppendProperties DEF TypeOK
  <2> QED
    BY <1>4, <2>1 DEF Request, ShowsFirst, WaitPublished, Pending, TypeOK
<1>5. ASSUME NEW c \in Calls, AbortOwner(c) PROVE ShowsFirst' /\ WaitPublished'
  <2>1. PICK i \in DOMAIN queue : Leave(RemoveAt(queue, i))
    BY <1>5 DEF AbortOwner
  <2>2. queue # <<>>
    BY <2>1, QueueFacts DEF TypeOK
  <2> QED
    BY <1>2, <2>1, <2>2
<1>6. CASE Deny \/ ApproveCommand
  BY <1>2, <1>6 DEF Deny, ApproveCommand, Respond
<1>7. CASE ApprovePath
  BY <1>7 DEF ApprovePath, ShowsFirst, WaitPublished, Pending
<1>8. ASSUME NEW e \in granting, GrantReturns(e) PROVE ShowsFirst' /\ WaitPublished'
  <2>1. CASE queue = <<>>
    BY <1>1, <1>8, <2>1 DEF GrantReturns
  <2>2. CASE queue # <<>>
    BY <1>2, <1>8, <2>2 DEF GrantReturns
  <2> QED
    BY <2>1, <2>2
<1>9. ASSUME NEW only \in BOOLEAN, CancelRequests(only) PROVE ShowsFirst' /\ WaitPublished'
  <2> DEFINE removed == {e \in Queued : only => ~call[e].tracked}
  <2>1. removed # {} /\ \E q \in Without(removed) : Leave(q)
    BY <1>9 DEF CancelRequests
  <2>2. queue # <<>>
    BY <2>1, QueueFacts DEF Queued, Range, TypeOK
  <2> QED
    BY <1>2, <2>1, <2>2
<1> QED
  BY <1>3, <1>4, <1>5, <1>6, <1>7, <1>8, <1>9 DEF Next

LEMMA UpsetGrows == TypeOK /\ Next => upset \subseteq upset'
BY DEF Next, Join, Request, RequestAborted, AbortOwner, AbortJoined, Deny, ApproveCommand,
   ApprovePath, GrantReturns, CancelRequests, Disturb

(* An entry whose grant is awaited stays the first one, or it is removed   *)
(* from under the grant.                                                   *)
LEMMA GrantedNext ==
  ASSUME TypeOK, ShowsFirst, Granted, Next
  PROVE  Granted'
<1>1. ASSUME NEW c \in Calls, Join(c) \/ RequestAborted(c) \/ AbortJoined(c) PROVE Granted'
  BY <1>1 DEF Join, RequestAborted, AbortJoined, Granted
<1>2. ASSUME NEW c \in Calls, Request(c) PROVE Granted'
  <2>1. Append(queue, c) # <<>> /\ (queue # <<>> => Head(Append(queue, c)) = Head(queue))
    BY AppendProperties, HeadTailAppend DEF TypeOK
  <2> QED
    BY <1>2, <2>1 DEF Request, Granted
<1>3. ASSUME NEW c \in Calls, AbortOwner(c) PROVE Granted'
  <2>1. PICK i \in DOMAIN queue : queue[i] = c /\ Leave(RemoveAt(queue, i))
    BY <1>3 DEF AbortOwner
  <2>2. granting' = granting /\ answered' = answered /\ queue' = RemoveAt(queue, i)
    BY <1>3, <2>1 DEF AbortOwner, Leave
  <2>3. ASSUME upset' = {}, NEW e \in granting PROVE queue' # <<>> /\ e = Head(queue')
    <3>1. queue # <<>> /\ e = Head(queue) /\ c # e
      BY <1>3, <2>3, UpsetGrows DEF Granted, AbortOwner, Disturb
    <3>2. i # 1
      BY <2>1, <3>1, QueueFacts DEF TypeOK
    <3> QED
      BY <2>2, <3>1, <3>2, RemoveLeaves DEF TypeOK
  <2> QED
    BY <2>2, <2>3 DEF Granted
<1>4. CASE Deny \/ ApproveCommand
  BY <1>4 DEF Deny, ApproveCommand, Respond, Granted, TypeOK
<1>5. CASE ApprovePath
  <2>1. shown = Head(queue)
    BY <1>5 DEF ApprovePath, Respond, ShowsFirst, Pending
  <2> QED
    BY <1>5, <2>1 DEF ApprovePath, Respond, Granted, TypeOK
<1>6. ASSUME NEW e \in granting, GrantReturns(e) PROVE Granted'
  BY <1>6 DEF GrantReturns, Granted
<1>7. ASSUME NEW only \in BOOLEAN, CancelRequests(only) PROVE Granted'
  <2> DEFINE removed == {e \in Queued : only => ~call[e].tracked}
  <2>1. PICK q \in Without(removed) : Leave(q)
    BY <1>7 DEF CancelRequests
  <2>2. granting' = granting /\ answered' = answered /\ queue' = q
    BY <1>7, <2>1 DEF CancelRequests, Leave
  <2>3. ASSUME upset' = {}, NEW e \in granting PROVE queue' # <<>> /\ e = Head(queue')
    <3>1. queue # <<>> /\ e = Head(queue) /\ e \notin removed
      BY <1>7, <2>3, UpsetGrows DEF Granted, CancelRequests, Disturb
    <3> QED
      BY <2>2, <3>1, WithoutLeaves DEF TypeOK
  <2> QED
    BY <2>2, <2>3 DEF Granted
<1> QED
  BY <1>1, <1>2, <1>3, <1>4, <1>5, <1>6, <1>7 DEF Next

LEMMA AnswersNext ==
  ASSUME TypeOK, ShowsFirst, Granted, AnswersTheirs, Next
  PROVE  AnswersTheirs'
<1>1. ASSUME NEW e, NEW how \in {"allowed", "denied", "rejected"}, NEW cs, cs \subseteq Reached(e),
             call' = Settled(cs, how),
             answered.yes \subseteq answered'.yes, answered.no \subseteq answered'.no,
             how = "allowed" => e \in answered'.yes, how = "denied" => e \in answered'.no
      PROVE  AnswersTheirs'
  BY <1>1 DEF Settled, Reached, AnswersTheirs, TypeOK
<1>2. ASSUME NEW c \in Calls, Join(c) \/ Request(c) \/ RequestAborted(c) PROVE AnswersTheirs'
  BY <1>2 DEF Join, Request, RequestAborted, AnswersTheirs, TypeOK
<1>3. ASSUME NEW cs, call' = Settled(cs, "rejected"), answered' = answered PROVE AnswersTheirs'
  BY <1>3 DEF Settled, AnswersTheirs, TypeOK
<1>4. ASSUME NEW c \in Calls, AbortOwner(c) \/ AbortJoined(c) PROVE AnswersTheirs'
  BY <1>3, <1>4 DEF AbortOwner, AbortJoined
<1>5. CASE Deny
  <2>1. shown = Head(queue)
    BY <1>5 DEF Deny, Respond, ShowsFirst, Pending
  <2> QED
    BY <1>1, <1>5, <2>1 DEF Deny, Respond
<1>6. CASE ApproveCommand
  <2>1. shown = Head(queue)
    BY <1>6 DEF ApproveCommand, Respond, ShowsFirst, Pending
  <2> QED
    BY <1>1, <1>6, <2>1 DEF ApproveCommand, Respond
<1>7. CASE ApprovePath
  BY <1>7 DEF ApprovePath, Respond, AnswersTheirs
<1>8. ASSUME NEW e \in granting, GrantReturns(e) PROVE AnswersTheirs'
  <2>1. PICK how \in {"allowed", "rejected"} : call' = Settled(Reached(e), how)
    BY <1>8 DEF GrantReturns, Answers
  <2>2. e \in answered.yes /\ answered' = answered
    BY <1>8 DEF Granted, GrantReturns
  <2> QED
    BY <1>1, <2>1, <2>2
<1>9. ASSUME NEW only \in BOOLEAN, CancelRequests(only) PROVE AnswersTheirs'
  BY <1>3, <1>9 DEF CancelRequests
<1> QED
  BY <1>2, <1>4, <1>5, <1>6, <1>7, <1>8, <1>9 DEF Next

(* No call is left without an entry.                                       *)
LEMMA ServedNext ==
  ASSUME TypeOK, ShowsFirst, Granted, Served, Next
  PROVE  Served'
<1> SUFFICES ASSUME upset' = {}, NEW c \in Calls, call'[c].st = "waiting"
             PROVE  call'[c].entry \in Queued' \cup granting'
  BY DEF Served
<1>0. upset = {}
  BY UpsetGrows
<1>1. call[c].st = "waiting" => call[c].entry \in Queued \cup granting
  BY <1>0 DEF Served
<1>2. ASSUME NEW d \in Calls, Join(d) PROVE call'[c].entry \in Queued' \cup granting'
  BY <1>1, <1>2 DEF Join, Mergeable, TypeOK, Queued
<1>3. ASSUME NEW d \in Calls, Request(d) PROVE call'[c].entry \in Queued' \cup granting'
  <2>1. Queued \cup {d} \subseteq Queued'
    <3>1. queue' = Append(queue, d) /\ Append(queue, d) \in Seq(Calls)
      BY <1>3, AppendProperties DEF Request, TypeOK
    <3>2. Range(Append(queue, d)) = Range(queue) \cup {d}
      <4>1. /\ Len(Append(queue, d)) = Len(queue) + 1
            /\ \A i \in 1 .. Len(queue) : Append(queue, d)[i] = queue[i]
            /\ Append(queue, d)[Len(queue) + 1] = d
        BY AppendProperties DEF TypeOK
      <4>2. /\ Len(queue) \in Nat /\ DOMAIN queue = 1 .. Len(queue)
            /\ DOMAIN Append(queue, d) = 1 .. Len(queue) + 1
        BY <3>1, <4>1, QueueFacts DEF TypeOK
      <4>3. 1 .. Len(queue) + 1 = (1 .. Len(queue)) \cup {Len(queue) + 1}
        BY <4>2
      <4> QED
        BY <4>1, <4>2, <4>3 DEF Range
    <3> QED
      BY <3>1, <3>2 DEF Queued
  <2> QED
    BY <1>1, <1>3, <2>1 DEF Request, TypeOK
<1>4. ASSUME NEW d \in Calls, RequestAborted(d) PROVE call'[c].entry \in Queued' \cup granting'
  BY <1>1, <1>4 DEF RequestAborted, TypeOK, Queued
<1>5. ASSUME NEW cs, NEW how \in {"allowed", "denied", "rejected"}, call' = Settled(cs, how)
      PROVE  call' [c] = call[c] /\ call[c].st = "waiting" /\ c \notin cs
  BY <1>5 DEF Settled, TypeOK
<1>6. ASSUME NEW d \in Calls, AbortOwner(d) PROVE call'[c].entry \in Queued' \cup granting'
  <2>1. PICK i \in DOMAIN queue : queue[i] = d /\ Leave(RemoveAt(queue, i))
    BY <1>6 DEF AbortOwner
  <2>2. Queued \ {d} \subseteq Queued'
    BY <2>1, RemoveLeaves DEF Leave, Queued, TypeOK
  <2>3. call'[c] = call[c] /\ call[c].st = "waiting" /\ c # d
    BY <1>5, <1>6 DEF AbortOwner
  <2>4. call[c].entry # d
    BY <1>6, <2>3 DEF AbortOwner, Disturb, Reached
  <2> QED
    BY <1>1, <1>6, <2>2, <2>3, <2>4 DEF AbortOwner
<1>7. ASSUME NEW d \in Calls, AbortJoined(d) PROVE call'[c].entry \in Queued' \cup granting'
  BY <1>1, <1>5, <1>7 DEF AbortJoined, Queued
<1>8. ASSUME NEW how \in {"allowed", "denied", "rejected"}, call' = Settled(Reached(Head(queue)), how),
             queue # <<>>, Leave(Tail(queue)), granting \ {Head(queue)} \subseteq granting'
      PROVE  call'[c].entry \in Queued' \cup granting'
  <2>1. call'[c] = call[c] /\ call[c].st = "waiting" /\ call[c].entry # Head(queue)
    BY <1>5, <1>8 DEF Reached
  <2>2. Queued \ {Head(queue)} \subseteq Queued'
    BY <1>8, TailLeaves DEF Leave, Queued, TypeOK
  <2> QED
    BY <1>1, <1>8, <2>1, <2>2
<1>9. CASE Deny \/ ApproveCommand
  BY <1>8, <1>9 DEF Deny, ApproveCommand, Respond
<1>10. CASE ApprovePath
  BY <1>1, <1>10 DEF ApprovePath, Queued
<1>11. ASSUME NEW e \in granting, GrantReturns(e) PROVE call'[c].entry \in Queued' \cup granting'
  <2>1. queue # <<>> /\ e = Head(queue)
    BY <1>0 DEF Granted
  <2> QED
    BY <1>8, <1>11, <2>1 DEF GrantReturns, Answers
<1>12. ASSUME NEW only \in BOOLEAN, CancelRequests(only) PROVE call'[c].entry \in Queued' \cup granting'
  <2> DEFINE removed == {e \in Queued : only => ~call[e].tracked}
  <2>1. PICK q \in Without(removed) : Leave(q)
    BY <1>12 DEF CancelRequests
  <2>2. Queued' = Queued \ removed
    BY <2>1, WithoutLeaves DEF Leave, Queued, TypeOK
  <2>3. call' = Settled(UNION {RejectedWith(e) : e \in removed}, "rejected") /\ granting' = granting
    BY <1>12 DEF CancelRequests
  <2>4. call'[c] = call[c] /\ call[c].st = "waiting" /\ call[c].entry \notin removed
    BY <1>5, <2>3 DEF RejectedWith, Reached
  <2> QED
    BY <1>1, <2>2, <2>3, <2>4
<1> QED
  BY <1>2, <1>3, <1>4, <1>6, <1>7, <1>9, <1>10, <1>11, <1>12 DEF Next

-----------------------------------------------------------------------------
LEMMA IInvInit == Init => IInv
<1> USE PermissionConstants DEF Init, Unasked
<1>1. Init => TypeOK
  <2>1. Unasked \in [st : {"unasked", "waiting", "allowed", "denied", "rejected"},
                    for : Paths \cup Commands \cup {Nothing},
                    entry : Calls \cup {Nobody}, tracked : BOOLEAN]
    OBVIOUS
  <2>2. <<>> \in Seq(Calls)
    BY EmptySeq
  <2> HIDE DEF Unasked
  <2>3. Init => call \in [Calls -> [st : {"unasked", "waiting", "allowed", "denied", "rejected"},
                                   for : Paths \cup Commands \cup {Nothing},
                                   entry : Calls \cup {Nobody}, tracked : BOOLEAN]]
    BY <2>1
  <2>4. Init => answered \in [yes : SUBSET Calls, no : SUBSET Calls]
    OBVIOUS
  <2> QED
    BY <2>2, <2>3, <2>4 DEF TypeOK
<1>2. Init => ShowsFirst /\ Granted /\ Served /\ AnswersTheirs /\ WaitPublished
  BY DEF ShowsFirst, Pending, Granted, Served, AnswersTheirs, WaitPublished
<1> QED
  BY <1>1, <1>2 DEF IInv

LEMMA IInvNext == IInv /\ [Next]_vars => IInv'
<1>1. IInv /\ Next => IInv'
  BY TypeNext, ShowsNext, GrantedNext, AnswersNext, ServedNext DEF IInv
<1>2. IInv /\ UNCHANGED vars => IInv'
  BY DEF IInv, TypeOK, ShowsFirst, Pending, Granted, Served, AnswersTheirs, WaitPublished, Queued, vars
<1> QED
  BY <1>1, <1>2

LEMMA IInvAlways == Spec => []IInv
BY IInvInit, IInvNext, PTL DEF Spec

(* A tool that waits has an entry to be shown or an answer under way,      *)
(* unless an entry was removed under it: Served, for any number of calls.  *)
THEOREM ServedHolds == Spec => []Served
<1>1. IInv => Served
  BY DEF IInv
<1> QED
  BY <1>1, IInvAlways, PTL

(* What a tool is told is what the user answered to the entry it made or   *)
(* joined: AnswersTheirs, whatever is removed during a grant.              *)
THEOREM AnswersTheirsHolds == Spec => []AnswersTheirs
<1>1. IInv => AnswersTheirs
  BY DEF IInv
<1> QED
  BY <1>1, IInvAlways, PTL

(* The watchdogs are off exactly while somebody waits for the user:        *)
(* WaitPublished.                                                          *)
THEOREM WaitPublishedHolds == Spec => []WaitPublished
<1>1. IInv => WaitPublished
  BY DEF IInv
<1> QED
  BY <1>1, IInvAlways, PTL
=============================================================================
