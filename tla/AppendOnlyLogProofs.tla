-------------------------- MODULE AppendOnlyLogProofs --------------------------
(***************************************************************************)
(* The memos of AppendOnlyLog are never stale and every hash it hands out  *)
(* is right, for any messages and any length.  The invariant the runs      *)
(* check is inductive as it stands: an answer is computed from the memos   *)
(* and the per-message table, so its correctness needs both of them.       *)
(***************************************************************************)
EXTENDS AppendOnlyLog, SequenceTheorems, TLAPS

Inv == TypeOK /\ MemosFresh /\ AnswersRight

-----------------------------------------------------------------------------
(* A prefix of a sequence is a sequence, elementwise.                      *)
LEMMA PrefixOf ==
  ASSUME NEW S, NEW s \in Seq(S), NEW n \in 0 .. Len(s)
  PROVE  /\ SubSeq(s, 1, n) \in Seq(S)
         /\ Len(SubSeq(s, 1, n)) = n
         /\ \A i \in 1 .. n : SubSeq(s, 1, n)[i] = s[i]
  <1>1. Len(s) \in Nat
    BY LenProperties
  <1>2. \A i \in 1 .. n : s[i] \in S
    BY <1>1, ElementOfSeq
  <1> QED
    BY <1>1, <1>2, SubSeqProperties

(* A shorter prefix of a prefix is a prefix.                               *)
LEMMA PrefixOfPrefix ==
  ASSUME NEW S, NEW s \in Seq(S), NEW n \in 0 .. Len(s), NEW k \in 0 .. n
  PROVE  SubSeq(SubSeq(s, 1, n), 1, k) = SubSeq(s, 1, k)
  <1> DEFINE t == SubSeq(s, 1, n)
  <1>1. Len(s) \in Nat
    BY LenProperties
  <1>2. t \in Seq(S) /\ Len(t) = n /\ \A i \in 1 .. n : t[i] = s[i]
    BY PrefixOf
  <1>3. SubSeq(s, 1, k) \in Seq(S) /\ Len(SubSeq(s, 1, k)) = k
           /\ \A i \in 1 .. k : SubSeq(s, 1, k)[i] = s[i]
    BY <1>1, PrefixOf
  <1> HIDE DEF t
  <1>4. SubSeq(t, 1, k) \in Seq(S) /\ Len(SubSeq(t, 1, k)) = k
           /\ \A i \in 1 .. k : SubSeq(t, 1, k)[i] = t[i]
    BY <1>2, PrefixOf
  <1>5. \A i \in 1 .. k : SubSeq(t, 1, k)[i] = SubSeq(s, 1, k)[i]
    BY <1>2, <1>3, <1>4
  <1>6. SubSeq(t, 1, k) = SubSeq(s, 1, k)
    BY <1>3, <1>4, <1>5, SeqEqual
  <1> QED
    BY <1>6 DEF t

(* Appending to a sequence leaves its prefixes as they are.                *)
LEMMA PrefixOfAppend ==
  ASSUME NEW S, NEW s \in Seq(S), NEW e \in S, NEW k \in 0 .. Len(s)
  PROVE  SubSeq(Append(s, e), 1, k) = SubSeq(s, 1, k)
  <1> DEFINE t == Append(s, e)
  <1>1. Len(s) \in Nat
    BY LenProperties
  <1>2. t \in Seq(S) /\ Len(t) = Len(s) + 1 /\ \A i \in 1 .. Len(s) : t[i] = s[i]
    BY AppendProperties
  <1>3. SubSeq(s, 1, k) \in Seq(S) /\ Len(SubSeq(s, 1, k)) = k
           /\ \A i \in 1 .. k : SubSeq(s, 1, k)[i] = s[i]
    BY PrefixOf
  <1> HIDE DEF t
  <1>4. SubSeq(t, 1, k) \in Seq(S) /\ Len(SubSeq(t, 1, k)) = k
           /\ \A i \in 1 .. k : SubSeq(t, 1, k)[i] = t[i]
    BY <1>1, <1>2, PrefixOf
  <1>5. \A i \in 1 .. k : SubSeq(t, 1, k)[i] = SubSeq(s, 1, k)[i]
    BY <1>1, <1>2, <1>3, <1>4
  <1>6. SubSeq(t, 1, k) = SubSeq(s, 1, k)
    BY <1>3, <1>4, <1>5, SeqEqual
  <1> QED
    BY <1>6 DEF t

(* The hashing loop extends the hash of a prefix to the hash of a longer   *)
(* one, when the per-message table is in step with the messages.           *)
LEMMA CascadeExtends ==
  ASSUME TypeOK, NEW n \in 0 .. Len(messages), NEW k \in 0 .. n
  PROVE  Cascade(Prefix(k), k, n) = Prefix(n)
  <1> DEFINE tail == [j \in 1 .. n - k |-> hashes[k + j - 1]]
  <1>1. messages \in Seq(Message) /\ Len(messages) \in Nat
    BY LenProperties DEF TypeOK
  <1> HIDE DEF tail
  <1>2. \A j \in 1 .. n - k : k + j - 1 \in DOMAIN hashes /\ hashes[k + j - 1] = messages[k + j]
    <2> TAKE j \in 1 .. n - k
    <2>1. k + j - 1 \in 0 .. Len(messages) - 1 /\ (k + j - 1) + 1 = k + j /\ k + j \in 1 .. n
      BY <1>1
    <2> QED
      BY <2>1 DEF TypeOK
  <1>3. \A i \in 1 .. n : messages[i] \in Message
    BY <1>1, ElementOfSeq
  <1>4. tail \in [1 .. n - k -> Message]
    <2>1. \A j \in 1 .. n - k : k + j \in 1 .. n
      BY <1>1
    <2> QED
      BY <1>2, <1>3, <2>1 DEF tail
  <1>5. tail \in Seq(Message) /\ Len(tail) = n - k
    <2>1. n - k \in Nat
      BY <1>1
    <2> QED
      BY <1>4, <2>1
  <1>6. Prefix(k) \in Seq(Message) /\ Len(Prefix(k)) = k
           /\ \A i \in 1 .. k : Prefix(k)[i] = messages[i]
    BY <1>1, PrefixOf DEF Prefix
  <1>7. Prefix(n) \in Seq(Message) /\ Len(Prefix(n)) = n
           /\ \A i \in 1 .. n : Prefix(n)[i] = messages[i]
    BY <1>1, PrefixOf DEF Prefix
  <1>8. \A j \in 1 .. n - k : tail[j] = messages[k + j]
    BY <1>2 DEF tail
  <1>9. /\ Prefix(k) \o tail \in Seq(Message)
        /\ Len(Prefix(k) \o tail) = k + (n - k)
        /\ \A i \in 1 .. k + (n - k) :
             (Prefix(k) \o tail)[i] = IF i <= k THEN Prefix(k)[i] ELSE tail[i - k]
    <2> DEFINE head == Prefix(k)
    <2>1. head \in Seq(Message) /\ Len(head) = k
      BY <1>6
    <2> HIDE DEF head
    <2>2. /\ head \o tail \in Seq(Message)
          /\ Len(head \o tail) = Len(head) + Len(tail)
          /\ \A i \in 1 .. Len(head) + Len(tail) :
               (head \o tail)[i] = IF i <= Len(head) THEN head[i] ELSE tail[i - Len(head)]
      BY <1>5, <2>1, ConcatProperties
    <2>3. /\ head \o tail \in Seq(Message)
          /\ Len(head \o tail) = k + (n - k)
          /\ \A i \in 1 .. k + (n - k) :
               (head \o tail)[i] = IF i <= k THEN head[i] ELSE tail[i - k]
      BY <1>5, <2>1, <2>2, Zenon
    <2> QED
      BY <2>3 DEF head
  <1>10. \A i \in 1 .. n : (Prefix(k) \o tail)[i] = Prefix(n)[i]
    <2> TAKE i \in 1 .. n
    <2>1. (Prefix(k) \o tail)[i] = IF i <= k THEN Prefix(k)[i] ELSE tail[i - k]
      BY <1>1, <1>9
    <2>2. CASE i <= k
      BY <1>1, <1>6, <1>7, <2>1, <2>2
    <2>3. CASE ~(i <= k)
      <3>1. i - k \in 1 .. n - k /\ k + (i - k) = i
        BY <1>1, <2>3
      <3>2. tail[i - k] = messages[i]
        BY <1>8, <3>1
      <3> QED
        BY <1>7, <2>1, <2>3, <3>2
    <2> QED
      BY <2>2, <2>3
  <1>11. Len(Prefix(k) \o tail) = n
    BY <1>1, <1>9
  <1>12. Prefix(k) \o tail = Prefix(n)
    BY <1>7, <1>9, <1>10, <1>11, SeqEqual
  <1> QED
    BY <1>12 DEF Cascade, tail

-----------------------------------------------------------------------------
LEMMA Initially == Init => Inv
  <1> SUFFICES ASSUME Init PROVE Inv
    OBVIOUS
  <1>1. messages = <<>> /\ Len(messages) = 0 /\ messages \in Seq(Message)
    BY EmptySeq DEF Init
  <1>2. DOMAIN hashes = 0 .. Len(messages) - 1 /\ \A i \in DOMAIN hashes : hashes[i] = messages[i + 1]
    BY <1>1 DEF Init
  <1>3. answer \in [of : Seq(Message), hash : Seq(Message)]
    BY EmptySeq DEF Init
  <1>4. TypeOK
    BY <1>1, <1>2, <1>3 DEF Init, TypeOK
  <1>5. Prefix(prefixChainLen) = <<>>
    BY SubSeqEmpty DEF Init, Prefix
  <1>6. MemosFresh
    BY <1>1, <1>5 DEF Init, MemosFresh
  <1> QED
    BY <1>4, <1>6 DEF Init, Inv, AnswersRight

(* A message is appended: the prefix hashed so far is still a prefix.      *)
LEMMA AppendStep ==
  ASSUME Inv, NEW m \in Message, AppendMessage(m)
  PROVE  Inv'
  <1> USE DEF Inv, AppendMessage, Store
  <1>1. messages \in Seq(Message) /\ Len(messages) \in Nat
    BY LenProperties DEF TypeOK
  <1>2. /\ messages' \in Seq(Message) /\ Len(messages') = Len(messages) + 1
        /\ \A i \in 1 .. Len(messages) : messages'[i] = messages[i]
        /\ messages'[Len(messages) + 1] = m
    BY <1>1, AppendProperties
  <1>3. DOMAIN hashes' = 0 .. Len(messages') - 1
    BY <1>1, <1>2 DEF TypeOK
  <1>4. ASSUME NEW i \in DOMAIN hashes' PROVE hashes'[i] = messages'[i + 1]
    <2>1. CASE i = Len(messages)
      BY <1>1, <1>2, <2>1
    <2>2. CASE i # Len(messages)
      <3>1. i \in DOMAIN hashes /\ i + 1 \in 1 .. Len(messages)
        BY <1>1, <1>2, <1>3, <2>2 DEF TypeOK
      <3> QED
        BY <1>2, <2>2, <3>1 DEF TypeOK
    <2> QED
      BY <2>1, <2>2
  <1>5. lastComputedHash' \in Seq(Message)
    BY EmptySeq
  <1>6. TypeOK'
    BY <1>2, <1>3, <1>4, <1>5 DEF TypeOK
  <1>7. SubSeq(messages', 1, prefixChainLen) = SubSeq(messages, 1, prefixChainLen)
    BY <1>1, PrefixOfAppend DEF TypeOK, MemosFresh
  <1>8. prefixChainHash' = Prefix(prefixChainLen)'
    BY <1>7 DEF MemosFresh, Prefix
  <1>9. prefixChainLen' <= Len(messages')
    BY <1>1, <1>2 DEF TypeOK, MemosFresh
  <1>10. MemosFresh'
    BY <1>8, <1>9 DEF MemosFresh
  <1> QED
    BY <1>6, <1>10 DEF AnswersRight

(* The tail is popped: a hashed prefix that loses a message is forgotten.  *)
LEMMA TruncateStep ==
  ASSUME Inv, NEW n \in 0 .. MaxLen, TruncateTo(n)
  PROVE  Inv'
  <1> USE DEF Inv, TruncateTo, Drop
  <1>1. messages \in Seq(Message) /\ Len(messages) \in Nat /\ n \in Nat /\ n < Len(messages)
    BY LenProperties, MaxLenAssumption DEF TypeOK
  <1>2. /\ messages' \in Seq(Message) /\ Len(messages') = n
        /\ \A i \in 1 .. n : messages'[i] = messages[i]
    BY <1>1, PrefixOf DEF Prefix
  <1>3. DOMAIN hashes' = 0 .. Len(messages') - 1
    BY <1>1, <1>2 DEF TypeOK
  <1>4. ASSUME NEW i \in DOMAIN hashes' PROVE hashes'[i] = messages'[i + 1]
    <2>1. i \in DOMAIN hashes /\ i + 1 \in 1 .. n /\ hashes'[i] = hashes[i]
      BY <1>1, <1>2, <1>3 DEF TypeOK
    <2> QED
      BY <1>2, <2>1 DEF TypeOK
  <1>5. lastComputedHash' \in Seq(Message)
    BY EmptySeq
  <1>6. wireMetas' = messages'
    BY DEF TypeOK, Prefix
  <1>7. prefixChainLen' \in Nat /\ prefixChainHash' \in Seq(Message)
    BY EmptySeq DEF TypeOK
  <1>8. TypeOK'
    BY <1>2, <1>3, <1>4, <1>5, <1>6, <1>7 DEF TypeOK
  <1>9. prefixChainLen' <= Len(messages') /\ prefixChainHash' = SubSeq(messages', 1, prefixChainLen')
    <2>1. CASE prefixChainLen > n
      BY <1>2, <2>1, <1>1, SubSeqEmpty
    <2>2. CASE ~(prefixChainLen > n)
      <3>1. prefixChainLen \in 0 .. n /\ n \in 0 .. Len(messages)
        BY <1>1, <2>2 DEF TypeOK
      <3>2. SubSeq(SubSeq(messages, 1, n), 1, prefixChainLen) = SubSeq(messages, 1, prefixChainLen)
        BY <1>1, <3>1, PrefixOfPrefix
      <3> QED
        BY <1>2, <2>2, <3>1, <3>2 DEF MemosFresh, Prefix
    <2> QED
      BY <2>1, <2>2
  <1>10. MemosFresh'
    BY <1>9 DEF MemosFresh, Prefix
  <1> QED
    BY <1>8, <1>10 DEF AnswersRight

(* The log is filled anew, or emptied: every memo starts over.             *)
LEMMA RefillStep ==
  ASSUME Inv, NEW l \in Seq(Message), Refill(l)
  PROVE  Inv'
  <1> USE DEF Inv, Refill
  <1>1. Len(l) \in Nat /\ messages' = l
    BY LenProperties
  <1>2. lastComputedHash' \in Seq(Message) /\ prefixChainHash' \in Seq(Message)
    BY EmptySeq
  <1>3. TypeOK'
    BY <1>1, <1>2 DEF TypeOK
  <1>4. SubSeq(messages', 1, 0) = <<>>
    BY SubSeqEmpty
  <1>5. MemosFresh'
    BY <1>1, <1>4 DEF MemosFresh, Prefix
  <1> QED
    BY <1>3, <1>5 DEF AnswersRight

(* The hash of the whole log, remembered or computed.                      *)
LEMMA HashStep ==
  ASSUME Inv, ComputeHash
  PROVE  Inv'
  <1> USE DEF Inv
  <1>1. messages \in Seq(Message) /\ Len(messages) \in Nat
    BY LenProperties DEF TypeOK
  <1>2. Prefix(0) = <<>> /\ Prefix(Len(messages)) = messages
    BY <1>1, SubSeqEmpty, SubSeqFull DEF Prefix
  <1>3. Cascade(<<>>, 0, Len(messages)) = messages
    BY <1>1, <1>2, CascadeExtends
  <1>4. lastComputedHash' \in {<<>>, messages} /\ answer' = [of |-> messages, hash |-> messages]
    BY <1>3 DEF ComputeHash, MemosFresh
  <1>5. lastComputedHash' \in Seq(Message)
    BY <1>1, <1>4, EmptySeq
  <1>6. answer' \in [of : Seq(Message), hash : Seq(Message)] /\ answer'.hash = answer'.of
    BY <1>1, <1>4
  <1>7. UNCHANGED <<messages, hashes, wireMetas, footprint, prefixChainLen, prefixChainHash>>
    BY DEF ComputeHash
  <1>8. TypeOK'
    BY <1>5, <1>6, <1>7 DEF TypeOK
  <1>9. MemosFresh'
    BY <1>4, <1>7 DEF MemosFresh, Prefix
  <1> QED
    BY <1>6, <1>8, <1>9 DEF AnswersRight

(* The hash of a prefix, computed from the longest prefix known so far, or *)
(* from the start.                                                         *)
LEMMA HashUpToStep ==
  ASSUME Inv, NEW n \in 1 .. MaxLen, ComputeHashUpTo(n)
  PROVE  Inv'
  <1> USE DEF Inv
  <1>1. messages \in Seq(Message) /\ Len(messages) \in Nat /\ n \in 0 .. Len(messages)
    BY LenProperties, MaxLenAssumption DEF TypeOK, ComputeHashUpTo
  <1>2. HashUpTo(n) = Prefix(n)
    <2>1. CASE prefixChainLen <= n
      <3>1. prefixChainLen \in 0 .. n
        BY <1>1, <2>1 DEF TypeOK
      <3>2. Cascade(Prefix(prefixChainLen), prefixChainLen, n) = Prefix(n)
        BY <1>1, <3>1, CascadeExtends
      <3> QED
        BY <2>1, <3>2 DEF HashUpTo, Base, MemosFresh
    <2>2. CASE ~(prefixChainLen <= n)
      <3>1. Prefix(0) = <<>>
        BY SubSeqEmpty DEF Prefix
      <3>2. Cascade(Prefix(0), 0, n) = Prefix(n)
        BY <1>1, CascadeExtends
      <3> QED
        BY <2>2, <3>1, <3>2 DEF HashUpTo, Base
    <2> QED
      BY <2>1, <2>2
  <1>3. Prefix(n) \in Seq(Message)
    BY <1>1, PrefixOf DEF Prefix
  <1>4. n = Len(messages) => Prefix(n) = messages
    BY <1>1, SubSeqFull DEF Prefix
  <1>5. UNCHANGED <<messages, hashes, wireMetas, footprint>>
    BY DEF ComputeHashUpTo
  <1>6. answer' = [of |-> Prefix(n), hash |-> Prefix(n)]
    BY <1>2 DEF ComputeHashUpTo
  <1>7. answer' \in [of : Seq(Message), hash : Seq(Message)] /\ answer'.hash = answer'.of
    BY <1>3, <1>6
  <1>8. lastComputedHash' \in {lastComputedHash, messages}
    BY <1>2, <1>4 DEF ComputeHashUpTo
  <1>9. \/ prefixChainLen' = n /\ prefixChainHash' = Prefix(n)
        \/ prefixChainLen' = prefixChainLen /\ prefixChainHash' = prefixChainHash
    BY <1>2 DEF ComputeHashUpTo
  <1>10. TypeOK'
    BY <1>1, <1>3, <1>5, <1>7, <1>8, <1>9 DEF TypeOK
  <1>11. MemosFresh'
    BY <1>1, <1>5, <1>8, <1>9 DEF MemosFresh, Prefix
  <1> QED
    BY <1>7, <1>10, <1>11 DEF AnswersRight

(* The hash of the whole log is handed out again.                          *)
LEMMA KnownHashStep ==
  ASSUME Inv, NEW n \in 1 .. MaxLen, AnswerKnownHash(n)
  PROVE  Inv'
  <1> USE DEF Inv, AnswerKnownHash
  <1>1. messages \in Seq(Message) /\ Len(messages) \in Nat
    BY LenProperties DEF TypeOK
  <1>2. Prefix(n) = messages
    BY <1>1, SubSeqFull DEF Prefix
  <1>3. answer' = [of |-> messages, hash |-> messages]
    BY <1>2 DEF MemosFresh
  <1>4. answer' \in [of : Seq(Message), hash : Seq(Message)] /\ answer'.hash = answer'.of
    BY <1>1, <1>3
  <1>5. TypeOK'
    BY <1>4 DEF TypeOK
  <1>6. MemosFresh'
    BY DEF MemosFresh, Prefix
  <1> QED
    BY <1>4, <1>5, <1>6 DEF AnswersRight

LEMMA FootprintStep ==
  ASSUME Inv, GetWireFootprint
  PROVE  Inv'
  BY DEF Inv, GetWireFootprint, TypeOK, MemosFresh, AnswersRight, Prefix

LEMMA Inductive == Inv /\ [Next]_vars => Inv'
  <1> SUFFICES ASSUME Inv, [Next]_vars PROVE Inv'
    OBVIOUS
  <1>1. CASE \E m \in Message : AppendMessage(m)
    BY <1>1, AppendStep
  <1>2. CASE \E n \in 0 .. MaxLen : TruncateTo(n)
    BY <1>2, TruncateStep
  <1>3. CASE Reset
    <2>1. <<>> \in Seq(Message)
      BY EmptySeq
    <2> QED
      BY <1>3, <2>1, RefillStep DEF Reset
  <1>4. CASE \E n \in 0 .. MaxLen : \E l \in [1 .. n -> Message] : LoadFromSnapshot(l)
    <2>1. PICK n \in 0 .. MaxLen : \E l \in [1 .. n -> Message] : LoadFromSnapshot(l)
      BY <1>4
    <2>2. PICK l \in [1 .. n -> Message] : LoadFromSnapshot(l)
      BY <2>1
    <2>3. l \in Seq(Message)
      BY MaxLenAssumption
    <2> QED
      BY <2>2, <2>3, RefillStep DEF LoadFromSnapshot
  <1>5. CASE ComputeHash
    BY <1>5, HashStep
  <1>6. CASE GetWireFootprint
    BY <1>6, FootprintStep
  <1>7. CASE \E n \in 1 .. MaxLen : ComputeHashUpTo(n)
    BY <1>7, HashUpToStep
  <1>8. CASE \E n \in 1 .. MaxLen : AnswerKnownHash(n)
    BY <1>8, KnownHashStep
  <1>9. CASE UNCHANGED vars
    BY <1>9 DEF vars, Inv, TypeOK, MemosFresh, AnswersRight, Prefix
  <1> QED
    BY <1>1, <1>2, <1>3, <1>4, <1>5, <1>6, <1>7, <1>8, <1>9 DEF Next, Edit, Ask

-----------------------------------------------------------------------------
(* The invariant of the log holds in every state.                          *)
THEOREM Invariance == Spec => []Inv
  BY Initially, Inductive, PTL DEF Spec

(* The tables and memos of the log keep their types and stay in step with  *)
(* its messages: no hash is ever missing.                                  *)
THEOREM TablesInStep == Spec => []TypeOK
  <1>1. Inv => TypeOK
    BY DEF Inv
  <1> QED
    BY <1>1, Invariance, PTL

(* No memo of the log is ever stale.                                       *)
THEOREM MemosFreshHolds == Spec => []MemosFresh
  <1>1. Inv => MemosFresh
    BY DEF Inv
  <1> QED
    BY <1>1, Invariance, PTL

(* Every hash the log hands out is the hash of the prefix asked for.       *)
THEOREM AnswersRightHolds == Spec => []AnswersRight
  <1>1. Inv => AnswersRight
    BY DEF Inv
  <1> QED
    BY <1>1, Invariance, PTL
=============================================================================
