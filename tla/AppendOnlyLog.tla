----------------------------- MODULE AppendOnlyLog -----------------------------
(***************************************************************************)
(* The message log both threads keep (core/src/cache/AppendOnlyLog.ts) and *)
(* the three memos behind its answers: the hash of the whole log, the      *)
(* longest prefix hashed so far, and the wire footprint.  The log is not   *)
(* only appended to: a failed turn's tail is popped, a rejected image is   *)
(* popped, a compaction resets it.  LogSync compares prefixes of two logs; *)
(* this module is why comparing their hashes is the same.                  *)
(*                                                                         *)
(* Abstracted: a hash has no collisions, so a message's hash is the        *)
(* message and the cascading hash of a prefix, sha256(hash + next), is the *)
(* sequence of its messages, '' being the empty one; a measured footprint  *)
(* is the sequence of messages it measures.  A message that does not       *)
(* validate is refused before anything changes; a snapshot that does not   *)
(* is refused by the owner of the log, who drops it.                       *)
(***************************************************************************)
EXTENDS Integers, Sequences

CONSTANTS
  Message,  \* the messages that validate
  MaxLen    \* bound of the model: the longest log

ASSUME MaxLenAssumption == MaxLen \in Nat

VARIABLES
  messages,
  hashes,           \* message index (from 0) to the message's hash
  wireMetas,
  footprint,        \* cachedWireFootprint: {} for null, else the measured log
  lastComputedHash,
  prefixChainLen,
  prefixChainHash,
  answer            \* history: the last prefix asked for and the hash returned

vars == <<messages, hashes, wireMetas, footprint, lastComputedHash, prefixChainLen,
          prefixChainHash, answer>>

Prefix(n) == SubSeq(messages, 1, n)

(* The loop that extends a hash over the messages first .. last - 1.       *)
Cascade(hash, first, last) == hash \o [k \in 1 .. last - first |-> hashes[first + k - 1]]
Hashed(first, last) == first .. last - 1 \subseteq DOMAIN hashes

Init ==
  /\ messages = <<>> /\ hashes = <<>> /\ wireMetas = <<>>
  /\ footprint = {} /\ lastComputedHash = <<>>
  /\ prefixChainLen = 0 /\ prefixChainHash = <<>>
  /\ answer = [of |-> <<>>, hash |-> <<>>]

-----------------------------------------------------------------------------
Store(m) ==
  /\ messages' = Append(messages, m)
  /\ hashes' = [i \in DOMAIN hashes \cup {Len(messages)} |-> IF i = Len(messages) THEN m ELSE hashes[i]]
  /\ wireMetas' = Append(wireMetas, m)

(* append().                                                               *)
AppendMessage(m) ==
  /\ Len(messages) < MaxLen
  /\ Store(m)
  /\ footprint' = {} /\ lastComputedHash' = <<>>
  /\ UNCHANGED <<prefixChainLen, prefixChainHash, answer>>

(* What is left after popLastMessage() until the log has n messages.       *)
Drop(n) ==
  /\ messages' = Prefix(n)
  /\ hashes' = [i \in {j \in DOMAIN hashes : j < n} |-> hashes[i]]
  /\ wireMetas' = SubSeq(wireMetas, 1, n)
  /\ footprint' = {} /\ lastComputedHash' = <<>>

(* Broken variant: the hashed prefix outlives its messages.                *)
TruncateKeepsChain(n) ==
  /\ n < Len(messages)
  /\ Drop(n)
  /\ UNCHANGED <<prefixChainLen, prefixChainHash, answer>>

(* truncateTo(n), and popLastMessage() when n is one less than the length. *)
TruncateTo(n) ==
  /\ n < Len(messages)
  /\ Drop(n)
  /\ prefixChainLen' = IF prefixChainLen > n THEN 0 ELSE prefixChainLen
  /\ prefixChainHash' = IF prefixChainLen > n THEN <<>> ELSE prefixChainHash
  /\ UNCHANGED answer

Refill(l) ==
  /\ messages' = l /\ wireMetas' = l
  /\ hashes' = [i \in 0 .. Len(l) - 1 |-> l[i + 1]]
  /\ footprint' = {} /\ lastComputedHash' = <<>>
  /\ prefixChainLen' = 0 /\ prefixChainHash' = <<>>
  /\ UNCHANGED answer

(* reset().                                                                *)
Reset == Refill(<<>>)

(* loadFromSnapshot().                                                     *)
LoadFromSnapshot(l) ==
  /\ messages = <<>>
  /\ Refill(l)

-----------------------------------------------------------------------------
(* computeHash().                                                          *)
ComputeHash ==
  /\ \/ /\ lastComputedHash # <<>>
        /\ answer' = [of |-> messages, hash |-> lastComputedHash]
        /\ UNCHANGED lastComputedHash
     \/ /\ lastComputedHash = <<>>
        /\ Hashed(0, Len(messages))
        /\ lastComputedHash' = Cascade(<<>>, 0, Len(messages))
        /\ answer' = [of |-> messages, hash |-> lastComputedHash']
  /\ UNCHANGED <<messages, hashes, wireMetas, footprint, prefixChainLen, prefixChainHash>>

(* Where computeHashUpTo(n) starts from.                                   *)
Base(n) == IF prefixChainLen <= n THEN prefixChainLen ELSE 0
HashUpTo(n) ==
  Cascade(IF prefixChainLen <= n THEN prefixChainHash ELSE <<>>, Base(n), n)

(* computeHashUpTo(n), n > 0, past its first early return.                 *)
ComputeHashUpTo(n) ==
  /\ n <= Len(messages) /\ ~(n = Len(messages) /\ lastComputedHash # <<>>)
  /\ Hashed(Base(n), n)
  /\ prefixChainLen' = IF n >= prefixChainLen THEN n ELSE prefixChainLen
  /\ prefixChainHash' = IF n >= prefixChainLen THEN HashUpTo(n) ELSE prefixChainHash
  /\ lastComputedHash' = IF n = Len(messages) THEN HashUpTo(n) ELSE lastComputedHash
  /\ answer' = [of |-> Prefix(n), hash |-> HashUpTo(n)]
  /\ UNCHANGED <<messages, hashes, wireMetas, footprint>>

(* Broken variant: the hash of the whole log answers for any prefix.       *)
AnswerKnownHashAnyLength(n) ==
  /\ n <= Len(messages) /\ lastComputedHash # <<>>
  /\ answer' = [of |-> Prefix(n), hash |-> lastComputedHash]
  /\ UNCHANGED <<messages, hashes, wireMetas, footprint, lastComputedHash, prefixChainLen,
                 prefixChainHash>>

(* computeHashUpTo(n) of the whole log, whose hash is known.               *)
AnswerKnownHash(n) ==
  /\ n = Len(messages) /\ lastComputedHash # <<>>
  /\ answer' = [of |-> Prefix(n), hash |-> lastComputedHash]
  /\ UNCHANGED <<messages, hashes, wireMetas, footprint, lastComputedHash, prefixChainLen,
                 prefixChainHash>>

(* getWireFootprint().                                                     *)
GetWireFootprint ==
  /\ footprint' = IF footprint = {} THEN {wireMetas} ELSE footprint
  /\ UNCHANGED <<messages, hashes, wireMetas, lastComputedHash, prefixChainLen, prefixChainHash,
                 answer>>

-----------------------------------------------------------------------------
Edit == \/ \E m \in Message : AppendMessage(m)
        \/ \E n \in 0 .. MaxLen : TruncateTo(n)
        \/ Reset
        \/ \E n \in 0 .. MaxLen : \E l \in [1 .. n -> Message] : LoadFromSnapshot(l)
Ask == \/ ComputeHash \/ GetWireFootprint
       \/ \E n \in 1 .. MaxLen : ComputeHashUpTo(n) \/ AnswerKnownHash(n)

Next == Edit \/ Ask

Spec == Init /\ [][Next]_vars

-----------------------------------------------------------------------------
(* Every variable keeps its type, and the per-message tables have exactly  *)
(* the entries of the messages: "Missing hash for message" is never        *)
(* thrown, and getWireFootprint never has to rebuild.                      *)
TypeOK ==
  /\ messages \in Seq(Message)
  /\ DOMAIN hashes = 0 .. Len(messages) - 1
  /\ \A i \in DOMAIN hashes : hashes[i] = messages[i + 1]
  /\ wireMetas = messages
  /\ lastComputedHash \in Seq(Message)
  /\ prefixChainLen \in Nat
  /\ prefixChainHash \in Seq(Message)
  /\ answer \in [of : Seq(Message), hash : Seq(Message)]

(* The memos are never stale: what is cached describes the messages the    *)
(* log has now, after any history of appends, truncations and resets       *)
(* ("Never stale", AppendOnlyLog.ts:37-40).                                *)
MemosFresh ==
  /\ lastComputedHash \in {<<>>, messages}
  /\ prefixChainLen <= Len(messages)
  /\ prefixChainHash = Prefix(prefixChainLen)
  /\ footprint \subseteq {messages}

(* Every hash handed out is the hash of the prefix that was asked for,     *)
(* whichever memo it came from: equal hashes of two logs mean equal        *)
(* prefixes, which is what handleChat's reconciliation relies on.          *)
AnswersRight == answer.hash = answer.of
=============================================================================
