-------------------------- MODULE OnftBridgeProofs --------------------------
(***************************************************************************)
(* Theorems about OnftBridge, for any chains, accounts, tokens and batch   *)
(* limit, and any bound on the nonces: types, that no token is in two      *)
(* places, what the escrow backs, what waits, what is lost, and that the   *)
(* bridge implements OmniToken.  All but the types is about the tokens in  *)
(* Sound: those of no message that an endpoint's queue has copied.         *)
(***************************************************************************)
EXTENDS OnftBridge, SequenceTheorems, TLAPS

OwnerType == [Chain -> [Token -> Holder]]

-----------------------------------------------------------------------------
(***************************************************************************)
(* Lemmas about payloads, the ledger operators and what Enqueue does.      *)
(***************************************************************************)

\* A payload names a recipient and holds tokens at positive positions.
LEMMA PayloadType ==
  ASSUME NEW p \in Payload
  PROVE  /\ p.to \in Holder
         /\ DOMAIN p.ids \subseteq Nat \ {0}
         /\ \A j \in DOMAIN p.ids : p.ids[j] \in Token
<1>1. p \in [to : User \cup {Bridge, NoOne}, ids : Batch]
  BY BatchAssumption
<1>2. PICK n \in {1} \cup (1 .. BatchLimit) : p.ids \in [1 .. n -> Token]
  BY <1>1 DEF Batch
<1> QED
  BY <1>1, <1>2, BatchAssumption DEF Holder

\* Give changes the holders of some tokens on one chain.
LEMMA GiveType ==
  ASSUME NEW o \in OwnerType, NEW c \in Chain, NEW ts, NEW u \in Holder
  PROVE  Give(o, c, ts, u) \in OwnerType
BY DEF Give, OwnerType

\* What Give gives, and what it leaves alone.
LEMMA GiveEffect ==
  ASSUME NEW o \in OwnerType, NEW c \in Chain, NEW ts, NEW u \in Holder,
         NEW t \in Token, NEW d \in Chain
  PROVE  Give(o, c, ts, u)[d][t] = IF d = c /\ t \in ts THEN u ELSE o[d][t]
BY DEF Give, OwnerType

\* A path has two ends, both chains, and they differ.
LEMMA PathEnds ==
  ASSUME NEW q \in Path
  PROVE  q[1] \in Chain /\ q[2] \in Chain /\ q[1] # q[2]
BY DEF Path

\* The approvals stay approvals when tokens move.
LEMMA ApprovalType ==
  ASSUME TypeOK, TransferClearsApproval
  PROVE  approved' \in [Chain -> [Token -> Holder]]
BY DEF TypeOK, TransferClearsApproval, Holder

\* A sequence with one more element.
LEMMA AppendIs ==
  ASSUME NEW S, NEW s \in Seq(S), NEW x \in S
  PROVE  /\ Append(s, x) \in Seq(S)
         /\ DOMAIN Append(s, x) = DOMAIN s \cup {Len(s) + 1}
         /\ \A i \in DOMAIN s : Append(s, x)[i] = s[i]
         /\ Append(s, x)[Len(s) + 1] = x
         /\ DOMAIN s = 1 .. Len(s) /\ Len(s) \in Nat
OBVIOUS

\* A sequence whose last element took the place of all.
LEMMA LastRepeated ==
  ASSUME NEW S, NEW s \in Seq(S)
  PROVE  LET z == [i \in DOMAIN s |-> s[Len(s)]]
         IN  /\ z \in Seq(S)
             /\ DOMAIN z = DOMAIN s
             /\ Len(z) = Len(s)
             /\ \A i \in DOMAIN s : z[i] = s[Len(s)]
<1> DEFINE z == [i \in DOMAIN s |-> s[Len(s)]]
<1>1. DOMAIN s = 1 .. Len(s) /\ Len(s) \in Nat
  OBVIOUS
<1>2. \A i \in DOMAIN s : s[Len(s)] \in S
  BY <1>1
<1>3. z \in [1 .. Len(s) -> S]
  BY <1>1, <1>2
<1>4. z \in Seq(S)
  BY <1>1, <1>3, SeqDef
<1>5. DOMAIN z = DOMAIN s /\ \A i \in DOMAIN s : z[i] = s[Len(s)]
  OBVIOUS
<1>6. Len(z) = Len(s)
  <2> HIDE DEF z
  <2> QED
    BY <1>1, <1>4, <1>5
<1> QED
  BY <1>4, <1>5, <1>6

\* What Enqueue makes of a queue: the last element in the place of all, and
\* the new one behind.
LEMMA EnqueueIs ==
  ASSUME NEW S, NEW s \in Seq(S), NEW m \in S
  PROVE  /\ Enqueue(s, m) \in Seq(S)
         /\ DOMAIN s = 1 .. Len(s) /\ Len(s) \in Nat
         /\ DOMAIN Enqueue(s, m) = DOMAIN s \cup {Len(s) + 1}
         /\ Len(Enqueue(s, m)) = Len(s) + 1
<1> DEFINE z == [i \in DOMAIN s |-> s[Len(s)]]
<1>1. z \in Seq(S) /\ Len(z) = Len(s)
  BY LastRepeated
<1>2. Enqueue(s, m) = Append(z, m)
  BY DEF Enqueue
<1> HIDE DEF z
<1> QED
  BY <1>1, <1>2, AppendIs

LEMMA EnqueuedAre ==
  ASSUME NEW S, NEW s \in Seq(S), NEW m \in S
  PROVE  \A i \in DOMAIN s : Enqueue(s, m)[i] = s[Len(s)]
<1> DEFINE z == [i \in DOMAIN s |-> s[Len(s)]]
<1>1. z \in Seq(S) /\ DOMAIN z = DOMAIN s /\ \A i \in DOMAIN s : z[i] = s[Len(s)]
  BY LastRepeated
<1>2. Enqueue(s, m) = Append(z, m)
  BY DEF Enqueue
<1> HIDE DEF z
<1> QED
  BY <1>1, <1>2, AppendIs

LEMMA NewestIsLast ==
  ASSUME NEW S, NEW s \in Seq(S), NEW m \in S
  PROVE  Enqueue(s, m)[Len(s) + 1] = m
<1> DEFINE z == [i \in DOMAIN s |-> s[Len(s)]]
<1>1. z \in Seq(S) /\ Len(z) = Len(s)
  BY LastRepeated
<1>2. Enqueue(s, m) = Append(z, m)
  BY DEF Enqueue
<1> HIDE DEF z
<1> QED
  BY <1>1, <1>2, AppendIs

-----------------------------------------------------------------------------
(***************************************************************************)
(* Type correctness.                                                       *)
(***************************************************************************)
\* The receiving application keeps the types of what it writes.
LEMMA NonblockingType ==
  ASSUME TypeOK, NEW o \in OwnerType, NEW d \in Chain, NEW p \in Payload,
         NonblockingLzReceive(o, d, p)
  PROVE  owner' \in OwnerType /\ credits' \subseteq StoredCredit
<1>1. PICK k \in {0} \cup DOMAIN p.ids :
        /\ owner' = CreditedTill(o, d, p, 0, k)
        /\ credits' = IF Unfinished(p, k) THEN StoreCredit(d, p, k) ELSE credits
  BY DEF NonblockingLzReceive
<1>2. k \in Nat
  BY <1>1, PayloadType
<1>3. owner' \in OwnerType
  BY <1>1, PayloadType, GiveType DEF CreditedTill
<1>4. [at |-> d, payload |-> p, index |-> k] \in StoredCredit
  BY <1>2 DEF StoredCredit
<1> QED
  BY <1>1, <1>3, <1>4 DEF StoreCredit, TypeOK

LEMMA LzReceiveType ==
  ASSUME TypeOK, NEW o \in OwnerType, NEW q \in Path, NEW n \in Nat,
         NEW p \in Payload, LzReceive(o, q, n, p)
  PROVE  /\ owner' \in OwnerType
         /\ credits' \subseteq StoredCredit
         /\ failed' \subseteq FailedMessage
<1>1. CASE NonblockingLzReceive(o, q[2], p) /\ UNCHANGED failed
  BY <1>1, NonblockingType, PathEnds DEF TypeOK
<1>2. CASE /\ owner' = o
           /\ failed' = StoreFailedMessage(q, n, p)
           /\ UNCHANGED credits
  <2>1. [path |-> q, nonce |-> n, payload |-> p] \in FailedMessage
    BY DEF FailedMessage
  <2> QED
    BY <1>2, <2>1 DEF StoreFailedMessage, TypeOK
<1> QED
  BY <1>1, <1>2 DEF LzReceive, BlockingLzReceive

\* So do the endpoints when they receive a message.
LEMMA ReceiveType ==
  ASSUME EndpointTypeOK, NEW q \in Path, NEW p \in Payload,
         \/ ReceiveQueued(q, p)
         \/ ReceiveBlocked(q, p)
         \/ ReceiveReverted(q, p)
         \/ ReceiveDelivered(q)
  PROVE  EndpointTypeOK'
<1>1. TakeNonce(q) /\ (nextMsgBlocked' = nextMsgBlocked
                        \/ nextMsgBlocked' = nextMsgBlocked \ {q[2]})
  BY DEF ReceiveQueued, ReceiveBlocked, ReceiveReverted, ReceiveDelivered,
         StorePayload
<1>2. /\ outboundNonce' \in [Path -> Nat]
      /\ inboundNonce' \in [Path -> Nat]
      /\ resuming' \in Path \cup {NoPath}
  BY <1>1 DEF EndpointTypeOK, TakeNonce
<1>3. nextMsgBlocked' \in SUBSET Chain
  BY <1>1 DEF EndpointTypeOK
<1>4. storedPayload' \in [Path -> Payload \cup {NoPayload}]
  BY DEF EndpointTypeOK, ReceiveQueued, ReceiveBlocked, ReceiveReverted,
         ReceiveDelivered, StorePayload
<1>5. msgsToDeliver' \in [Path -> Seq(QueuedPayload)]
  <2>1. CASE ReceiveQueued(q, p)
    <3>1. Entry(q, p) \in QueuedPayload
      BY DEF Entry, NextNonce, QueuedPayload, EndpointTypeOK
    <3>2. Enqueue(msgsToDeliver[q], Entry(q, p)) \in Seq(QueuedPayload)
      BY <3>1, EnqueueIs DEF EndpointTypeOK
    <3> QED
      BY <2>1, <3>2 DEF ReceiveQueued, EndpointTypeOK
  <2>2. CASE UNCHANGED msgsToDeliver
    BY <2>2 DEF EndpointTypeOK
  <2> QED
    BY <2>1, <2>2 DEF ReceiveBlocked, ReceiveReverted, ReceiveDelivered, StorePayload
<1> QED
  BY <1>2, <1>3, <1>4, <1>5 DEF EndpointTypeOK

\* What is copied in a queue are tokens of a message.
LEMMA CopiedType ==
  ASSUME TypeOK, NEW q \in Path, NoteCopied(q)
  PROVE  copied' \subseteq Token
<1> DEFINE s == msgsToDeliver[q]
<1>1. s \in Seq(QueuedPayload) /\ copied \subseteq Token
  BY DEF TypeOK, EndpointTypeOK
<1>2. copied' = copied \cup IF Len(s) < 2 THEN {} ELSE Tokens(s[Len(s)].payload)
  BY DEF NoteCopied
<1>3. CASE Len(s) < 2
  BY <1>1, <1>2, <1>3
<1>4. CASE ~(Len(s) < 2)
  <2>1. s[Len(s)] \in QueuedPayload
    BY <1>1, <1>4
  <2>2. s[Len(s)].payload \in Payload
    BY <2>1 DEF QueuedPayload
  <2>3. Tokens(s[Len(s)].payload) \subseteq Token
    BY <2>2, PayloadType DEF Tokens
  <2> QED
    BY <1>1, <1>2, <1>4, <2>3
<1> QED
  BY <1>3, <1>4

LEMMA SendType ==
  ASSUME TypeOK, NEW q \in Path, NEW by \in User, NEW p \in Payload, Send(q, by, p)
  PROVE  TypeOK'
<1>1. EndpointTypeOK'
  BY ReceiveType DEF Send, TypeOK
<1>2. Debited(q[1], p) \in OwnerType
  BY GiveType, PathEnds DEF Debited, TypeOK, OwnerType, Holder
<1>3. /\ owner' \in OwnerType
      /\ credits' \subseteq StoredCredit
      /\ failed' \subseteq FailedMessage
  <2>1. CASE owner' = Debited(q[1], p) /\ UNCHANGED <<credits, failed>>
    BY <2>1, <1>2 DEF TypeOK
  <2>2. CASE LzReceive(Debited(q[1], p), q, NextNonce(q), p)
    <3>1. NextNonce(q) \in Nat
      BY DEF NextNonce, TypeOK, EndpointTypeOK
    <3> QED
      BY <2>2, <3>1, <1>2, LzReceiveType
  <2> QED
    BY <2>1, <2>2 DEF Send
<1>4. approved' \in [Chain -> [Token -> Holder]] /\ trusted' = trusted
  BY ApprovalType DEF Send
<1>5. copied' \subseteq Token
  <2>1. NoteCopied(q) \/ UNCHANGED copied
    BY DEF Send
  <2> QED
    BY <2>1, CopiedType DEF TypeOK
<1> QED
  BY <1>1, <1>3, <1>4, <1>5 DEF TypeOK, OwnerType

LEMMA RetryStoredType ==
  ASSUME TypeOK, NEW q \in Path, RetryStored(q)
  PROVE  TypeOK'
<1>1. EndpointTypeOK'
  BY DEF RetryStored, RetryPayload, EmptyStored, TypeOK, EndpointTypeOK
<1>2. storedPayload[q] \in Payload /\ RetryNonce(q) \in Nat /\ owner \in OwnerType
  BY DEF RetryStored, RetryPayload, RetryNonce, TypeOK, EndpointTypeOK, OwnerType
<1>3. /\ owner' \in OwnerType
      /\ credits' \subseteq StoredCredit
      /\ failed' \subseteq FailedMessage
  BY <1>2, LzReceiveType DEF RetryStored
<1>4. approved' \in [Chain -> [Token -> Holder]] /\ UNCHANGED <<trusted, copied>>
  BY ApprovalType DEF RetryStored
<1> QED
  BY <1>1, <1>3, <1>4 DEF TypeOK, OwnerType

\* The head of a queue is a message, and the rest of it is a queue.
LEMMA QueueHead ==
  ASSUME EndpointTypeOK, NEW q \in Path, msgsToDeliver[q] # <<>>
  PROVE  /\ Head(msgsToDeliver[q]) \in QueuedPayload
         /\ Tail(msgsToDeliver[q]) \in Seq(QueuedPayload)
<1>1. msgsToDeliver[q] \in Seq(QueuedPayload)
  BY DEF EndpointTypeOK
<1> QED
  BY <1>1

LEMMA DrainType ==
  ASSUME TypeOK, NEW q \in Path, Drain(q)
  PROVE  TypeOK'
<1>1. msgsToDeliver[q] # <<>> /\ EndpointTypeOK
  BY DEF Drain, DrainQueue, TypeOK
<1>2. EndpointTypeOK'
  BY <1>1, QueueHead DEF Drain, DrainQueue, EndpointTypeOK
<1> DEFINE m == Head(msgsToDeliver[q])
<1>3. m.payload \in Payload /\ m.nonce \in Nat /\ owner \in OwnerType
  BY <1>1, QueueHead DEF QueuedPayload, TypeOK, OwnerType
<1>4. LzReceive(owner, q, m.nonce, m.payload)
  BY DEF Drain
<1>5. /\ owner' \in OwnerType
      /\ credits' \subseteq StoredCredit
      /\ failed' \subseteq FailedMessage
  BY <1>3, <1>4, LzReceiveType
<1>6. approved' \in [Chain -> [Token -> Holder]] /\ UNCHANGED <<trusted, copied>>
  BY ApprovalType DEF Drain
<1> QED
  BY <1>2, <1>5, <1>6 DEF TypeOK, OwnerType

LEMMA RetryMessageType ==
  ASSUME TypeOK, NEW f \in failed, RetryMessage(f)
  PROVE  TypeOK'
<1>1. EndpointTypeOK' /\ UNCHANGED <<trusted, copied>>
  BY DEF RetryMessage, endpointVars, TypeOK, EndpointTypeOK
<1>2. f.path[2] \in Chain /\ f.payload \in Payload /\ owner \in OwnerType
  BY PathEnds DEF TypeOK, FailedMessage, OwnerType
<1>3. owner' \in OwnerType /\ credits' \subseteq StoredCredit
  BY <1>2, NonblockingType DEF RetryMessage
<1>4. failed' \subseteq FailedMessage
  BY DEF RetryMessage, WithoutFailed, TypeOK
<1>5. approved' \in [Chain -> [Token -> Holder]]
  BY ApprovalType DEF RetryMessage
<1> QED
  BY <1>1, <1>3, <1>4, <1>5 DEF TypeOK, OwnerType

LEMMA ClearCreditsType ==
  ASSUME TypeOK, NEW cr \in credits, NEW k \in DOMAIN cr.payload.ids,
         ClearCredits(cr, k)
  PROVE  TypeOK'
<1>1. EndpointTypeOK' /\ UNCHANGED <<trusted, failed, copied>>
  BY DEF ClearCredits, endpointVars, TypeOK, EndpointTypeOK
<1>2. cr.at \in Chain /\ cr.payload \in Payload /\ owner \in OwnerType
  BY DEF TypeOK, StoredCredit, OwnerType
<1>3. k \in Nat /\ cr.payload.to \in Holder
  BY <1>2, PayloadType
<1>4. owner' \in OwnerType
  BY <1>2, <1>3, GiveType DEF ClearCredits, CreditedTill
<1>5. credits' \subseteq StoredCredit
  <2>1. [at |-> cr.at, payload |-> cr.payload, index |-> k] \in StoredCredit
    BY <1>2, <1>3 DEF StoredCredit
  <2> QED
    BY <2>1 DEF ClearCredits, StoreCredit, WithoutCredit, TypeOK
<1>6. approved' \in [Chain -> [Token -> Holder]]
  BY ApprovalType DEF ClearCredits
<1> QED
  BY <1>1, <1>4, <1>5, <1>6 DEF TypeOK, OwnerType

LEMMA OtherType ==
  ASSUME TypeOK,
         \/ \E q \in Path : \/ ForceResume(q)
                           \/ SetTrustedRemote(q[1], q[2])
                           \/ UnsetTrustedRemote(q[1], q[2])
         \/ \E c \in Chain : BlockNext(c)
         \/ UNCHANGED vars
  PROVE  TypeOK'
<1>1. ASSUME NEW q \in Path, ForceResume(q) PROVE TypeOK'
  BY <1>1 DEF ForceResume, ForceResumeReceive, EmptyStored, appVars, TypeOK,
              EndpointTypeOK
<1>2. ASSUME NEW q \in Path,
             SetTrustedRemote(q[1], q[2]) \/ UnsetTrustedRemote(q[1], q[2])
      PROVE  TypeOK'
  <2>1. trusted' \in [Chain -> SUBSET Chain]
    <3>1. /\ trusted[q[1]] \cup {q[2]} \in SUBSET Chain
          /\ trusted[q[1]] \ {q[2]} \in SUBSET Chain
      BY PathEnds DEF TypeOK
    <3>2. CASE SetTrustedRemote(q[1], q[2])
      BY <3>1, <3>2 DEF SetTrustedRemote, TypeOK
    <3>3. CASE UnsetTrustedRemote(q[1], q[2])
      BY <3>1, <3>3 DEF UnsetTrustedRemote, TypeOK
    <3> QED
      BY <1>2, <3>2, <3>3
  <2> QED
    BY <1>2, <2>1 DEF SetTrustedRemote, UnsetTrustedRemote, endpointVars, TypeOK,
                      EndpointTypeOK
<1>3. ASSUME NEW c \in Chain, BlockNext(c) PROVE TypeOK'
  <2>1. nextMsgBlocked' \in SUBSET Chain
    BY <1>3 DEF BlockNext, BlockNextMsg, TypeOK, EndpointTypeOK
  <2>2. EndpointTypeOK'
    BY <1>3, <2>1 DEF BlockNext, BlockNextMsg, TypeOK, EndpointTypeOK
  <2> QED
    BY <1>3, <2>2 DEF BlockNext, appVars, TypeOK
<1>4. CASE UNCHANGED vars
  BY <1>4 DEF vars, endpointVars, appVars, TypeOK, EndpointTypeOK
<1> QED
  BY <1>1, <1>2, <1>3, <1>4

LEMMA TokenType ==
  ASSUME TypeOK, NEW c \in Chain, NEW t \in Token, TokenNext(c, t)
  PROVE  TypeOK'
<1>1. ASSUME NEW to \in Holder, TransferFrom(c, t, to) PROVE TypeOK'
  <2>1. owner' \in OwnerType
    BY <1>1, GiveType DEF TransferFrom, TypeOK, OwnerType
  <2>2. approved' \in [Chain -> [Token -> Holder]]
    BY <1>1, ApprovalType DEF TransferFrom
  <2> QED
    BY <1>1, <2>1, <2>2 DEF TransferFrom, endpointVars, TypeOK, EndpointTypeOK,
                            OwnerType
<1>2. ASSUME NEW u \in Holder, Approve(c, t, u) PROVE TypeOK'
  BY <1>2 DEF Approve, endpointVars, TypeOK, EndpointTypeOK
<1> QED
  BY <1>1, <1>2 DEF TokenNext

\* The types hold when the contracts have been deployed.
LEMMA InitType == Init => TypeOK
<1> SUFFICES ASSUME Init PROVE TypeOK
  OBVIOUS
<1>1. EndpointTypeOK
  BY DEF Init, EndpointInit, EndpointTypeOK
<1>2. owner \in [Chain -> [Token -> Holder]]
  BY DEF Init, Holder
<1> QED
  BY <1>1, <1>2 DEF Init, TypeOK, Holder

\* Every step of the bridge keeps the types.
LEMMA TypeStep ==
  ASSUME TypeOK, [Next]_vars
  PROVE  TypeOK'
<1>1. ASSUME NEW q \in Path, PathNext(q) PROVE TypeOK'
  BY <1>1, SendType, RetryStoredType, DrainType, OtherType DEF PathNext
<1>2. ASSUME NEW c \in Chain, NEW t \in Token, TokenNext(c, t) PROVE TypeOK'
  BY <1>2, TokenType
<1>3. ASSUME NEW f \in failed, RetryMessage(f) PROVE TypeOK'
  BY <1>3, RetryMessageType
<1>4. ASSUME NEW cr \in credits, NEW k \in DOMAIN cr.payload.ids, ClearCredits(cr, k)
      PROVE  TypeOK'
  BY <1>4, ClearCreditsType
<1>5. ASSUME NEW c \in Chain, BlockNext(c) PROVE TypeOK'
  BY <1>5, OtherType
<1>6. CASE UNCHANGED vars
  BY <1>6, OtherType
<1> QED
  BY <1>1, <1>2, <1>3, <1>4, <1>5, <1>6 DEF Next

(***************************************************************************)
(* The variables keep their types in every behaviour of the bridge.        *)
(***************************************************************************)
THEOREM TypeCorrect == Spec => []TypeOK
<1>1. Init => TypeOK
  BY InitType
<1>2. TypeOK /\ [Next]_vars => TypeOK'
  BY TypeStep
<1> QED
  BY <1>1, <1>2, PTL DEF Spec

-----------------------------------------------------------------------------
(***************************************************************************)
(* Theorem NeverDuplicated: no token is ever in two places, but for those  *)
(* of a message that a queue has copied.                                   *)
(*                                                                         *)
(* NoDuplication counts claims.  The proof works with the claims spelled   *)
(* out by kind, OnePlace, which also says that two records of failed or of *)
(* credits that carry the same token are the same record.  To step it, one *)
(* more fact is needed: a message that is under way repeats no id, because *)
(* a repeated id could be credited and left in the remainder at once.      *)
(***************************************************************************)
AnyHeld(t)    == \E c \in Chain : owner[c][t] \in User
AnyStored(t)  == \E q \in Path : StoredOn(q, t)
InQueue(q, i, t) == /\ i \in DOMAIN msgsToDeliver[q]
                    /\ t \in Tokens(msgsToDeliver[q][i].payload)
AnyQueued(t)  == \E q \in Path : \E i : InQueue(q, i, t)
AnyFailed(t)  == \E f \in failed : t \in Tokens(f.payload)
AnyPending(t) == \E cr \in credits : t \in Remaining(cr)

\* At most one place among those the receiving application writes.
OnePlaceAtApps(t) ==
  /\ \A c, d \in Chain : owner[c][t] \in User /\ owner[d][t] \in User => c = d
  /\ \A f, g \in failed :
       t \in Tokens(f.payload) /\ t \in Tokens(g.payload) => f = g
  /\ \A cr, dr \in credits : t \in Remaining(cr) /\ t \in Remaining(dr) => cr = dr
  /\ ~(AnyHeld(t) /\ AnyFailed(t))
  /\ ~(AnyHeld(t) /\ AnyPending(t))
  /\ ~(AnyFailed(t) /\ AnyPending(t))

\* At most one place among those the endpoints write.
OnePlaceAtEndpoints(t) ==
  /\ \A q, r \in Path : StoredOn(q, t) /\ StoredOn(r, t) => q = r
  /\ \A q, r \in Path : \A i, j :
       InQueue(q, i, t) /\ InQueue(r, j, t) => q = r /\ i = j
  /\ ~(AnyStored(t) /\ AnyQueued(t))

AtApps(t)      == AnyHeld(t) \/ AnyFailed(t) \/ AnyPending(t)
AtEndpoints(t) == AnyStored(t) \/ AnyQueued(t)

OnePlace(t) == /\ OnePlaceAtApps(t)
               /\ OnePlaceAtEndpoints(t)
               /\ ~(AtApps(t) /\ AtEndpoints(t))

UnderWayNoRepeat ==
  /\ \A q \in Path : storedPayload[q] # NoPayload => NoRepeat(storedPayload[q])
  /\ \A q \in Path : \A i \in DOMAIN msgsToDeliver[q] :
       NoRepeat(msgsToDeliver[q][i].payload)
  /\ \A f \in failed : NoRepeat(f.payload)
  /\ \A cr \in credits : NoRepeat(cr.payload)

IInv == /\ TypeOK
        /\ UnderWayNoRepeat
        /\ \A t \in Sound : OnePlace(t)

-----------------------------------------------------------------------------
\* OnePlace is at least as strong as the property it is proved for.
LEMMA OnePlaceIsEnough == (\A t \in Sound : OnePlace(t)) => NoDuplication
<1> SUFFICES ASSUME \A t \in Sound : OnePlace(t),
                    NEW t \in Sound, NEW x \in Claims(t), NEW y \in Claims(t)
             PROVE  x = y
  BY DEF NoDuplication
<1>1. OnePlace(t)
  OBVIOUS
<1> DEFINE
  H(z) == \E c \in Chain : owner[c][t] \in User /\ z = <<"held", c, 0>>
  S(z) == \E q \in Path : StoredOn(q, t) /\ z = <<"stored", q, 0>>
  Q(z) == \E q \in Path : \E i : InQueue(q, i, t) /\ z = <<"queued", q, i>>
  F(z) == \E f \in failed : t \in Tokens(f.payload) /\ z = <<"failed", f.path, f.nonce>>
  P(z) == \E cr \in credits : t \in Remaining(cr) /\ z = <<"credit", cr.at, cr.payload>>
<1>2. ASSUME NEW z \in Claims(t) PROVE H(z) \/ S(z) \/ Q(z) \/ F(z) \/ P(z)
  <2>1. CASE z \in Held(t)
    BY <2>1 DEF Held
  <2>2. CASE z \in Stored(t)
    BY <2>2 DEF Stored
  <2>3. CASE z \in Queued(t)
    <3>1. Q(z)
      BY <2>3 DEF Queued, InQueue
    <3> QED
      BY <3>1
  <2>4. CASE z \in Failed(t)
    BY <2>4 DEF Failed
  <2>5. CASE z \in Pending(t)
    BY <2>5 DEF Pending
  <2> QED
    BY <2>1, <2>2, <2>3, <2>4, <2>5 DEF Claims, InTransit
<1>3. (H(x) \/ S(x) \/ Q(x) \/ F(x) \/ P(x)) /\ (H(y) \/ S(y) \/ Q(y) \/ F(y) \/ P(y))
  BY <1>2
<1>4. /\ H(x) => AnyHeld(t)
      /\ H(y) => AnyHeld(t)
      /\ S(x) => AnyStored(t)
      /\ S(y) => AnyStored(t)
      /\ Q(x) => AnyQueued(t)
      /\ Q(y) => AnyQueued(t)
      /\ F(x) => AnyFailed(t)
      /\ F(y) => AnyFailed(t)
      /\ P(x) => AnyPending(t)
      /\ P(y) => AnyPending(t)
  BY DEF AnyHeld, AnyStored, AnyQueued, AnyFailed, AnyPending
<1>5. (H(x) /\ H(y)) \/ (S(x) /\ S(y)) \/ (Q(x) /\ Q(y)) \/ (F(x) /\ F(y))
        \/ (P(x) /\ P(y))
  <2> HIDE DEF H, S, Q, F, P
  <2> QED
    BY <1>1, <1>3, <1>4 DEF OnePlace, OnePlaceAtApps, OnePlaceAtEndpoints, AtApps,
                            AtEndpoints
<1>6. CASE H(x) /\ H(y)
  BY <1>1, <1>6 DEF OnePlace, OnePlaceAtApps
<1>7. CASE S(x) /\ S(y)
  BY <1>1, <1>7 DEF OnePlace, OnePlaceAtEndpoints
<1>8. CASE Q(x) /\ Q(y)
  BY <1>1, <1>8 DEF OnePlace, OnePlaceAtEndpoints
<1>9. CASE F(x) /\ F(y)
  BY <1>1, <1>9 DEF OnePlace, OnePlaceAtApps
<1>10. CASE P(x) /\ P(y)
  BY <1>1, <1>10 DEF OnePlace, OnePlaceAtApps
<1> QED
  BY <1>5, <1>6, <1>7, <1>8, <1>9, <1>10

-----------------------------------------------------------------------------
(***************************************************************************)
(* What the receiving application does to the places of one token.         *)
(***************************************************************************)

\* In a batch without repetition a credited token is not in the remainder.
LEMMA CreditedNotRemaining ==
  ASSUME NEW p \in Payload, NoRepeat(p), NEW i, NEW k \in Nat, NEW d,
         NEW t \in Slice(p, i, k)
  PROVE  t \notin Remaining([at |-> d, payload |-> p, index |-> k])
<1>1. PICK j \in DOMAIN p.ids : j <= k /\ p.ids[j] = t
  BY DEF Slice
<1>2. ASSUME NEW x \in DOMAIN p.ids, k < x, p.ids[x] = t PROVE FALSE
  <2>1. x = j
    BY <1>1, <1>2 DEF NoRepeat
  <2>2. x \in Nat
    BY PayloadType
  <2> QED
    BY <1>1, <1>2, <2>1, <2>2
<1> QED
  BY <1>2 DEF Remaining

\* What is credited, or left to credit, is among the payload's tokens.
LEMMA SliceOfTokens ==
  ASSUME NEW p, NEW i, NEW k, NEW d
  PROVE  /\ Slice(p, i, k) \subseteq Tokens(p)
         /\ Remaining([at |-> d, payload |-> p, index |-> k]) \subseteq Tokens(p)
BY DEF Slice, Remaining, Tokens

\* A token that the payload does not carry stays where it is.
LEMMA NonblockingElsewhere ==
  ASSUME NEW o \in OwnerType, NEW d \in Chain, NEW p \in Payload,
         NonblockingLzReceive(o, d, p), NEW t \in Token, t \notin Tokens(p)
  PROVE  /\ \A c \in Chain : owner'[c][t] = o[c][t]
         /\ \A cr \in credits' : t \in Remaining(cr) => cr \in credits
<1>1. PICK k \in {0} \cup DOMAIN p.ids :
        /\ owner' = CreditedTill(o, d, p, 0, k)
        /\ credits' = IF Unfinished(p, k) THEN StoreCredit(d, p, k) ELSE credits
  BY DEF NonblockingLzReceive
<1>2. \A c \in Chain : owner'[c][t] = o[c][t]
  <2>1. t \notin Slice(p, 0, k)
    BY SliceOfTokens
  <2> QED
    BY <1>1, <2>1, GiveEffect, PayloadType DEF CreditedTill
<1>3. t \notin Remaining([at |-> d, payload |-> p, index |-> k])
  BY SliceOfTokens
<1> QED
  BY <1>1, <1>2, <1>3 DEF StoreCredit

\* A token that the payload carries, and that is nowhere else among the
\* applications, ends in one account's hands or in one stored credit.
LEMMA NonblockingLanding ==
  ASSUME NEW o \in OwnerType, NEW d \in Chain, NEW p \in Payload, NoRepeat(p),
         NonblockingLzReceive(o, d, p), NEW t \in Token,
         \A c \in Chain : o[c][t] \notin User, ~AnyPending(t)
  PROVE  /\ \A c, e \in Chain : owner'[c][t] \in User /\ owner'[e][t] \in User => c = e
         /\ \A cr, dr \in credits' : t \in Remaining(cr) /\ t \in Remaining(dr) => cr = dr
         /\ ~(AnyHeld(t)' /\ AnyPending(t)')
<1>1. PICK k \in {0} \cup DOMAIN p.ids :
        /\ owner' = CreditedTill(o, d, p, 0, k)
        /\ credits' = IF Unfinished(p, k) THEN StoreCredit(d, p, k) ELSE credits
  BY DEF NonblockingLzReceive
<1> DEFINE new == [at |-> d, payload |-> p, index |-> k]
<1>2. \A c \in Chain :
        owner'[c][t] = IF c = d /\ t \in Slice(p, 0, k) THEN p.to ELSE o[c][t]
  BY <1>1, GiveEffect, PayloadType DEF CreditedTill
<1>3. \A cr \in credits' : t \in Remaining(cr) => cr = new
  BY <1>1 DEF StoreCredit, AnyPending
<1>4. t \in Slice(p, 0, k) => t \notin Remaining(new)
  <2>1. k \in Nat
    BY PayloadType
  <2> QED
    BY <2>1, CreditedNotRemaining
<1>5. ~(AnyHeld(t)' /\ AnyPending(t)')
  BY <1>2, <1>3, <1>4 DEF AnyHeld, AnyPending
<1> QED
  BY <1>2, <1>3, <1>5

LEMMA LzReceiveElsewhere ==
  ASSUME NEW o \in OwnerType, NEW q \in Path, NEW n, NEW p \in Payload,
         LzReceive(o, q, n, p), NEW t \in Token, t \notin Tokens(p)
  PROVE  /\ \A c \in Chain : owner'[c][t] = o[c][t]
         /\ \A cr \in credits' : t \in Remaining(cr) => cr \in credits
         /\ \A f \in failed' : t \in Tokens(f.payload) => f \in failed
<1>1. CASE NonblockingLzReceive(o, q[2], p) /\ UNCHANGED failed
  BY <1>1, NonblockingElsewhere, PathEnds
<1>2. CASE /\ owner' = o
           /\ failed' = StoreFailedMessage(q, n, p)
           /\ UNCHANGED credits
  BY <1>2 DEF StoreFailedMessage
<1> QED
  BY <1>1, <1>2 DEF LzReceive, BlockingLzReceive

LEMMA LzReceiveLanding ==
  ASSUME NEW o \in OwnerType, NEW q \in Path, NEW n, NEW p \in Payload, NoRepeat(p),
         LzReceive(o, q, n, p), NEW t \in Token,
         \A c \in Chain : o[c][t] \notin User, ~AnyPending(t), ~AnyFailed(t)
  PROVE  OnePlaceAtApps(t)'
<1>1. CASE NonblockingLzReceive(o, q[2], p) /\ UNCHANGED failed
  <2>1. ~AnyFailed(t)' /\ \A f \in failed' : t \notin Tokens(f.payload)
    BY <1>1 DEF AnyFailed
  <2> QED
    BY <1>1, <2>1, NonblockingLanding, PathEnds DEF OnePlaceAtApps
<1>2. CASE /\ owner' = o
           /\ failed' = StoreFailedMessage(q, n, p)
           /\ UNCHANGED credits
  <2>1. ~AnyHeld(t)' /\ ~AnyPending(t)'
    BY <1>2 DEF AnyHeld, AnyPending
  <2>2. \A f \in failed' : t \in Tokens(f.payload)
                          => f = [path |-> q, nonce |-> n, payload |-> p]
    BY <1>2 DEF StoreFailedMessage, AnyFailed
  <2> QED
    BY <1>2, <2>1, <2>2 DEF OnePlaceAtApps, AnyHeld, AnyPending
<1> QED
  BY <1>1, <1>2 DEF LzReceive, BlockingLzReceive

\* A message that repeats no id leaves only such messages behind.
LEMMA LzReceiveNoRepeat ==
  ASSUME UnderWayNoRepeat, NEW o, NEW q \in Path, NEW n, NEW p \in Payload,
         NoRepeat(p), LzReceive(o, q, n, p)
  PROVE  /\ \A f \in failed' : NoRepeat(f.payload)
         /\ \A cr \in credits' : NoRepeat(cr.payload)
<1>1. CASE NonblockingLzReceive(o, q[2], p) /\ UNCHANGED failed
  BY <1>1 DEF UnderWayNoRepeat, NonblockingLzReceive, StoreCredit
<1>2. CASE /\ failed' = StoreFailedMessage(q, n, p)
           /\ UNCHANGED credits
  BY <1>2 DEF UnderWayNoRepeat, StoreFailedMessage
<1> QED
  BY <1>1, <1>2 DEF LzReceive, BlockingLzReceive

-----------------------------------------------------------------------------
(***************************************************************************)
(* Three ways to conclude OnePlace(t)'.                                    *)
(***************************************************************************)

\* No place of t is new.
LEMMA StaysPut ==
  ASSUME NEW t \in Token, OnePlace(t),
         \A c \in Chain : owner'[c][t] \in User => owner[c][t] \in User,
         \A cr \in credits' : t \in Remaining(cr) => cr \in credits,
         \A f \in failed' : t \in Tokens(f.payload) => f \in failed,
         \A q \in Path : StoredOn(q, t)' => StoredOn(q, t),
         \A q \in Path : \A i : InQueue(q, i, t)' => InQueue(q, i, t)
  PROVE  OnePlace(t)'
<1>1. /\ AnyHeld(t)' => AnyHeld(t)
      /\ AnyPending(t)' => AnyPending(t)
      /\ AnyFailed(t)' => AnyFailed(t)
  BY DEF AnyHeld, AnyPending, AnyFailed
<1>2. AnyStored(t)' => AnyStored(t)
  BY DEF AnyStored
<1>3. AnyQueued(t)' => AnyQueued(t)
  BY DEF AnyQueued
<1>4. OnePlaceAtApps(t)'
  BY <1>1 DEF OnePlace, OnePlaceAtApps
<1>5. OnePlaceAtEndpoints(t)'
  BY <1>2, <1>3 DEF OnePlace, OnePlaceAtEndpoints
<1> QED
  BY <1>1, <1>2, <1>3, <1>4, <1>5 DEF OnePlace, AtApps, AtEndpoints

\* t is with the applications, and no endpoint has it.
LEMMA OnlyAtApps ==
  ASSUME NEW t \in Token, OnePlaceAtApps(t)',
         \A q \in Path : ~StoredOn(q, t)',
         \A q \in Path : \A i : ~InQueue(q, i, t)'
  PROVE  OnePlace(t)'
<1>1. ~AnyStored(t)' /\ ~AnyQueued(t)'
  BY DEF AnyStored, AnyQueued
<1>2. OnePlaceAtEndpoints(t)'
  BY <1>1 DEF OnePlaceAtEndpoints
<1> QED
  BY <1>1, <1>2 DEF OnePlace, AtEndpoints

\* t is in one message at an endpoint, and no application has it.
LEMMA OnlyAtEndpoints ==
  ASSUME NEW t \in Token, OnePlaceAtEndpoints(t)',
         \A c \in Chain : owner'[c][t] \notin User,
         \A cr \in credits' : t \notin Remaining(cr),
         \A f \in failed' : t \notin Tokens(f.payload)
  PROVE  OnePlace(t)'
<1>1. ~AnyHeld(t)' /\ ~AnyPending(t)' /\ ~AnyFailed(t)'
  BY DEF AnyHeld, AnyPending, AnyFailed
<1>2. OnePlaceAtApps(t)'
  BY <1>1 DEF OnePlaceAtApps
<1> QED
  BY <1>1, <1>2 DEF OnePlace, AtApps

-----------------------------------------------------------------------------
(***************************************************************************)
(* What the endpoints do to the places of one token.                       *)
(***************************************************************************)

\* A token that was copied stays in the record of those.
LEMMA CopiedGrows ==
  ASSUME [Next]_vars
  PROVE  copied \subseteq copied' /\ Sound' \subseteq Sound
<1>1. ASSUME NEW q \in Path, PathNext(q) PROVE copied \subseteq copied'
  BY <1>1 DEF PathNext, Send, NoteCopied, RetryStored, Drain, ForceResume,
              SetTrustedRemote, UnsetTrustedRemote, appVars
<1>2. ASSUME NEW c \in Chain, NEW t \in Token, TokenNext(c, t) PROVE copied' = copied
  BY <1>2 DEF TokenNext, TransferFrom, Approve
<1>3. ASSUME NEW f \in failed, RetryMessage(f) PROVE copied' = copied
  BY <1>3 DEF RetryMessage
<1>4. ASSUME NEW cr \in credits, NEW k, ClearCredits(cr, k) PROVE copied' = copied
  BY <1>4 DEF ClearCredits
<1>5. ASSUME NEW c \in Chain, BlockNext(c) PROVE copied' = copied
  BY <1>5 DEF BlockNext, appVars
<1>6. UNCHANGED vars => copied' = copied
  BY DEF vars, appVars
<1>7. copied \subseteq copied'
  BY <1>1, <1>2, <1>3, <1>4, <1>5, <1>6 DEF Next
<1> QED
  BY <1>7 DEF Sound

\* A message joins a queue at its end.  The others keep their places or are
\* overwritten by one that is copied: no token else gains a place.
LEMMA QueueGrows ==
  ASSUME EndpointTypeOK, NEW q \in Path, NEW p \in Payload, ReceiveQueued(q, p),
         NoteCopied(q), NEW r \in Path, NEW i, NEW t, t \notin copied',
         InQueue(r, i, t)'
  PROVE  InQueue(r, i, t) \/ /\ r = q
                             /\ i = Len(msgsToDeliver[q]) + 1
                             /\ t \in Tokens(p)
<1> DEFINE s == msgsToDeliver[q]
           m == Entry(q, p)
<1>1. m \in QueuedPayload /\ m.payload = p
  BY DEF Entry, NextNonce, QueuedPayload, EndpointTypeOK
<1>2. s \in Seq(QueuedPayload)
  BY DEF EndpointTypeOK
<1>3. msgsToDeliver' = [msgsToDeliver EXCEPT ![q] = Enqueue(s, m)]
  BY DEF ReceiveQueued
<1>4. /\ DOMAIN s = 1 .. Len(s) /\ Len(s) \in Nat
      /\ DOMAIN Enqueue(s, m) = DOMAIN s \cup {Len(s) + 1}
  BY <1>1, <1>2, EnqueueIs
<1>5. \A x \in DOMAIN s : Enqueue(s, m)[x] = s[Len(s)]
  BY <1>1, <1>2, EnqueuedAre
<1>6. Enqueue(s, m)[Len(s) + 1] = m
  BY <1>1, <1>2, NewestIsLast
<1>7. CASE r # q
  <2>1. msgsToDeliver'[r] = msgsToDeliver[r]
    BY <1>3, <1>7 DEF EndpointTypeOK
  <2> QED
    BY <2>1 DEF InQueue
<1>8. CASE r = q
  <2>1. /\ i \in DOMAIN Enqueue(s, m)
        /\ t \in Tokens(Enqueue(s, m)[i].payload)
    BY <1>3, <1>8 DEF EndpointTypeOK, InQueue
  <2>2. CASE i = Len(s) + 1
    BY <1>1, <1>6, <1>8, <2>1, <2>2
  <2>3. CASE i \in DOMAIN s
    <3>1. t \in Tokens(s[Len(s)].payload)
      BY <1>5, <2>1, <2>3
    <3>2. Len(s) < 2
      BY <3>1 DEF NoteCopied
    <3>3. i = Len(s)
      BY <1>4, <2>3, <3>2
    <3> QED
      BY <1>8, <2>3, <3>1, <3>3 DEF InQueue
  <2> QED
    BY <1>4, <2>1, <2>2, <2>3
<1> QED
  BY <1>7, <1>8

\* The head of a queue leaves it and the others move up.
LEMMA QueueShrinks ==
  ASSUME EndpointTypeOK, NEW q \in Path, DrainQueue(q), NEW r \in Path, NEW i, NEW t
  PROVE  /\ r # q => (InQueue(r, i, t)' <=> InQueue(r, i, t))
         /\ InQueue(q, i, t)' => i \in Nat /\ i > 0 /\ InQueue(q, i + 1, t)
         /\ InQueue(q, 1, t) <=> t \in Tokens(Head(msgsToDeliver[q]).payload)
<1> DEFINE s == msgsToDeliver[q]
<1>1. s \in Seq(QueuedPayload) /\ s # <<>>
  BY DEF EndpointTypeOK, DrainQueue
<1>2. msgsToDeliver' = [msgsToDeliver EXCEPT ![q] = Tail(s)]
  BY DEF DrainQueue
<1>3. /\ Len(s) \in Nat \ {0}
      /\ DOMAIN s = 1 .. Len(s)
      /\ Head(s) = s[1]
      /\ DOMAIN Tail(s) = 1 .. Len(s) - 1
      /\ \A x \in 1 .. Len(s) - 1 : Tail(s)[x] = s[x + 1]
  BY <1>1
<1>4. r # q => msgsToDeliver'[r] = msgsToDeliver[r]
  BY <1>2 DEF EndpointTypeOK
<1>5. msgsToDeliver'[q] = Tail(s)
  BY <1>2 DEF EndpointTypeOK
<1>6. InQueue(q, i, t)' => i \in Nat /\ i > 0 /\ InQueue(q, i + 1, t)
  BY <1>3, <1>5 DEF InQueue
<1>7. InQueue(q, 1, t) <=> t \in Tokens(Head(s).payload)
  BY <1>3 DEF InQueue
<1> QED
  BY <1>4, <1>6, <1>7 DEF InQueue

-----------------------------------------------------------------------------
(***************************************************************************)
(* One lemma per action that moves a token or a message.                   *)
(***************************************************************************)

LEMMA SendOnePlace ==
  ASSUME IInv, NEW q \in Path, NEW by \in User, NEW p \in Payload, Send(q, by, p),
         NEW t \in Sound, t \notin copied'
  PROVE  OnePlace(t)'
<1> DEFINE o == Debited(q[1], p)
<1>1. TypeOK /\ EndpointTypeOK /\ OnePlace(t) /\ NoRepeat(p) /\ t \in Token
  BY DEF IInv, TypeOK, Send, Sound
<1>2. o \in OwnerType
  BY <1>1, GiveType, PathEnds DEF Debited, TypeOK, OwnerType, Holder
<1>3. \A c \in Chain :
        o[c][t] = IF c = q[1] /\ t \in Tokens(p) THEN Bridge ELSE owner[c][t]
  BY <1>1, GiveEffect, PathEnds DEF Debited, TypeOK, OwnerType, Holder
<1>4. NextNonce(q) \in Nat
  BY <1>1 DEF NextNonce, EndpointTypeOK
<1>5. t \in Tokens(p) => /\ owner[q[1]][t] \in User
                        /\ AnyHeld(t)
  <2>1. t \in Tokens(p) => owner[q[1]][t] \in User
    <3>1. PICK from \in User : \A x \in Tokens(p) : CanDebit(q[1], by, from, x)
      BY DEF Send
    <3> QED
      BY <3>1 DEF CanDebit, ProxyCanDebit, OnftCanDebit
  <2> QED
    BY <2>1, PathEnds DEF AnyHeld
<1>6. t \in Tokens(p) => /\ ~AnyFailed(t) /\ ~AnyPending(t)
                        /\ ~AnyStored(t) /\ ~AnyQueued(t)
                        /\ \A c \in Chain : o[c][t] \notin User
  BY <1>1, <1>3, <1>5, PathEnds, HolderAssumption
     DEF OnePlace, OnePlaceAtApps, AtApps, AtEndpoints
<1>7. CASE ReceiveDelivered(q) /\ LzReceive(o, q, NextNonce(q), p)
  <2>1. /\ \A r \in Path : StoredOn(r, t)' <=> StoredOn(r, t)
        /\ \A r \in Path : \A i : InQueue(r, i, t)' <=> InQueue(r, i, t)
    BY <1>7 DEF ReceiveDelivered, StoredOn, InQueue
  <2>2. CASE t \notin Tokens(p)
    BY <1>1, <1>2, <1>3, <1>4, <1>7, <2>1, <2>2, LzReceiveElsewhere, StaysPut
  <2>3. CASE t \in Tokens(p)
    <3>1. OnePlaceAtApps(t)'
      BY <1>1, <1>2, <1>4, <1>6, <1>7, <2>3, LzReceiveLanding
    <3> QED
      BY <1>1, <1>6, <2>1, <2>3, <3>1, OnlyAtApps DEF AnyStored, AnyQueued
  <2> QED
    BY <2>2, <2>3
<1>8. CASE /\ \/ ReceiveQueued(q, p) /\ NoteCopied(q)
              \/ ReceiveBlocked(q, p)
              \/ ReceiveReverted(q, p)
           /\ owner' = o
           /\ UNCHANGED <<credits, failed>>
  <2>1. CASE ReceiveQueued(q, p) /\ NoteCopied(q)
    <3>1. \A r \in Path : StoredOn(r, t)' <=> StoredOn(r, t)
      BY <2>1 DEF ReceiveQueued, StoredOn
    <3>2. \A r \in Path : \A i :
            InQueue(r, i, t)' => \/ InQueue(r, i, t)
                                 \/ /\ r = q
                                    /\ i = Len(msgsToDeliver[q]) + 1
                                    /\ t \in Tokens(p)
      BY <1>1, <2>1, QueueGrows
    <3>3. CASE t \notin Tokens(p)
      BY <1>1, <1>3, <1>8, <3>1, <3>2, <3>3, StaysPut
    <3>4. CASE t \in Tokens(p)
      <4>1. OnePlaceAtEndpoints(t)'
        BY <1>6, <3>1, <3>2, <3>4 DEF OnePlaceAtEndpoints, AnyStored, AnyQueued
      <4> QED
        BY <1>1, <1>6, <1>8, <3>4, <4>1, OnlyAtEndpoints DEF AnyPending, AnyFailed
    <3> QED
      BY <3>3, <3>4
  <2>2. CASE ReceiveBlocked(q, p) \/ ReceiveReverted(q, p)
    <3>1. /\ storedPayload' = [storedPayload EXCEPT ![q] = p]
          /\ UNCHANGED msgsToDeliver
      BY <2>2 DEF ReceiveBlocked, ReceiveReverted, StorePayload
    <3>2. p # NoPayload
      BY NoPayloadAssumption
    <3>3. \A r \in Path : StoredOn(r, t)' <=> IF r = q THEN t \in Tokens(p)
                                                       ELSE StoredOn(r, t)
      BY <1>1, <3>1, <3>2 DEF StoredOn, EndpointTypeOK
    <3>4. \A r \in Path : \A i : InQueue(r, i, t)' <=> InQueue(r, i, t)
      BY <3>1 DEF InQueue
    <3>5. CASE t \notin Tokens(p)
      BY <1>1, <1>3, <1>8, <3>3, <3>4, <3>5, StaysPut
    <3>6. CASE t \in Tokens(p)
      <4>1. OnePlaceAtEndpoints(t)'
        BY <1>6, <3>3, <3>4, <3>6 DEF OnePlaceAtEndpoints, AnyStored, AnyQueued
      <4> QED
        BY <1>1, <1>6, <1>8, <3>6, <4>1, OnlyAtEndpoints DEF AnyPending, AnyFailed
    <3> QED
      BY <3>5, <3>6
  <2> QED
    BY <1>8, <2>1, <2>2
<1> QED
  BY <1>7, <1>8 DEF Send

LEMMA RetryStoredOnePlace ==
  ASSUME IInv, NEW q \in Path, RetryStored(q), NEW t \in Sound
  PROVE  OnePlace(t)'
<1> DEFINE p == storedPayload[q]
<1>1. /\ TypeOK /\ EndpointTypeOK /\ OnePlace(t) /\ t \in Token
      /\ p \in Payload /\ p # NoPayload /\ NoRepeat(p)
      /\ owner \in OwnerType
      /\ LzReceive(owner, q, RetryNonce(q), p)
  BY DEF IInv, Sound, UnderWayNoRepeat, TypeOK, EndpointTypeOK, RetryStored, RetryPayload,
         OwnerType
<1>2. \A r \in Path : StoredOn(r, t)' <=> r # q /\ StoredOn(r, t)
  BY <1>1 DEF RetryStored, RetryPayload, EmptyStored, StoredOn, EndpointTypeOK
<1>3. \A r \in Path : \A i : InQueue(r, i, t)' <=> InQueue(r, i, t)
  BY DEF RetryStored, RetryPayload, InQueue
<1>4. CASE t \notin Tokens(p)
  BY <1>1, <1>2, <1>3, <1>4, LzReceiveElsewhere, StaysPut
<1>5. CASE t \in Tokens(p)
  <2>1. StoredOn(q, t) /\ AnyStored(t)
    BY <1>1, <1>5 DEF StoredOn, AnyStored
  <2>2. ~AnyQueued(t) /\ ~AnyHeld(t) /\ ~AnyFailed(t) /\ ~AnyPending(t)
    BY <1>1, <2>1 DEF OnePlace, OnePlaceAtEndpoints, AtApps, AtEndpoints
  <2>3. OnePlaceAtApps(t)'
    BY <1>1, <1>5, <2>2, LzReceiveLanding DEF AnyHeld
  <2>4. \A r \in Path : ~StoredOn(r, t)'
    BY <1>1, <1>2, <2>1 DEF OnePlace, OnePlaceAtEndpoints
  <2> QED
    BY <1>1, <1>3, <2>2, <2>3, <2>4, OnlyAtApps DEF AnyQueued
<1> QED
  BY <1>4, <1>5

LEMMA DrainOnePlace ==
  ASSUME IInv, NEW q \in Path, Drain(q), NEW t \in Sound
  PROVE  OnePlace(t)'
<1> DEFINE m == Head(msgsToDeliver[q])
           p == m.payload
<1>1. /\ TypeOK /\ EndpointTypeOK /\ OnePlace(t) /\ DrainQueue(q)
      /\ owner \in OwnerType /\ t \in Token
      /\ LzReceive(owner, q, m.nonce, p)
  BY DEF IInv, Sound, TypeOK, Drain, OwnerType
<1>2. p \in Payload /\ NoRepeat(p)
  <2>1. msgsToDeliver[q] \in Seq(QueuedPayload) /\ msgsToDeliver[q] # <<>>
    BY <1>1 DEF EndpointTypeOK, DrainQueue
  <2>2. 1 \in DOMAIN msgsToDeliver[q] /\ m = msgsToDeliver[q][1]
    BY <2>1
  <2>3. m \in QueuedPayload
    BY <2>1
  <2> QED
    BY <2>2, <2>3 DEF IInv, UnderWayNoRepeat, QueuedPayload
<1>3. \A r \in Path : StoredOn(r, t)' <=> StoredOn(r, t)
  BY <1>1 DEF DrainQueue, StoredOn
<1>4. /\ \A r \in Path : \A i : r # q => (InQueue(r, i, t)' <=> InQueue(r, i, t))
      /\ \A i : InQueue(q, i, t)' => i \in Nat /\ i > 0 /\ InQueue(q, i + 1, t)
      /\ InQueue(q, 1, t) <=> t \in Tokens(p)
  BY <1>1, QueueShrinks
<1>5. CASE t \in Tokens(p)
  <2>1. InQueue(q, 1, t) /\ AnyQueued(t)
    BY <1>4, <1>5 DEF AnyQueued
  <2>2. ~AnyStored(t) /\ ~AnyHeld(t) /\ ~AnyFailed(t) /\ ~AnyPending(t)
    BY <1>1, <2>1 DEF OnePlace, OnePlaceAtEndpoints, AtApps, AtEndpoints
  <2>3. OnePlaceAtApps(t)'
    BY <1>1, <1>2, <1>5, <2>2, LzReceiveLanding DEF AnyHeld
  <2>4. \A r \in Path : \A i : InQueue(r, i, t) => r = q /\ i = 1
    BY <1>1, <2>1 DEF OnePlace, OnePlaceAtEndpoints
  <2>5. \A i : ~InQueue(q, i, t)'
    <3> SUFFICES ASSUME NEW i, InQueue(q, i, t)' PROVE FALSE
      OBVIOUS
    <3>1. i \in Nat /\ i > 0 /\ i + 1 = 1
      BY <1>4, <2>4
    <3> QED
      BY <3>1
  <2>6. \A r \in Path : \A i : ~InQueue(r, i, t)'
    BY <1>4, <2>4, <2>5
  <2> QED
    BY <1>1, <1>3, <2>2, <2>3, <2>6, OnlyAtApps DEF AnyStored
<1>6. CASE t \notin Tokens(p)
  <2>1. /\ \A c \in Chain : owner'[c][t] = owner[c][t]
        /\ \A cr \in credits' : t \in Remaining(cr) => cr \in credits
        /\ \A f \in failed' : t \in Tokens(f.payload) => f \in failed
    BY <1>1, <1>2, <1>6, LzReceiveElsewhere
  <2>2. AnyQueued(t)' => AnyQueued(t)
    BY <1>4 DEF AnyQueued
  <2>3. AnyStored(t)' => AnyStored(t)
    BY <1>3 DEF AnyStored
  <2>4. /\ AnyHeld(t)' => AnyHeld(t)
        /\ AnyPending(t)' => AnyPending(t)
        /\ AnyFailed(t)' => AnyFailed(t)
    BY <2>1 DEF AnyHeld, AnyPending, AnyFailed
  <2>5. OnePlaceAtApps(t)'
    BY <1>1, <2>1, <2>4 DEF OnePlace, OnePlaceAtApps
  <2>6. ASSUME NEW r \in Path, NEW s \in Path, NEW i, NEW j,
               InQueue(r, i, t)', InQueue(s, j, t)'
        PROVE  r = s /\ i = j
    <3>1. \A w, x \in Path : \A y, z :
            InQueue(w, y, t) /\ InQueue(x, z, t) => w = x /\ y = z
      BY <1>1 DEF OnePlace, OnePlaceAtEndpoints
    <3>2. CASE r = q /\ s = q
      <4>1. /\ i \in Nat /\ j \in Nat
            /\ InQueue(q, i + 1, t) /\ InQueue(q, j + 1, t)
        BY <1>4, <2>6, <3>2
      <4>2. i + 1 = j + 1
        BY <3>1, <4>1
      <4> QED
        BY <3>2, <4>1, <4>2
    <3>3. CASE r # q \/ s # q
      <4>1. (r = q \/ InQueue(r, i, t)) /\ (s = q \/ InQueue(s, j, t))
        BY <1>4, <2>6
      <4>2. (\E y : InQueue(r, y, t)) /\ (\E z : InQueue(s, z, t))
        BY <1>4, <2>6
      <4>3. r = s
        BY <3>1, <4>2
      <4> QED
        BY <3>1, <3>3, <4>1, <4>3
    <3> QED
      BY <3>2, <3>3
  <2>7. OnePlaceAtEndpoints(t)'
    BY <1>1, <1>3, <2>2, <2>3, <2>6 DEF OnePlace, OnePlaceAtEndpoints
  <2> QED
    BY <1>1, <2>2, <2>3, <2>4, <2>5, <2>7 DEF OnePlace, AtApps, AtEndpoints
<1> QED
  BY <1>5, <1>6

\* The endpoints do not change, so neither do the places they hold.
LEMMA EndpointsIdle ==
  ASSUME UNCHANGED endpointVars, NEW t
  PROVE  /\ \A r \in Path : StoredOn(r, t)' <=> StoredOn(r, t)
         /\ \A r \in Path : \A i : InQueue(r, i, t)' <=> InQueue(r, i, t)
BY DEF endpointVars, StoredOn, InQueue

LEMMA RetryMessageOnePlace ==
  ASSUME IInv, NEW f \in failed, RetryMessage(f), NEW t \in Sound
  PROVE  OnePlace(t)'
<1> DEFINE p == f.payload
           d == f.path[2]
<1>1. /\ OnePlace(t) /\ p \in Payload /\ NoRepeat(p) /\ d \in Chain
      /\ owner \in OwnerType /\ t \in Token
      /\ NonblockingLzReceive(owner, d, p)
      /\ failed' = failed \ {f}
  BY PathEnds DEF IInv, Sound, UnderWayNoRepeat, TypeOK, FailedMessage, RetryMessage,
                  WithoutFailed, OwnerType
<1>2. /\ \A r \in Path : StoredOn(r, t)' <=> StoredOn(r, t)
      /\ \A r \in Path : \A i : InQueue(r, i, t)' <=> InQueue(r, i, t)
  BY EndpointsIdle DEF RetryMessage
<1>3. CASE t \notin Tokens(p)
  BY <1>1, <1>2, <1>3, NonblockingElsewhere, StaysPut
<1>4. CASE t \in Tokens(p)
  <2>1. AnyFailed(t)
    BY <1>4 DEF AnyFailed
  <2>2. ~AnyStored(t) /\ ~AnyQueued(t) /\ ~AnyHeld(t) /\ ~AnyPending(t)
    BY <1>1, <2>1 DEF OnePlace, OnePlaceAtApps, AtApps, AtEndpoints
  <2>3. ~AnyFailed(t)' /\ \A g \in failed' : t \notin Tokens(g.payload)
    BY <1>1, <1>4 DEF OnePlace, OnePlaceAtApps, AnyFailed
  <2>4. OnePlaceAtApps(t)'
    BY <1>1, <1>4, <2>2, <2>3, NonblockingLanding DEF OnePlaceAtApps, AnyHeld
  <2> QED
    BY <1>1, <1>2, <2>2, <2>4, OnlyAtApps DEF AnyStored, AnyQueued
<1> QED
  BY <1>3, <1>4

LEMMA ClearCreditsOnePlace ==
  ASSUME IInv, NEW cr \in credits, NEW k \in DOMAIN cr.payload.ids,
         ClearCredits(cr, k), NEW t \in Sound
  PROVE  OnePlace(t)'
<1> DEFINE p == cr.payload
           d == cr.at
           new == [at |-> d, payload |-> p, index |-> k]
<1>1. /\ OnePlace(t) /\ p \in Payload /\ NoRepeat(p) /\ d \in Chain
      /\ owner \in OwnerType /\ cr.index \in Nat /\ t \in Token
      /\ owner' = CreditedTill(owner, d, p, cr.index, k)
      /\ failed' = failed
  BY DEF IInv, Sound, UnderWayNoRepeat, TypeOK, StoredCredit, ClearCredits, OwnerType
<1>2. k \in Nat /\ k > cr.index /\ p.to \in Holder
  BY <1>1, PayloadType DEF ClearCredits
<1>3. /\ \A r \in Path : StoredOn(r, t)' <=> StoredOn(r, t)
      /\ \A r \in Path : \A i : InQueue(r, i, t)' <=> InQueue(r, i, t)
  BY EndpointsIdle DEF ClearCredits
<1>4. \A c \in Chain : owner'[c][t] = IF c = d /\ t \in Slice(p, cr.index, k)
                                        THEN p.to ELSE owner[c][t]
  BY <1>1, <1>2, GiveEffect DEF CreditedTill
<1>5. Slice(p, cr.index, k) \subseteq Remaining(cr)
  BY DEF Slice, Remaining
<1>6. Remaining(new) \subseteq Remaining(cr)
  <2>1. \A x \in DOMAIN p.ids : x \in Nat
    BY <1>1, PayloadType
  <2>2. \A x \in DOMAIN p.ids : k < x => cr.index < x
    BY <1>1, <1>2, <2>1
  <2> QED
    BY <2>2 DEF Remaining
<1>7. \A dr \in credits' : dr = new \/ (dr \in credits /\ dr # cr)
  BY DEF ClearCredits, StoreCredit, WithoutCredit
<1>8. CASE t \notin Remaining(cr)
  <2>1. /\ \A c \in Chain : owner'[c][t] = owner[c][t]
        /\ \A dr \in credits' : t \in Remaining(dr) => dr \in credits
    BY <1>4, <1>5, <1>6, <1>7, <1>8
  <2> QED
    BY <1>1, <1>3, <2>1, StaysPut
<1>9. CASE t \in Remaining(cr)
  <2>1. AnyPending(t)
    BY <1>9 DEF AnyPending
  <2>2. ~AnyStored(t) /\ ~AnyQueued(t) /\ ~AnyHeld(t) /\ ~AnyFailed(t)
    BY <1>1, <2>1 DEF OnePlace, OnePlaceAtApps, AtApps, AtEndpoints
  <2>3. \A dr \in credits' : t \in Remaining(dr) => dr = new
    BY <1>1, <1>7, <1>9 DEF OnePlace, OnePlaceAtApps
  <2>4. t \in Slice(p, cr.index, k) => t \notin Remaining(new)
    BY <1>1, <1>2, CreditedNotRemaining
  <2>5. \A c \in Chain : owner'[c][t] \in User => c = d /\ t \in Slice(p, cr.index, k)
    BY <1>4, <2>2 DEF AnyHeld
  <2>6. ~AnyFailed(t)' /\ \A g \in failed' : t \notin Tokens(g.payload)
    BY <1>1, <2>2 DEF AnyFailed
  <2>7. ~(AnyHeld(t)' /\ AnyPending(t)')
    BY <2>3, <2>4, <2>5 DEF AnyHeld, AnyPending
  <2>8. OnePlaceAtApps(t)'
    BY <2>3, <2>5, <2>6, <2>7 DEF OnePlaceAtApps
  <2> QED
    BY <1>1, <1>3, <2>2, <2>8, OnlyAtApps DEF AnyStored, AnyQueued
<1> QED
  BY <1>8, <1>9

LEMMA OtherOnePlace ==
  ASSUME IInv, NEW t \in Sound,
         \/ \E q \in Path : \/ ForceResume(q)
                           \/ SetTrustedRemote(q[1], q[2])
                           \/ UnsetTrustedRemote(q[1], q[2])
         \/ \E c \in Chain : BlockNext(c)
         \/ \E c \in Chain, x \in Token : TokenNext(c, x)
         \/ UNCHANGED vars
  PROVE  OnePlace(t)'
<1>1. TypeOK /\ EndpointTypeOK /\ OnePlace(t) /\ owner \in OwnerType /\ t \in Token
  BY DEF IInv, Sound, TypeOK, OwnerType
<1>2. credits' = credits /\ failed' = failed
  BY DEF ForceResume, SetTrustedRemote, UnsetTrustedRemote, BlockNext, TokenNext,
         TransferFrom, Approve, vars, appVars
<1>3. \A c \in Chain : owner'[c][t] \in User => owner[c][t] \in User
  <2>1. ASSUME NEW c \in Chain, NEW x \in Token, NEW to \in Holder,
               TransferFrom(c, x, to), NEW e \in Chain, owner'[e][t] \in User
        PROVE  owner[e][t] \in User
    <3>1. owner'[e][t] = IF e = c /\ t \in {x} THEN to ELSE owner[e][t]
      BY <1>1, <2>1, GiveEffect DEF TransferFrom
    <3> QED
      BY <2>1, <3>1 DEF TransferFrom
  <2>2. CASE owner' = owner
    BY <2>2
  <2> QED
    BY <2>1, <2>2 DEF ForceResume, SetTrustedRemote, UnsetTrustedRemote, BlockNext,
                      TokenNext, Approve, vars, appVars
<1>4. \A q \in Path : StoredOn(q, t)' => StoredOn(q, t)
  <2>1. ASSUME NEW q \in Path, ForceResume(q), NEW r \in Path, StoredOn(r, t)'
        PROVE  StoredOn(r, t)
    <3>1. storedPayload'[r] = IF r = q THEN NoPayload ELSE storedPayload[r]
      BY <1>1, <2>1 DEF ForceResume, ForceResumeReceive, EmptyStored, EndpointTypeOK
    <3> QED
      BY <2>1, <3>1 DEF StoredOn
  <2>2. CASE storedPayload' = storedPayload
    BY <2>2 DEF StoredOn
  <2> QED
    BY <2>1, <2>2 DEF SetTrustedRemote, UnsetTrustedRemote, BlockNext, BlockNextMsg,
                      TokenNext, TransferFrom, Approve, vars, endpointVars
<1>5. msgsToDeliver' = msgsToDeliver
  BY DEF ForceResume, ForceResumeReceive, SetTrustedRemote, UnsetTrustedRemote,
         BlockNext, BlockNextMsg, TokenNext, TransferFrom, Approve, vars, endpointVars
<1>6. \A q \in Path : \A i : InQueue(q, i, t)' => InQueue(q, i, t)
  BY <1>5 DEF InQueue
<1> QED
  BY <1>1, <1>2, <1>3, <1>4, <1>6, StaysPut

-----------------------------------------------------------------------------
(***************************************************************************)
(* No message under way repeats an id.                                     *)
(***************************************************************************)
QueuesNoRepeat == \A q \in Path : \A i \in DOMAIN msgsToDeliver[q] :
                    NoRepeat(msgsToDeliver[q][i].payload)

LEMMA QueueAppendNoRepeat ==
  ASSUME EndpointTypeOK, QueuesNoRepeat, NEW q \in Path, NEW p \in Payload,
         NoRepeat(p), ReceiveQueued(q, p)
  PROVE  QueuesNoRepeat'
<1> DEFINE s == msgsToDeliver[q]
           m == Entry(q, p)
<1>1. m \in QueuedPayload /\ m.payload = p /\ s \in Seq(QueuedPayload)
  <2>1. m \in QueuedPayload /\ m.payload = p
    BY DEF Entry, NextNonce, QueuedPayload, EndpointTypeOK
  <2>2. s \in Seq(QueuedPayload)
    BY DEF EndpointTypeOK
  <2> QED
    BY <2>1, <2>2
<1>2. msgsToDeliver' = [msgsToDeliver EXCEPT ![q] = Enqueue(s, m)]
  BY DEF ReceiveQueued
<1>3. \A i \in DOMAIN Enqueue(s, m) :
        Enqueue(s, m)[i] = m \/ \E j \in DOMAIN s : Enqueue(s, m)[i] = s[j]
  <2>1. /\ DOMAIN s = 1 .. Len(s) /\ Len(s) \in Nat
        /\ DOMAIN Enqueue(s, m) = DOMAIN s \cup {Len(s) + 1}
    BY <1>1, EnqueueIs
  <2>2. \A i \in DOMAIN s : Enqueue(s, m)[i] = s[Len(s)]
    BY <1>1, EnqueuedAre
  <2>3. Enqueue(s, m)[Len(s) + 1] = m
    BY <1>1, NewestIsLast
  <2> QED
    BY <2>1, <2>2, <2>3
<1>4. \A i \in DOMAIN Enqueue(s, m) : NoRepeat(Enqueue(s, m)[i].payload)
  BY <1>1, <1>3 DEF QueuesNoRepeat
<1> QED
  BY <1>2, <1>4 DEF QueuesNoRepeat, EndpointTypeOK

LEMMA QueueTailNoRepeat ==
  ASSUME EndpointTypeOK, QueuesNoRepeat, NEW q \in Path, DrainQueue(q)
  PROVE  QueuesNoRepeat' /\ NoRepeat(Head(msgsToDeliver[q]).payload)
<1> DEFINE s == msgsToDeliver[q]
<1>1. s \in Seq(QueuedPayload) /\ s # <<>>
  BY DEF EndpointTypeOK, DrainQueue
<1>2. msgsToDeliver' = [msgsToDeliver EXCEPT ![q] = Tail(s)]
  BY DEF DrainQueue
<1>3. 1 \in DOMAIN s /\ Head(s) = s[1]
  BY <1>1
<1>4. \A i \in DOMAIN Tail(s) : i + 1 \in DOMAIN s /\ Tail(s)[i] = s[i + 1]
  BY <1>1
<1>5. \A i \in DOMAIN Tail(s) : NoRepeat(Tail(s)[i].payload)
  BY <1>4 DEF QueuesNoRepeat
<1> QED
  BY <1>2, <1>3, <1>5 DEF QueuesNoRepeat, EndpointTypeOK

LEMMA StepNoRepeat ==
  ASSUME IInv, [Next]_vars
  PROVE  UnderWayNoRepeat'
<1>1. TypeOK /\ EndpointTypeOK /\ UnderWayNoRepeat /\ QueuesNoRepeat
  BY DEF IInv, TypeOK, UnderWayNoRepeat, QueuesNoRepeat
<1> DEFINE StoredNR == \A q \in Path : storedPayload[q] # NoPayload => NoRepeat(storedPayload[q])
           FailedNR == \A f \in failed : NoRepeat(f.payload)
           CreditsNR == \A cr \in credits : NoRepeat(cr.payload)
<1>2. StoredNR /\ FailedNR /\ CreditsNR
  BY <1>1 DEF UnderWayNoRepeat
<1>3. ASSUME NEW q \in Path, NEW by \in User, NEW p \in Payload, Send(q, by, p)
      PROVE  UnderWayNoRepeat'
  <2>1. NoRepeat(p)
    BY <1>3 DEF Send
  <2>2. FailedNR' /\ CreditsNR'
    BY <1>1, <1>2, <1>3, <2>1, LzReceiveNoRepeat DEF Send
  <2>3. QueuesNoRepeat'
    <3>1. CASE ReceiveQueued(q, p)
      BY <1>1, <2>1, <3>1, QueueAppendNoRepeat
    <3>2. CASE UNCHANGED msgsToDeliver
      BY <1>1, <3>2 DEF QueuesNoRepeat
    <3> QED
      BY <1>3, <3>1, <3>2 DEF Send, ReceiveBlocked, ReceiveReverted, StorePayload,
                              ReceiveDelivered
  <2>4. StoredNR'
    <3>1. CASE storedPayload' = [storedPayload EXCEPT ![q] = p]
      BY <1>1, <1>2, <2>1, <3>1 DEF EndpointTypeOK
    <3>2. CASE UNCHANGED storedPayload
      BY <1>2, <3>2
    <3> QED
      BY <1>3, <3>1, <3>2 DEF Send, ReceiveQueued, ReceiveBlocked, ReceiveReverted,
                              StorePayload, ReceiveDelivered
  <2> QED
    BY <2>2, <2>3, <2>4 DEF UnderWayNoRepeat, QueuesNoRepeat
<1>4. ASSUME NEW q \in Path, RetryStored(q) PROVE UnderWayNoRepeat'
  <2>1. NoRepeat(storedPayload[q]) /\ storedPayload[q] \in Payload
    BY <1>1, <1>2, <1>4 DEF RetryStored, RetryPayload, EndpointTypeOK
  <2>2. FailedNR' /\ CreditsNR'
    BY <1>1, <1>4, <2>1, LzReceiveNoRepeat DEF RetryStored
  <2>3. StoredNR'
    BY <1>1, <1>2, <1>4 DEF RetryStored, RetryPayload, EmptyStored, EndpointTypeOK
  <2>4. QueuesNoRepeat'
    BY <1>1, <1>4 DEF RetryStored, RetryPayload, QueuesNoRepeat
  <2> QED
    BY <2>2, <2>3, <2>4 DEF UnderWayNoRepeat, QueuesNoRepeat
<1>5. ASSUME NEW q \in Path, Drain(q) PROVE UnderWayNoRepeat'
  <2> DEFINE m == Head(msgsToDeliver[q])
  <2>1. DrainQueue(q) /\ LzReceive(owner, q, m.nonce, m.payload)
    BY <1>5 DEF Drain
  <2>2. m.payload \in Payload
    BY <1>1, <2>1, QueueHead DEF DrainQueue, QueuedPayload
  <2>3. QueuesNoRepeat' /\ NoRepeat(m.payload)
    BY <1>1, <2>1, QueueTailNoRepeat
  <2>4. FailedNR' /\ CreditsNR'
    BY <1>1, <2>1, <2>2, <2>3, LzReceiveNoRepeat
  <2>5. StoredNR'
    BY <1>2, <2>1 DEF DrainQueue
  <2> QED
    BY <2>3, <2>4, <2>5 DEF UnderWayNoRepeat, QueuesNoRepeat
<1>6. ASSUME NEW f \in failed, RetryMessage(f) PROVE UnderWayNoRepeat'
  <2>1. NoRepeat(f.payload)
    BY <1>2
  <2>2. FailedNR' /\ CreditsNR'
    BY <1>2, <1>6, <2>1 DEF RetryMessage, WithoutFailed, NonblockingLzReceive,
                            StoreCredit
  <2>3. StoredNR' /\ QueuesNoRepeat'
    BY <1>1, <1>2, <1>6 DEF RetryMessage, endpointVars, QueuesNoRepeat
  <2> QED
    BY <2>2, <2>3 DEF UnderWayNoRepeat, QueuesNoRepeat
<1>7. ASSUME NEW cr \in credits, NEW k, ClearCredits(cr, k) PROVE UnderWayNoRepeat'
  <2>1. FailedNR' /\ CreditsNR'
    BY <1>2, <1>7 DEF ClearCredits, StoreCredit, WithoutCredit
  <2>2. StoredNR' /\ QueuesNoRepeat'
    BY <1>1, <1>2, <1>7 DEF ClearCredits, endpointVars, QueuesNoRepeat
  <2> QED
    BY <2>1, <2>2 DEF UnderWayNoRepeat, QueuesNoRepeat
<1>8. ASSUME NEW q \in Path, ForceResume(q) PROVE UnderWayNoRepeat'
  <2>1. StoredNR'
    BY <1>1, <1>2, <1>8 DEF ForceResume, ForceResumeReceive, EmptyStored, EndpointTypeOK
  <2>2. QueuesNoRepeat' /\ FailedNR' /\ CreditsNR'
    BY <1>1, <1>2, <1>8 DEF ForceResume, ForceResumeReceive, appVars, QueuesNoRepeat
  <2> QED
    BY <2>1, <2>2 DEF UnderWayNoRepeat, QueuesNoRepeat
<1>9. CASE UNCHANGED <<storedPayload, msgsToDeliver, credits, failed>>
  BY <1>1, <1>9 DEF UnderWayNoRepeat
<1>10. ASSUME \/ \E q \in Path : \/ SetTrustedRemote(q[1], q[2])
                               \/ UnsetTrustedRemote(q[1], q[2])
              \/ \E c \in Chain : BlockNext(c)
              \/ \E c \in Chain, t \in Token : TokenNext(c, t)
              \/ UNCHANGED vars
       PROVE  UNCHANGED <<storedPayload, msgsToDeliver, credits, failed>>
  BY <1>10 DEF SetTrustedRemote, UnsetTrustedRemote, BlockNext, BlockNextMsg,
               TokenNext, TransferFrom, Approve, vars, appVars, endpointVars
<1> QED
  BY <1>3, <1>4, <1>5, <1>6, <1>7, <1>8, <1>9, <1>10 DEF Next, PathNext

-----------------------------------------------------------------------------
\* The inductive invariant holds when the contracts have been deployed.
LEMMA InitIInv == Init => IInv
<1> SUFFICES ASSUME Init PROVE IInv
  OBVIOUS
<1>1. EndpointTypeOK /\ storedPayload = [q \in Path |-> NoPayload]
        /\ msgsToDeliver = [q \in Path |-> <<>>]
  BY DEF Init, EndpointInit, EndpointTypeOK
<1>2. TypeOK
  BY InitType
<1>3. UnderWayNoRepeat
  BY <1>1 DEF Init, UnderWayNoRepeat
<1>4. ASSUME NEW t \in Sound PROVE OnePlace(t)
  <2>1. \A c \in Chain : owner[c][t] \in User => c = Home
    BY HolderAssumption DEF Init, Sound
  <2>2. ~AnyFailed(t) /\ ~AnyPending(t)
    BY DEF Init, AnyFailed, AnyPending
  <2>3. (\A q \in Path : ~StoredOn(q, t)) /\ (\A q \in Path : \A i : ~InQueue(q, i, t))
    BY <1>1 DEF StoredOn, InQueue
  <2>4. OnePlaceAtApps(t) /\ OnePlaceAtEndpoints(t)
    BY <2>1, <2>2, <2>3 DEF Init, OnePlaceAtApps, OnePlaceAtEndpoints, AnyStored
  <2> QED
    BY <2>3, <2>4 DEF OnePlace, AtEndpoints, AnyStored, AnyQueued
<1> QED
  BY <1>2, <1>3, <1>4 DEF IInv

\* Every step of the bridge keeps each token in one place.
LEMMA StepOnePlace ==
  ASSUME IInv, [Next]_vars, NEW t \in Sound, t \notin copied'
  PROVE  OnePlace(t)'
<1>1. ASSUME NEW q \in Path, PathNext(q) PROVE OnePlace(t)'
  BY <1>1, SendOnePlace, RetryStoredOnePlace, DrainOnePlace, OtherOnePlace DEF PathNext
<1>2. ASSUME NEW c \in Chain, NEW x \in Token, TokenNext(c, x) PROVE OnePlace(t)'
  BY <1>2, OtherOnePlace
<1>3. ASSUME NEW f \in failed, RetryMessage(f) PROVE OnePlace(t)'
  BY <1>3, RetryMessageOnePlace
<1>4. ASSUME NEW cr \in credits, NEW k \in DOMAIN cr.payload.ids, ClearCredits(cr, k)
      PROVE  OnePlace(t)'
  BY <1>4, ClearCreditsOnePlace
<1>5. ASSUME NEW c \in Chain, BlockNext(c) PROVE OnePlace(t)'
  BY <1>5, OtherOnePlace
<1>6. CASE UNCHANGED vars
  BY <1>6, OtherOnePlace
<1> QED
  BY <1>1, <1>2, <1>3, <1>4, <1>5, <1>6 DEF Next

(***************************************************************************)
(* A token is never in two places: in two accounts' hands, or in an        *)
(* account's hands and in a message or stored credit that can still        *)
(* deliver it, or in two of those; unless a queue's shift loop has copied  *)
(* a message it was in.  Holds whatever the applications check when they   *)
(* credit: it rests on the debit, on clearing what is retried, and on the  *)
(* remainder of a batch starting after what was credited.                  *)
(***************************************************************************)
THEOREM NeverDuplicated == Spec => []NoDuplication
<1>1. IInv /\ [Next]_vars => IInv'
  <2> SUFFICES ASSUME IInv, [Next]_vars PROVE IInv'
    OBVIOUS
  <2>1. TypeOK'
    BY TypeStep DEF IInv
  <2>2. UnderWayNoRepeat'
    BY StepNoRepeat
  <2>3. \A t \in Sound' : OnePlace(t)'
    BY CopiedGrows, StepOnePlace DEF Sound
  <2> QED
    BY <2>1, <2>2, <2>3 DEF IInv
<1>2. IInv => NoDuplication
  BY OnePlaceIsEnough DEF IInv
<1> QED
  BY InitIInv, <1>1, <1>2, PTL DEF Spec

-----------------------------------------------------------------------------
(***************************************************************************)
(* What follows once no token in Sound is in two places: the escrow backs  *)
(* what circulates, what waits can be credited, stored credits are not     *)
(* overwritten, losses are of three kinds only, and the bridge implements  *)
(* OmniToken.                                                              *)
(*                                                                         *)
(* That a token abroad or under way is in the escrow is not shown action   *)
(* by action.  It is enough that the home contract never loses a token to  *)
(* the zero address: since nobody else can then hold it there, the         *)
(* application does.                                                       *)
(***************************************************************************)

\* The home collection is minted once and never burnt.
HomeHeld == \A t \in Token : owner[Home][t] # NoOne

\* Only a token in an account's hands has an approval.
NoStaleApproval ==
  \A c \in Chain, t \in Token : owner[c][t] \notin User => approved[c][t] = NoOne

\* storedCredits has one entry per chain and payload.
OnePerKey ==
  \A cr, dr \in credits : cr.at = dr.at /\ cr.payload = dr.payload => cr = dr

KInv == IInv /\ HomeHeld /\ NoStaleApproval /\ OnePerKey

-----------------------------------------------------------------------------
\* Crediting never gives a token of the home contract to the zero address, and
\* files what is left under its own key.
LEMMA NonblockingKeeps ==
  ASSUME NEW o \in OwnerType, \A t \in Token : o[Home][t] # NoOne, OnePerKey,
         NEW d \in Chain, NEW p \in Payload, NonblockingLzReceive(o, d, p)
  PROVE  HomeHeld' /\ OnePerKey'
<1>1. PICK k \in {0} \cup DOMAIN p.ids :
        /\ CanCreditTill(o, d, p, 0, k)
        /\ owner' = CreditedTill(o, d, p, 0, k)
        /\ credits' = IF Unfinished(p, k) THEN StoreCredit(d, p, k) ELSE credits
  BY DEF NonblockingLzReceive
<1>2. ASSUME NEW t \in Token PROVE owner'[Home][t] # NoOne
  <2>1. owner'[Home][t] = IF Home = d /\ t \in Slice(p, 0, k) THEN p.to ELSE o[Home][t]
    BY <1>1, GiveEffect, PayloadType, HomeAssumption DEF CreditedTill
  <2>2. ASSUME Home = d, t \in Slice(p, 0, k) PROVE p.to # NoOne
    BY <1>1, <2>2, HolderAssumption DEF CanCreditTill, CanCredit, Unlock
  <2> QED
    BY <2>1, <2>2
<1>3. OnePerKey'
  BY <1>1 DEF OnePerKey, StoreCredit
<1> QED
  BY <1>2, <1>3 DEF HomeHeld

LEMMA LzReceiveKeeps ==
  ASSUME NEW o \in OwnerType, \A t \in Token : o[Home][t] # NoOne, OnePerKey,
         NEW q \in Path, NEW n, NEW p \in Payload, LzReceive(o, q, n, p)
  PROVE  HomeHeld' /\ OnePerKey'
<1>1. CASE NonblockingLzReceive(o, q[2], p)
  BY <1>1, NonblockingKeeps, PathEnds
<1>2. CASE owner' = o /\ UNCHANGED credits
  BY <1>2 DEF HomeHeld, OnePerKey
<1> QED
  BY <1>1, <1>2 DEF LzReceive, BlockingLzReceive

LEMMA SendKeeps ==
  ASSUME KInv, NEW q \in Path, NEW by \in User, NEW p \in Payload, Send(q, by, p)
  PROVE  HomeHeld' /\ OnePerKey'
<1> DEFINE o == Debited(q[1], p)
<1>1. owner \in OwnerType /\ Bridge \in Holder /\ Bridge # NoOne
  BY HolderAssumption DEF KInv, IInv, TypeOK, OwnerType, Holder
<1>2. o \in OwnerType
  BY <1>1, GiveType, PathEnds DEF Debited
<1>3. \A t \in Token : o[Home][t] # NoOne
  BY <1>1, GiveEffect, PathEnds, HomeAssumption DEF Debited, KInv, HomeHeld
<1>4. CASE owner' = o /\ UNCHANGED <<credits, failed>>
  BY <1>3, <1>4 DEF HomeHeld, KInv, OnePerKey
<1>5. CASE LzReceive(o, q, NextNonce(q), p)
  BY <1>2, <1>3, <1>5, LzReceiveKeeps DEF KInv
<1> QED
  BY <1>4, <1>5 DEF Send

\* The message that RetryStored and Drain hand to the application is one.
LEMMA WaitingMessages ==
  ASSUME TypeOK, NEW q \in Path
  PROVE  /\ RetryStored(q) => storedPayload[q] \in Payload
         /\ Drain(q) => Head(msgsToDeliver[q]).payload \in Payload
<1>1. RetryStored(q) => storedPayload[q] \in Payload
  BY DEF RetryStored, RetryPayload, TypeOK, EndpointTypeOK
<1>2. Drain(q) => Head(msgsToDeliver[q]).payload \in Payload
  BY QueueHead DEF Drain, DrainQueue, QueuedPayload, TypeOK
<1> QED
  BY <1>1, <1>2

LEMMA StepKeeps ==
  ASSUME KInv, [Next]_vars
  PROVE  HomeHeld' /\ OnePerKey'
<1>1. /\ owner \in OwnerType /\ TypeOK
      /\ \A t \in Token : owner[Home][t] # NoOne
      /\ HomeHeld /\ OnePerKey
  BY DEF KInv, IInv, TypeOK, OwnerType, HomeHeld
<1>2. ASSUME UNCHANGED <<owner, credits>> PROVE HomeHeld' /\ OnePerKey'
  BY <1>1, <1>2 DEF HomeHeld, OnePerKey
<1>3. ASSUME NEW q \in Path, PathNext(q) PROVE HomeHeld' /\ OnePerKey'
  <2>1. ASSUME RetryStored(q) PROVE HomeHeld' /\ OnePerKey'
    BY <1>1, <2>1, WaitingMessages, LzReceiveKeeps DEF RetryStored
  <2>2. ASSUME Drain(q) PROVE HomeHeld' /\ OnePerKey'
    BY <1>1, <2>2, WaitingMessages, LzReceiveKeeps DEF Drain
  <2>3. ForceResume(q) \/ SetTrustedRemote(q[1], q[2]) \/ UnsetTrustedRemote(q[1], q[2])
          => UNCHANGED <<owner, credits>>
    BY DEF ForceResume, SetTrustedRemote, UnsetTrustedRemote, appVars
  <2> QED
    BY <1>2, <1>3, <2>1, <2>2, <2>3, SendKeeps DEF PathNext
<1>4. ASSUME NEW c \in Chain, NEW t \in Token, TokenNext(c, t)
      PROVE  HomeHeld' /\ OnePerKey'
  <2>1. ASSUME NEW to \in Holder, TransferFrom(c, t, to) PROVE HomeHeld' /\ OnePerKey'
    <3>1. /\ owner' = Give(owner, c, {t}, to) /\ to # NoOne
          /\ credits' = credits
      BY <2>1, HolderAssumption DEF TransferFrom
    <3>2. \A x \in Token : owner'[Home][x] # NoOne
      BY <1>1, <3>1, GiveEffect, HomeAssumption
    <3> QED
      BY <1>1, <3>1, <3>2 DEF HomeHeld, OnePerKey
  <2>2. ASSUME NEW u \in Holder, Approve(c, t, u) PROVE UNCHANGED <<owner, credits>>
    BY <2>2 DEF Approve
  <2> QED
    BY <1>2, <1>4, <2>1, <2>2 DEF TokenNext
<1>5. ASSUME NEW f \in failed, RetryMessage(f) PROVE HomeHeld' /\ OnePerKey'
  <2>1. f.path[2] \in Chain /\ f.payload \in Payload
    BY <1>1, PathEnds DEF TypeOK, FailedMessage
  <2> QED
    BY <1>1, <1>5, <2>1, NonblockingKeeps DEF RetryMessage
<1>6. ASSUME NEW cr \in credits, NEW k \in DOMAIN cr.payload.ids, ClearCredits(cr, k)
      PROVE  HomeHeld' /\ OnePerKey'
  <2>1. cr.at \in Chain /\ cr.payload \in Payload /\ cr.payload.to \in Holder
    BY <1>1, PayloadType DEF TypeOK, StoredCredit
  <2>2. ASSUME NEW t \in Token PROVE owner'[Home][t] # NoOne
    <3>1. owner'[Home][t] = IF Home = cr.at /\ t \in Slice(cr.payload, cr.index, k)
                              THEN cr.payload.to ELSE owner[Home][t]
      BY <1>1, <1>6, <2>1, GiveEffect, HomeAssumption DEF ClearCredits, CreditedTill
    <3>2. ASSUME Home = cr.at, t \in Slice(cr.payload, cr.index, k)
          PROVE  cr.payload.to # NoOne
      BY <1>6, <3>2, HolderAssumption DEF ClearCredits, CanCreditTill, CanCredit, Unlock
    <3> QED
      BY <1>1, <3>1, <3>2
  <2>3. OnePerKey'
    BY <1>1, <1>6 DEF ClearCredits, OnePerKey, StoreCredit, WithoutCredit
  <2> QED
    BY <2>2, <2>3 DEF HomeHeld
<1>7. ASSUME NEW c \in Chain, BlockNext(c) PROVE UNCHANGED <<owner, credits>>
  BY <1>7 DEF BlockNext, appVars
<1>8. UNCHANGED vars => UNCHANGED <<owner, credits>>
  BY DEF vars, appVars
<1> QED
  BY <1>2, <1>3, <1>4, <1>5, <1>6, <1>7, <1>8 DEF Next

\* A token that moves loses its approval, and only an account's is approved.
LEMMA StepApproval ==
  ASSUME TypeOK, NoStaleApproval, [Next]_vars
  PROVE  NoStaleApproval'
<1>1. ASSUME TransferClearsApproval PROVE NoStaleApproval'
  BY <1>1 DEF TransferClearsApproval, NoStaleApproval
<1>2. ASSUME UNCHANGED <<owner, approved>> PROVE NoStaleApproval'
  BY <1>2 DEF NoStaleApproval
<1>3. ASSUME NEW c \in Chain, NEW t \in Token, NEW u \in Holder, Approve(c, t, u)
      PROVE  NoStaleApproval'
  BY <1>3 DEF Approve, NoStaleApproval, TypeOK
<1>4. ASSUME NEW q \in Path, PathNext(q)
      PROVE  TransferClearsApproval \/ UNCHANGED <<owner, approved>>
  BY <1>4 DEF PathNext, Send, RetryStored, Drain, ForceResume, SetTrustedRemote,
              UnsetTrustedRemote, appVars
<1>5. ASSUME NEW c \in Chain, NEW t \in Token, NEW to \in Holder, TransferFrom(c, t, to)
      PROVE  TransferClearsApproval
  BY <1>5 DEF TransferFrom
<1>6. ASSUME NEW f \in failed, RetryMessage(f) PROVE TransferClearsApproval
  BY <1>6 DEF RetryMessage
<1>7. ASSUME NEW cr \in credits, NEW k \in DOMAIN cr.payload.ids, ClearCredits(cr, k)
      PROVE  TransferClearsApproval
  BY <1>7 DEF ClearCredits
<1>8. ASSUME NEW c \in Chain, BlockNext(c) PROVE UNCHANGED <<owner, approved>>
  BY <1>8 DEF BlockNext, appVars
<1>9. UNCHANGED vars => UNCHANGED <<owner, approved>>
  BY DEF vars, appVars
<1> QED
  BY <1>1, <1>2, <1>3, <1>4, <1>5, <1>6, <1>7, <1>8, <1>9 DEF Next, TokenNext

LEMMA StepIInv == IInv /\ [Next]_vars => IInv'
<1> SUFFICES ASSUME IInv, [Next]_vars PROVE IInv'
  OBVIOUS
<1>1. \A t \in Sound' : OnePlace(t)'
  BY CopiedGrows, StepOnePlace DEF Sound
<1> QED
  BY <1>1, TypeStep, StepNoRepeat DEF IInv

LEMMA InitKInv == Init => KInv
<1> SUFFICES ASSUME Init PROVE KInv
  OBVIOUS
<1>1. HomeHeld /\ NoStaleApproval /\ OnePerKey
  BY HomeAssumption, HolderAssumption DEF Init, HomeHeld, NoStaleApproval, OnePerKey
<1> QED
  BY <1>1, InitIInv DEF KInv

LEMMA KInvInductive == Spec => []KInv
<1>1. KInv /\ [Next]_vars => KInv'
  BY StepIInv, StepKeeps, StepApproval DEF KInv, IInv
<1> QED
  BY <1>1, InitKInv, PTL DEF Spec

-----------------------------------------------------------------------------
\* What is in transit is in transit as a claim.
InTransitSome(t) == AnyStored(t) \/ AnyQueued(t) \/ AnyFailed(t) \/ AnyPending(t)

LEMMA TransitClaims ==
  ASSUME NEW t \in Token
  PROVE  InTransit(t) # {} => InTransitSome(t)
BY DEF InTransit, InTransitSome, Stored, Queued, Failed, Pending, AnyStored,
       AnyQueued, InQueue, AnyFailed, AnyPending

\* A token in transit, or held abroad, is the application's at home.
LEMMA EscrowHolds ==
  ASSUME KInv, NEW t \in Sound,
         InTransitSome(t) \/ \E c \in Chain \ {Home} : owner[c][t] \in User
  PROVE  owner[Home][t] = Bridge
<1>1. OnePlace(t) /\ owner[Home][t] \in User \cup {Bridge}
  BY HomeAssumption DEF KInv, IInv, Sound, TypeOK, HomeHeld, Holder
<1>2. owner[Home][t] \notin User
  <2>1. CASE InTransitSome(t)
    BY <1>1, <2>1, HomeAssumption DEF InTransitSome, OnePlace, OnePlaceAtApps, AtApps,
                                      AtEndpoints, AnyHeld
  <2>2. CASE \E c \in Chain \ {Home} : owner[c][t] \in User
    BY <1>1, <2>2, HomeAssumption DEF OnePlace, OnePlaceAtApps
  <2> QED
    BY <2>1, <2>2
<1> QED
  BY <1>1, <1>2

\* While a token that was not copied is held abroad or is on its way to any
\* chain the proxy holds it at home, and nothing that an application holds,
\* copied or not, can be taken by an approval.
THEOREM EscrowBacksAll == Spec => []EscrowBacking
<1>1. KInv => EscrowBacking
  <2> SUFFICES ASSUME KInv, NEW t \in Sound,
                      Claims(t) \ {<<"held", Home, 0>>} # {}
               PROVE  owner[Home][t] = Bridge
    BY DEF KInv, NoStaleApproval, EscrowBacking, Sound
  <2>1. InTransit(t) # {} \/ \E c \in Chain \ {Home} : owner[c][t] \in User
    BY DEF Claims, Held
  <2> QED
    BY <2>1, TransitClaims, EscrowHolds DEF Sound
<1> QED
  BY <1>1, KInvInductive, PTL

\* A destination belongs to something in transit.
LEMMA DestinationInTransit ==
  ASSUME KInv, NEW t \in Token, NEW dest \in Destinations(t)
  PROVE  InTransitSome(t) /\ dest[1] \in Chain
<1>1. TypeOK
  BY DEF KInv, IInv
<1>2. ASSUME NEW q \in Path, StoredOn(q, t), dest = <<q[2], storedPayload[q].to>>
      PROVE  InTransitSome(t) /\ dest[1] \in Chain
  BY <1>2, PathEnds DEF InTransitSome, AnyStored
<1>3. ASSUME NEW q \in Path, NEW i \in DOMAIN msgsToDeliver[q],
             t \in Tokens(msgsToDeliver[q][i].payload),
             dest = <<q[2], msgsToDeliver[q][i].payload.to>>
      PROVE  InTransitSome(t) /\ dest[1] \in Chain
  BY <1>3, PathEnds DEF InTransitSome, AnyQueued, InQueue
<1>4. ASSUME NEW f \in failed, t \in Tokens(f.payload),
             dest = <<f.path[2], f.payload.to>>
      PROVE  InTransitSome(t) /\ dest[1] \in Chain
  BY <1>1, <1>4, PathEnds DEF InTransitSome, AnyFailed, TypeOK, FailedMessage
<1>5. ASSUME NEW cr \in credits, t \in Remaining(cr), dest = <<cr.at, cr.payload.to>>
      PROVE  InTransitSome(t) /\ dest[1] \in Chain
  BY <1>1, <1>5 DEF InTransitSome, AnyPending, TypeOK, StoredCredit
<1> DEFINE
  S == {<<q[2], storedPayload[q].to>> : q \in {x \in Path : StoredOn(x, t)}}
  Q == UNION {{<<q[2], msgsToDeliver[q][i].payload.to>> : i \in
                 {x \in DOMAIN msgsToDeliver[q] :
                    t \in Tokens(msgsToDeliver[q][x].payload)}} : q \in Path}
  F == {<<f.path[2], f.payload.to>> : f \in {x \in failed : t \in Tokens(x.payload)}}
  P == {<<cr.at, cr.payload.to>> : cr \in {x \in credits : t \in Remaining(x)}}
<1>6. dest \in S \cup Q \cup F \cup P
  BY DEF Destinations
<1>7. dest \in S => InTransitSome(t) /\ dest[1] \in Chain
  BY <1>2
<1>8. dest \in Q => InTransitSome(t) /\ dest[1] \in Chain
  BY <1>3
<1>9. dest \in F => InTransitSome(t) /\ dest[1] \in Chain
  BY <1>4
<1>10. dest \in P => InTransitSome(t) /\ dest[1] \in Chain
  BY <1>5
<1> HIDE DEF S, Q, F, P
<1> QED
  BY <1>6, <1>7, <1>8, <1>9, <1>10

\* Each token of a waiting message or stored credit, unless it was copied, is
\* in the application's hands at the destination, or was never minted there.
THEOREM WaitingCanBeCredited == Spec => []WaitingIsCreditable
<1>1. KInv => WaitingIsCreditable
  <2> SUFFICES ASSUME KInv, NEW t \in Sound, NEW dest \in Destinations(t)
               PROVE  Creditable(dest[1], t)
    BY DEF WaitingIsCreditable
  <2>1. InTransitSome(t) /\ dest[1] \in Chain
    BY DestinationInTransit DEF Sound
  <2>2. owner[Home][t] = Bridge
    BY <2>1, EscrowHolds
  <2>3. owner[dest[1]][t] \in {Bridge, NoOne}
    <3>1. OnePlace(t) /\ owner[dest[1]][t] \in Holder
      BY <2>1 DEF KInv, IInv, TypeOK, Sound
    <3>2. ~ AnyHeld(t)
      BY <2>1, <3>1 DEF InTransitSome, OnePlace, OnePlaceAtApps, AtApps, AtEndpoints
    <3> QED
      BY <2>1, <3>1, <3>2 DEF AnyHeld, Holder
  <2> QED
    BY <2>2, <2>3 DEF Creditable
<1> QED
  BY <1>1, KInvInductive, PTL

-----------------------------------------------------------------------------
(***************************************************************************)
(* Stored credits.  A message with the same payload as a stored credit     *)
(* would overwrite it; but it would carry the tokens that remain, and one  *)
(* that was not copied then were in two places.                            *)
(***************************************************************************)
LEMMA RemainingAreTokens ==
  ASSUME NEW cr, NEW t \in Remaining(cr)
  PROVE  t \in Tokens(cr.payload)
BY DEF Remaining, Tokens

LEMMA LzReceiveKeepsCredit ==
  ASSUME NEW o, NEW d, NEW p, NonblockingLzReceive(o, d, p),
         NEW cr \in credits, NEW t \in Remaining(cr), t \notin Tokens(p)
  PROVE  cr \in credits'
BY RemainingAreTokens DEF NonblockingLzReceive, StoreCredit

\* Clearing one credit gives its tokens away from its index on, in order.
LEMMA ClearKeepsCredit ==
  ASSUME KInv, NEW cr \in credits, NEW t \in Remaining(cr),
         NEW dr \in credits, NEW k \in DOMAIN dr.payload.ids, ClearCredits(dr, k)
  PROVE  owner'[cr.at][t] = cr.payload.to
           \/ \E kept \in credits' : /\ kept.at = cr.at
                                     /\ kept.payload = cr.payload
                                     /\ t \in Remaining(kept)
<1>1. /\ TypeOK /\ OnePerKey /\ owner \in OwnerType
      /\ cr.at \in Chain /\ cr.payload \in Payload /\ cr.index \in Nat
  BY DEF KInv, IInv, TypeOK, OwnerType, StoredCredit
<1>2. CASE cr # dr
  <2>1. ~ (cr.at = dr.at /\ cr.payload = dr.payload)
    BY <1>1, <1>2 DEF OnePerKey
  <2>2. cr \in credits'
    BY <1>2, <2>1 DEF ClearCredits, StoreCredit, WithoutCredit
  <2> QED
    BY <2>2
<1>3. CASE cr = dr
  <2> DEFINE p == cr.payload
             new == [at |-> cr.at, payload |-> p, index |-> k]
  <2>1. PICK j \in DOMAIN p.ids : cr.index < j /\ p.ids[j] = t
    BY DEF Remaining
  <2>2. j \in Nat /\ k \in Nat /\ t \in Token /\ p.to \in Holder
    BY <1>1, <1>3, <2>1, PayloadType
  <2>3. CASE j <= k
    <3>1. t \in Slice(p, cr.index, k)
      BY <2>1, <2>3 DEF Slice
    <3>2. owner' = Give(owner, cr.at, Slice(p, cr.index, k), p.to)
      BY <1>3 DEF ClearCredits, CreditedTill
    <3> QED
      BY <1>1, <2>2, <3>1, <3>2, GiveEffect
  <2>4. CASE k < j
    <3>1. Unfinished(p, k)
      BY <2>1, <2>4 DEF Unfinished
    <3>2. new \in credits'
      BY <1>3, <3>1 DEF ClearCredits, StoreCredit
    <3>3. t \in Remaining(new)
      BY <2>1, <2>4 DEF Remaining
    <3> QED
      BY <3>2, <3>3
  <2> QED
    BY <2>2, <2>3, <2>4
<1> QED
  BY <1>2, <1>3

\* A token that was not copied stays in the remainder of a stored credit,
\* under the same key, until it is credited to the recipient.
THEOREM StoredCreditsKept == Spec => CreditsKept
<1> DEFINE
  Keeps == \A cr \in credits : \A t \in Remaining(cr) \cap Sound :
             \/ owner'[cr.at][t] = cr.payload.to
             \/ \E kept \in credits' : /\ kept.at = cr.at
                                       /\ kept.payload = cr.payload
                                       /\ t \in Remaining(kept)
<1>1. KInv /\ [Next]_vars => [Keeps]_vars
  <2> SUFFICES ASSUME KInv, Next, NEW cr \in credits, NEW t \in Remaining(cr),
                      t \in Sound
               PROVE  \/ owner'[cr.at][t] = cr.payload.to
                      \/ \E kept \in credits' : /\ kept.at = cr.at
                                                /\ kept.payload = cr.payload
                                                /\ t \in Remaining(kept)
    OBVIOUS
  <2> DEFINE Goal == \/ owner'[cr.at][t] = cr.payload.to
                     \/ \E kept \in credits' : /\ kept.at = cr.at
                                               /\ kept.payload = cr.payload
                                               /\ t \in Remaining(kept)
  <2>1. cr \in credits' => Goal
    OBVIOUS
  <2>2. /\ TypeOK /\ EndpointTypeOK /\ t \in Token /\ AnyPending(t) /\ OnePlace(t)
    <3>1. cr.payload \in Payload
      BY DEF KInv, IInv, TypeOK, StoredCredit
    <3>2. t \in Token
      BY <3>1, RemainingAreTokens, PayloadType DEF Tokens
    <3> QED
      BY <3>2 DEF KInv, IInv, TypeOK, AnyPending
  <2>3. ~ AnyHeld(t) /\ ~ AnyFailed(t) /\ ~ AnyStored(t) /\ ~ AnyQueued(t)
    BY <2>2 DEF OnePlace, OnePlaceAtApps, AtApps, AtEndpoints
  <2>4. ASSUME NEW o, NEW q, NEW n, NEW p, LzReceive(o, q, n, p), t \notin Tokens(p)
        PROVE  cr \in credits'
    BY <2>4, LzReceiveKeepsCredit DEF LzReceive, BlockingLzReceive
  <2>5. ASSUME NEW q \in Path, NEW by \in User, NEW p \in Payload, Send(q, by, p)
        PROVE  cr \in credits'
    <3>1. t \notin Tokens(p)
      <4>1. \A c \in Chain : owner[c][t] \notin User
        BY <2>3 DEF AnyHeld
      <4> QED
        BY <2>5, <4>1, PathEnds, HomeAssumption DEF Send, CanDebit, ProxyCanDebit, OnftCanDebit
    <3> QED
      BY <2>4, <2>5, <3>1 DEF Send
  <2>6. ASSUME NEW q \in Path, RetryStored(q) PROVE cr \in credits'
    <3>1. t \notin Tokens(storedPayload[q])
      BY <2>3, <2>6 DEF AnyStored, StoredOn, RetryStored, RetryPayload
    <3> QED
      BY <2>4, <2>6, <3>1 DEF RetryStored
  <2>7. ASSUME NEW q \in Path, Drain(q) PROVE cr \in credits'
    <3>1. msgsToDeliver[q] \in Seq(QueuedPayload) /\ msgsToDeliver[q] # <<>>
      BY <2>2, <2>7 DEF EndpointTypeOK, Drain, DrainQueue
    <3>2. 1 \in DOMAIN msgsToDeliver[q] /\ Head(msgsToDeliver[q]) = msgsToDeliver[q][1]
      BY <3>1
    <3>3. t \notin Tokens(Head(msgsToDeliver[q]).payload)
      BY <2>3, <3>2 DEF AnyQueued, InQueue
    <3> QED
      BY <2>4, <2>7, <3>3 DEF Drain
  <2>8. ASSUME NEW f \in failed, RetryMessage(f) PROVE cr \in credits'
    <3>1. t \notin Tokens(f.payload)
      BY <2>3 DEF AnyFailed
    <3> QED
      BY <2>8, <3>1, LzReceiveKeepsCredit DEF RetryMessage
  <2>9. ASSUME NEW dr \in credits, NEW k \in DOMAIN dr.payload.ids, ClearCredits(dr, k)
        PROVE  Goal
    BY <2>9, ClearKeepsCredit
  <2>10. ASSUME NEW q \in Path,
                ForceResume(q) \/ SetTrustedRemote(q[1], q[2]) \/ UnsetTrustedRemote(q[1], q[2])
         PROVE  cr \in credits'
    BY <2>10 DEF ForceResume, SetTrustedRemote, UnsetTrustedRemote, appVars
  <2>11. ASSUME NEW c \in Chain, NEW x \in Token, TokenNext(c, x) PROVE cr \in credits'
    BY <2>11 DEF TokenNext, TransferFrom, Approve
  <2>12. ASSUME NEW c \in Chain, BlockNext(c) PROVE cr \in credits'
    BY <2>12 DEF BlockNext, appVars
  <2> HIDE DEF Goal
  <2>13. Goal
    BY <2>1, <2>5, <2>6, <2>7, <2>8, <2>9, <2>10, <2>11, <2>12 DEF Next, PathNext
  <2> QED
    BY <2>13 DEF Goal
<1> QED
  BY <1>1, KInvInductive, PTL DEF Spec, CreditsKept

-----------------------------------------------------------------------------
(***************************************************************************)
(* Nothing gets stuck.  clearCredits can finish any batch that was left,   *)
(* and retryMessage any message that failed, in one call with enough gas,  *)
(* if the recipient takes tokens and none of those left was copied: none   *)
(* of them has gone another way in the meantime, and no stored credit is   *)
(* without a token.  (What CreditsCleared adds is that somebody makes the  *)
(* call.)                                                                  *)
(***************************************************************************)
Accepting(p) == p.to \in User \ Rejecting

ToTheEnd(d, p, i) ==
  /\ Len(p.ids) \in DOMAIN p.ids /\ Len(p.ids) > i
  /\ CanCreditTill(owner, d, p, i, Len(p.ids))

Finishable ==
  /\ \A cr \in credits : Accepting(cr.payload) /\ Remaining(cr) \subseteq Sound
                           => ToTheEnd(cr.at, cr.payload, cr.index)
  /\ \A f \in failed : Accepting(f.payload) /\ Tokens(f.payload) \subseteq Sound
                          => ToTheEnd(f.path[2], f.payload, 0)

CreditsOpen == \A cr \in credits : Unfinished(cr.payload, cr.index)

LEMMA IdsAre ==
  ASSUME NEW p \in Payload
  PROVE  /\ Len(p.ids) \in Nat \ {0}
         /\ DOMAIN p.ids = 1 .. Len(p.ids)
<1>1. p \in [to : User \cup {Bridge, NoOne}, ids : Batch]
  BY BatchAssumption
<1>2. PICK n \in {1} \cup (1 .. BatchLimit) : p.ids \in [1 .. n -> Token]
  BY <1>1 DEF Batch
<1>3. n \in Nat \ {0}
  BY BatchAssumption
<1>4. Len(p.ids) = n
  BY <1>2, <1>3
<1> QED
  BY <1>2, <1>3, <1>4

LEMMA StepOpen ==
  ASSUME CreditsOpen, [Next]_vars
  PROVE  CreditsOpen'
<1>1. ASSUME UNCHANGED credits PROVE CreditsOpen'
  BY <1>1 DEF CreditsOpen
<1>2. ASSUME NEW o, NEW d, NEW p, NonblockingLzReceive(o, d, p) PROVE CreditsOpen'
  BY <1>2 DEF NonblockingLzReceive, StoreCredit, CreditsOpen
<1>3. ASSUME NEW o, NEW q, NEW n, NEW p, LzReceive(o, q, n, p) PROVE CreditsOpen'
  BY <1>1, <1>2, <1>3 DEF LzReceive, BlockingLzReceive
<1>4. ASSUME NEW q \in Path, PathNext(q) PROVE CreditsOpen'
  BY <1>1, <1>3, <1>4 DEF PathNext, Send, RetryStored, Drain, ForceResume,
                          SetTrustedRemote, UnsetTrustedRemote, appVars
<1>5. ASSUME NEW c \in Chain, NEW t \in Token, TokenNext(c, t) PROVE CreditsOpen'
  BY <1>1, <1>5 DEF TokenNext, TransferFrom, Approve
<1>6. ASSUME NEW f \in failed, RetryMessage(f) PROVE CreditsOpen'
  BY <1>2, <1>6 DEF RetryMessage
<1>7. ASSUME NEW cr \in credits, NEW k \in DOMAIN cr.payload.ids, ClearCredits(cr, k)
      PROVE  CreditsOpen'
  BY <1>7 DEF ClearCredits, StoreCredit, WithoutCredit, CreditsOpen
<1>8. ASSUME NEW c \in Chain, BlockNext(c) PROVE CreditsOpen'
  BY <1>1, <1>8 DEF BlockNext, appVars
<1>9. CASE UNCHANGED vars
  BY <1>1, <1>9 DEF vars, appVars
<1> QED
  BY <1>4, <1>5, <1>6, <1>7, <1>8, <1>9 DEF Next

\* A payload whose tokens are all where they should be is credited to its end.
LEMMA CreditedToTheEnd ==
  ASSUME NEW d \in Chain, NEW p \in Payload, Accepting(p), NEW i \in Nat,
         Unfinished(p, i),
         \A t \in Slice(p, i, Len(p.ids)) : Creditable(d, t)
  PROVE  ToTheEnd(d, p, i)
<1> DEFINE n == Len(p.ids)
<1>1. n \in DOMAIN p.ids /\ n > i
  BY IdsAre DEF Unfinished
<1>2. p.to \in User \ Rejecting /\ p.to # NoOne
  BY HolderAssumption DEF Accepting
<1>3. ASSUME NEW t \in Slice(p, i, n) PROVE CanCredit(owner, d, p.to, t)
  BY <1>2, <1>3 DEF CanCredit, Unlock, MintOrRelease, Creditable
<1> QED
  BY <1>1, <1>3 DEF ToTheEnd, CanCreditTill

LEMMA AllFinishable ==
  ASSUME KInv, WaitingIsCreditable, CreditsOpen
  PROVE  Finishable
<1>1. credits \subseteq StoredCredit /\ failed \subseteq FailedMessage
  BY DEF KInv, IInv, TypeOK
<1>2. ASSUME NEW cr \in credits, Accepting(cr.payload), Remaining(cr) \subseteq Sound
      PROVE  ToTheEnd(cr.at, cr.payload, cr.index)
  <2>1. /\ cr.at \in Chain /\ cr.payload \in Payload /\ cr.index \in Nat
        /\ Unfinished(cr.payload, cr.index)
    BY <1>1 DEF StoredCredit, CreditsOpen
  <2>2. ASSUME NEW t \in Slice(cr.payload, cr.index, Len(cr.payload.ids))
        PROVE  Creditable(cr.at, t)
    <3>1. t \in Sound /\ t \in Remaining(cr)
      BY <1>2 DEF Slice, Remaining
    <3> DEFINE dest == <<cr.at, cr.payload.to>>
    <3>2. dest \in Destinations(t)
      BY <3>1 DEF Destinations
    <3>3. Creditable(dest[1], t)
      BY <3>1, <3>2 DEF WaitingIsCreditable
    <3> QED BY <3>3
  <2> QED BY <1>2, <2>1, <2>2, CreditedToTheEnd
<1>3. ASSUME NEW f \in failed, Accepting(f.payload), Tokens(f.payload) \subseteq Sound
      PROVE  ToTheEnd(f.path[2], f.payload, 0)
  <2>1. f.path \in Path /\ f.path[2] \in Chain /\ f.payload \in Payload
    BY <1>1, PathEnds DEF FailedMessage
  <2>2. Unfinished(f.payload, 0)
    <3>1. 1 \in DOMAIN f.payload.ids /\ 0 < 1
      BY <2>1, IdsAre
    <3> QED
      BY <3>1 DEF Unfinished
  <2>3. ASSUME NEW t \in Slice(f.payload, 0, Len(f.payload.ids))
        PROVE  Creditable(f.path[2], t)
    <3>1. t \in Sound /\ t \in Tokens(f.payload)
      BY <1>3 DEF Slice, Tokens
    <3> DEFINE dest == <<f.path[2], f.payload.to>>
    <3>2. dest \in Destinations(t)
      BY <3>1 DEF Destinations
    <3>3. Creditable(dest[1], t)
      BY <3>1, <3>2 DEF WaitingIsCreditable
    <3> QED BY <3>3
  <2> QED BY <1>3, <2>1, <2>2, <2>3, CreditedToTheEnd
<1> QED
  BY <1>2, <1>3 DEF Finishable

\* A stored credit or failed message for a recipient that takes tokens, with
\* none that a queue copied left in it, can be finished by one clearCredits
\* or retryMessage, from whatever was reached.
THEOREM NothingIsStuck == Spec => []Finishable
<1>1. Init => CreditsOpen
  BY DEF Init, CreditsOpen
<1>2. Spec => []CreditsOpen
  BY <1>1, StepOpen, PTL DEF Spec
<1> QED
  BY <1>2, KInvInductive, WaitingCanBeCredited, AllFinishable, PTL

-----------------------------------------------------------------------------
(***************************************************************************)
(* What is lost.  What an application writes over is the danger here: an   *)
(* entry of failedMessages with the nonce of the message that fails now.   *)
(* Failed messages have nonces the path has used, and while one is stored, *)
(* older ones than the nonce a retry of it takes.  Only the drain loop     *)
(* delivers with an older nonce, on a path where nothing is stored.        *)
(***************************************************************************)
FailedUsed ==
  \A f \in failed :
    /\ f.nonce <= inboundNonce[f.path]
    /\ storedPayload[f.path] # NoPayload => f.nonce < inboundNonce[f.path]

QueuedUsed ==
  \A q \in Path : \A i \in DOMAIN msgsToDeliver[q] :
    msgsToDeliver[q][i].nonce <= inboundNonce[q]

DrainedClear == \A q \in Path : resuming = q => storedPayload[q] = NoPayload

NInv == FailedUsed /\ QueuedUsed /\ DrainedClear

\* Queues: one message more at the end, behind what was there or, if that was
\* two messages or more, behind copies of the last; or the oldest one less.
LEMMA QueueAppended ==
  ASSUME EndpointTypeOK, NEW q \in Path, NEW p \in Payload, ReceiveQueued(q, p),
         NEW r \in Path
  PROVE  /\ \A i \in DOMAIN msgsToDeliver'[r] :
              \/ \E j \in DOMAIN msgsToDeliver[r] :
                   msgsToDeliver'[r][i] = msgsToDeliver[r][j]
              \/ r = q /\ msgsToDeliver'[r][i] = Entry(q, p)
         /\ r # q \/ ~(Len(msgsToDeliver[q]) > 1) =>
              \A i \in DOMAIN msgsToDeliver[r] :
                /\ i \in DOMAIN msgsToDeliver'[r]
                /\ msgsToDeliver'[r][i] = msgsToDeliver[r][i]
         /\ \E i \in DOMAIN msgsToDeliver'[q] : msgsToDeliver'[q][i] = Entry(q, p)
<1> DEFINE s == msgsToDeliver[q]
           m == Entry(q, p)
<1>1. m \in QueuedPayload
  BY DEF Entry, NextNonce, QueuedPayload, EndpointTypeOK
<1>2. s \in Seq(QueuedPayload)
  BY DEF EndpointTypeOK
<1>3. /\ msgsToDeliver'[q] = Enqueue(s, m)
      /\ r # q => msgsToDeliver'[r] = msgsToDeliver[r]
  BY DEF ReceiveQueued, EndpointTypeOK
<1>4. /\ DOMAIN s = 1 .. Len(s) /\ Len(s) \in Nat
      /\ DOMAIN Enqueue(s, m) = DOMAIN s \cup {Len(s) + 1}
  BY <1>1, <1>2, EnqueueIs
<1>5. \A i \in DOMAIN s : Enqueue(s, m)[i] = s[Len(s)]
  BY <1>1, <1>2, EnqueuedAre
<1>6. Enqueue(s, m)[Len(s) + 1] = m
  BY <1>1, <1>2, NewestIsLast
<1>7. \A i \in DOMAIN msgsToDeliver'[q] :
        (\E j \in DOMAIN s : msgsToDeliver'[q][i] = s[j]) \/ msgsToDeliver'[q][i] = m
  BY <1>3, <1>4, <1>5, <1>6
<1>8. ~(Len(s) > 1) =>
        \A i \in DOMAIN s : i \in DOMAIN msgsToDeliver'[q] /\ msgsToDeliver'[q][i] = s[i]
  <2> SUFFICES ASSUME ~(Len(s) > 1), NEW i \in DOMAIN s
               PROVE  i \in DOMAIN msgsToDeliver'[q] /\ msgsToDeliver'[q][i] = s[i]
    OBVIOUS
  <2>1. i = Len(s)
    BY <1>4
  <2> QED
    BY <2>1, <1>3, <1>4, <1>5
<1>9. \E i \in DOMAIN msgsToDeliver'[q] : msgsToDeliver'[q][i] = m
  BY <1>3, <1>4, <1>6
<1> QED
  BY <1>3, <1>7, <1>8, <1>9

LEMMA QueueTailed ==
  ASSUME EndpointTypeOK, NEW q \in Path, DrainQueue(q), NEW r \in Path
  PROVE  /\ \A i \in DOMAIN msgsToDeliver'[r] : \E j \in DOMAIN msgsToDeliver[r] :
              msgsToDeliver'[r][i] = msgsToDeliver[r][j]
         /\ 1 \in DOMAIN msgsToDeliver[q]
         /\ Head(msgsToDeliver[q]) = msgsToDeliver[q][1]
<1> DEFINE s == msgsToDeliver[q]
<1>1. s \in Seq(QueuedPayload) /\ s # <<>>
  BY DEF EndpointTypeOK, DrainQueue
<1>2. /\ msgsToDeliver'[q] = Tail(s)
      /\ r # q => msgsToDeliver'[r] = msgsToDeliver[r]
  BY DEF DrainQueue, EndpointTypeOK
<1>3. \A i \in DOMAIN Tail(s) : i + 1 \in DOMAIN s /\ Tail(s)[i] = s[i + 1]
  BY <1>1
<1>4. 1 \in DOMAIN s /\ Head(s) = s[1]
  BY <1>1
<1> QED
  BY <1>2, <1>3, <1>4

\* What lzReceive may write into failedMessages.
LEMMA LzReceiveFailed ==
  ASSUME NEW o, NEW q, NEW n, NEW p, LzReceive(o, q, n, p), NEW f \in failed'
  PROVE  f \in failed \/ f = [path |-> q, nonce |-> n, payload |-> p]
BY DEF LzReceive, BlockingLzReceive, StoreFailedMessage

LEMMA NoncesType ==
  ASSUME TypeOK
  PROVE  /\ \A q \in Path : inboundNonce[q] \in Nat /\ outboundNonce[q] \in Nat
         /\ \A f \in failed : f.nonce \in Nat /\ f.path \in Path
         /\ \A q \in Path : \A i \in DOMAIN msgsToDeliver[q] :
              msgsToDeliver[q][i].nonce \in Nat
<1>1. ASSUME NEW q \in Path, NEW i \in DOMAIN msgsToDeliver[q]
      PROVE  msgsToDeliver[q][i].nonce \in Nat
  <2>1. msgsToDeliver[q] \in Seq(QueuedPayload)
    BY DEF TypeOK, EndpointTypeOK
  <2>2. msgsToDeliver[q][i] \in QueuedPayload
    BY <2>1
  <2> QED
    BY <2>2 DEF QueuedPayload
<1> QED
  BY <1>1 DEF TypeOK, EndpointTypeOK, FailedMessage

LEMMA SendNonces ==
  ASSUME TypeOK, NInv, NEW q \in Path, NEW by \in User, NEW p \in Payload, Send(q, by, p)
  PROVE  NInv'
<1> DEFINE n == NextNonce(q)
<1>1. /\ resuming = NoPath /\ resuming' = NoPath
      /\ n = inboundNonce[q] + 1 /\ inboundNonce'[q] = n /\ n \in Nat
      /\ \A r \in Path : r # q => inboundNonce'[r] = inboundNonce[r]
  <2>1. TakeNonce(q)
    BY DEF Send, ReceiveQueued, ReceiveBlocked, ReceiveReverted, ReceiveDelivered
  <2> QED
    BY <2>1, NoncesType DEF TakeNonce, TypeOK, EndpointTypeOK
<1>2. \A r \in Path : /\ inboundNonce[r] \in Nat /\ inboundNonce'[r] \in Nat
                      /\ inboundNonce[r] <= inboundNonce'[r]
  BY <1>1, NoncesType
<1>3. DrainedClear'
  BY <1>1, NoPathAssumption DEF DrainedClear
<1>4. QueuedUsed'
  <2> SUFFICES ASSUME NEW r \in Path, NEW i \in DOMAIN msgsToDeliver'[r]
               PROVE  msgsToDeliver'[r][i].nonce <= inboundNonce'[r]
    BY DEF QueuedUsed
  <2>1. \A j \in DOMAIN msgsToDeliver[r] :
          /\ msgsToDeliver[r][j].nonce \in Nat
          /\ msgsToDeliver[r][j].nonce <= inboundNonce[r]
    BY NoncesType DEF NInv, QueuedUsed
  <2>2. CASE ReceiveQueued(q, p)
    <3>1. \/ \E j \in DOMAIN msgsToDeliver[r] :
               msgsToDeliver'[r][i] = msgsToDeliver[r][j]
          \/ r = q /\ msgsToDeliver'[r][i] = Entry(q, p)
      BY <2>2, QueueAppended DEF TypeOK
    <3>2. Entry(q, p).nonce = n
      BY DEF Entry
    <3> HIDE DEF n
    <3> QED
      BY <3>1, <3>2, <2>1, <1>1, <1>2
  <2>3. CASE UNCHANGED msgsToDeliver
    BY <2>1, <2>3, <1>2
  <2> QED
    BY <2>2, <2>3 DEF Send, ReceiveBlocked, ReceiveReverted, ReceiveDelivered, StorePayload
<1>5. FailedUsed'
  <2>1. \A f \in failed : /\ f.nonce \in Nat /\ f.path \in Path
                          /\ f.nonce <= inboundNonce[f.path]
                          /\ storedPayload[f.path] # NoPayload
                               => f.nonce < inboundNonce[f.path]
    BY NoncesType DEF NInv, FailedUsed
  <2>2. \A r \in Path : r # q => storedPayload'[r] = storedPayload[r]
    BY DEF Send, ReceiveQueued, ReceiveBlocked, ReceiveReverted, ReceiveDelivered,
           StorePayload, TypeOK, EndpointTypeOK
  <2>3. \A f \in failed : /\ f.nonce <= inboundNonce'[f.path]
                          /\ storedPayload'[f.path] # NoPayload
                               => f.nonce < inboundNonce'[f.path]
    BY <1>1, <1>2, <2>1, <2>2
  <2>4. CASE UNCHANGED failed
    BY <2>3, <2>4 DEF FailedUsed
  <2>5. CASE ReceiveDelivered(q) /\ LzReceive(Debited(q[1], p), q, n, p)
    <3>1. storedPayload'[q] = NoPayload
      BY <2>5 DEF ReceiveDelivered, PathClear
    <3>2. \A f \in failed' : f \in failed \/ (f.path = q /\ f.nonce = n)
      BY <2>5, LzReceiveFailed
    <3> HIDE DEF n
    <3> QED
      BY <1>1, <2>3, <3>1, <3>2 DEF FailedUsed
  <2> QED
    BY <2>4, <2>5 DEF Send
<1> QED
  BY <1>3, <1>4, <1>5 DEF NInv

LEMMA RetryStoredNonces ==
  ASSUME TypeOK, NInv, NEW q \in Path, RetryStored(q)
  PROVE  NInv'
<1>1. /\ UNCHANGED <<inboundNonce, msgsToDeliver, resuming>>
      /\ storedPayload' = [storedPayload EXCEPT ![q] = NoPayload]
      /\ LzReceive(owner, q, inboundNonce[q], storedPayload[q])
  BY DEF RetryStored, RetryPayload, EmptyStored, RetryNonce
<1>2. \A r \in Path : storedPayload'[r] = IF r = q THEN NoPayload ELSE storedPayload[r]
  BY <1>1 DEF TypeOK, EndpointTypeOK
<1>3. \A f \in failed' : f \in failed \/ (f.path = q /\ f.nonce = inboundNonce[q])
  BY <1>1, LzReceiveFailed
<1>4. FailedUsed'
  BY <1>1, <1>2, <1>3, NoncesType DEF NInv, FailedUsed
<1> QED
  BY <1>1, <1>2, <1>4 DEF NInv, QueuedUsed, DrainedClear

LEMMA DrainNonces ==
  ASSUME TypeOK, NInv, NEW q \in Path, Drain(q)
  PROVE  NInv'
<1> DEFINE m == Head(msgsToDeliver[q])
<1>1. /\ UNCHANGED <<inboundNonce, storedPayload>> /\ DrainQueue(q)
      /\ resuming = q /\ resuming' \in {NoPath, q}
      /\ LzReceive(owner, q, m.nonce, m.payload)
  BY DEF Drain, DrainQueue
<1>2. storedPayload[q] = NoPayload
  BY <1>1 DEF NInv, DrainedClear
<1>3. m.nonce <= inboundNonce[q]
  BY <1>1, QueueTailed DEF NInv, QueuedUsed, TypeOK
<1>4. \A f \in failed' : f \in failed \/ (f.path = q /\ f.nonce = m.nonce)
  BY <1>1, LzReceiveFailed
<1>5. FailedUsed'
  <2> HIDE DEF m
  <2> QED
    BY <1>1, <1>2, <1>3, <1>4 DEF NInv, FailedUsed
<1>6. QueuedUsed'
  <2> SUFFICES ASSUME NEW r \in Path, NEW i \in DOMAIN msgsToDeliver'[r]
               PROVE  msgsToDeliver'[r][i].nonce <= inboundNonce'[r]
    BY DEF QueuedUsed
  <2>1. PICK j \in DOMAIN msgsToDeliver[r] : msgsToDeliver'[r][i] = msgsToDeliver[r][j]
    BY <1>1, QueueTailed DEF TypeOK
  <2> QED
    BY <1>1, <2>1 DEF NInv, QueuedUsed
<1>7. DrainedClear'
  BY <1>1, <1>2, NoPathAssumption DEF DrainedClear
<1> QED
  BY <1>5, <1>6, <1>7 DEF NInv

LEMMA StepNonces ==
  ASSUME TypeOK, NInv, [Next]_vars
  PROVE  NInv'
<1>1. ASSUME UNCHANGED endpointVars, failed' \subseteq failed PROVE NInv'
  BY <1>1 DEF NInv, FailedUsed, QueuedUsed, DrainedClear, endpointVars
<1>2. ASSUME NEW q \in Path, PathNext(q) PROVE NInv'
  <2>1. ASSUME ForceResume(q) PROVE NInv'
    <3>1. /\ UNCHANGED <<inboundNonce, msgsToDeliver, failed>>
          /\ storedPayload' = [storedPayload EXCEPT ![q] = NoPayload]
          /\ resuming' \in {NoPath, q}
      BY <2>1 DEF ForceResume, ForceResumeReceive, EmptyStored, appVars
    <3>2. \A r \in Path : storedPayload'[r] = IF r = q THEN NoPayload ELSE storedPayload[r]
      BY <3>1 DEF TypeOK, EndpointTypeOK
    <3> QED
      BY <3>1, <3>2, NoncesType, NoPathAssumption DEF NInv, FailedUsed, QueuedUsed, DrainedClear
  <2>2. SetTrustedRemote(q[1], q[2]) \/ UnsetTrustedRemote(q[1], q[2])
          => UNCHANGED endpointVars /\ failed' \subseteq failed
    BY DEF SetTrustedRemote, UnsetTrustedRemote
  <2> QED
    BY <1>1, <1>2, <2>1, <2>2, SendNonces, RetryStoredNonces, DrainNonces DEF PathNext
<1>3. ASSUME NEW c \in Chain, NEW t \in Token, TokenNext(c, t) PROVE NInv'
  BY <1>1, <1>3 DEF TokenNext, TransferFrom, Approve
<1>4. ASSUME NEW f \in failed, RetryMessage(f) PROVE NInv'
  BY <1>1, <1>4 DEF RetryMessage, WithoutFailed
<1>5. ASSUME NEW cr \in credits, NEW k \in DOMAIN cr.payload.ids, ClearCredits(cr, k)
      PROVE  NInv'
  BY <1>1, <1>5 DEF ClearCredits
<1>6. ASSUME NEW c \in Chain, BlockNext(c) PROVE NInv'
  BY <1>6 DEF BlockNext, BlockNextMsg, appVars, NInv, FailedUsed, QueuedUsed, DrainedClear
<1>7. ASSUME UNCHANGED vars PROVE NInv'
  BY <1>1, <1>7 DEF vars, appVars
<1> QED
  BY <1>2, <1>3, <1>4, <1>5, <1>6, <1>7 DEF Next

LEMMA Inductive == Spec => [](KInv /\ NInv)
<1>1. Init => NInv
  <2> SUFFICES ASSUME Init PROVE NInv
    OBVIOUS
  <2>1. failed = {} /\ \A q \in Path : storedPayload[q] = NoPayload
                                       /\ DOMAIN msgsToDeliver[q] = {}
    BY DEF Init, EndpointInit
  <2> QED
    BY <2>1 DEF NInv, FailedUsed, QueuedUsed, DrainedClear
<1>2. KInv /\ NInv /\ [Next]_vars => NInv'
  BY StepNonces DEF KInv, IInv
<1> QED
  BY <1>1, <1>2, KInvInductive, PTL DEF Spec

-----------------------------------------------------------------------------
(***************************************************************************)
(* What one step does to one token, in terms of who holds it where and of  *)
(* the destinations of what carries it, at the endpoints and at the        *)
(* applications.                                                           *)
(***************************************************************************)
EndDest(t, x) ==
  \/ \E q \in Path : StoredOn(q, t) /\ x = <<q[2], storedPayload[q].to>>
  \/ \E q \in Path : \E i \in DOMAIN msgsToDeliver[q] :
       /\ t \in Tokens(msgsToDeliver[q][i].payload)
       /\ x = <<q[2], msgsToDeliver[q][i].payload.to>>

AppDest(t, x) ==
  \/ \E f \in failed : t \in Tokens(f.payload) /\ x = <<f.path[2], f.payload.to>>
  \/ \E cr \in credits : t \in Remaining(cr) /\ x = <<cr.at, cr.payload.to>>

Dest(t, x) == EndDest(t, x) \/ AppDest(t, x)

LEMMA DestinationsAre ==
  ASSUME NEW t, NEW x
  PROVE  x \in Destinations(t) <=> Dest(t, x)
<1> DEFINE
  S == {<<q[2], storedPayload[q].to>> : q \in {y \in Path : StoredOn(y, t)}}
  Q == UNION {{<<q[2], msgsToDeliver[q][i].payload.to>> : i \in
                 {y \in DOMAIN msgsToDeliver[q] :
                    t \in Tokens(msgsToDeliver[q][y].payload)}} : q \in Path}
  F == {<<f.path[2], f.payload.to>> : f \in {y \in failed : t \in Tokens(y.payload)}}
  P == {<<cr.at, cr.payload.to>> : cr \in {y \in credits : t \in Remaining(y)}}
<1>1. Destinations(t) = S \cup Q \cup F \cup P
  BY DEF Destinations
<1>2. x \in S <=> \E q \in Path : StoredOn(q, t) /\ x = <<q[2], storedPayload[q].to>>
  OBVIOUS
<1>3. x \in Q <=> \E q \in Path : \E i \in DOMAIN msgsToDeliver[q] :
                    /\ t \in Tokens(msgsToDeliver[q][i].payload)
                    /\ x = <<q[2], msgsToDeliver[q][i].payload.to>>
  OBVIOUS
<1>4. x \in F <=> \E f \in failed : t \in Tokens(f.payload) /\ x = <<f.path[2], f.payload.to>>
  OBVIOUS
<1>5. x \in P <=> \E cr \in credits : t \in Remaining(cr) /\ x = <<cr.at, cr.payload.to>>
  OBVIOUS
<1> HIDE DEF S, Q, F, P
<1> QED
  BY <1>1, <1>2, <1>3, <1>4, <1>5 DEF Dest, EndDest, AppDest

\* A token that was not copied has at most one destination, and none while it
\* is held.
LEMMA OneDestination ==
  ASSUME KInv, NEW t \in Sound
  PROVE  /\ \A x, y : Dest(t, x) /\ Dest(t, y) => x = y
         /\ \A x : Dest(t, x) => x[1] \in Chain /\ ~ AnyHeld(t)
         /\ \A c, d \in Chain : owner[c][t] \in User /\ owner[d][t] \in User => c = d
<1>1. TypeOK /\ OnePlace(t)
  BY DEF KInv, IInv
<1>2. ASSUME NEW x, EndDest(t, x)
      PROVE  AtEndpoints(t) /\ x[1] \in Chain
  BY <1>2, PathEnds DEF EndDest, AtEndpoints, AnyStored, AnyQueued, InQueue
<1>3. ASSUME NEW x, AppDest(t, x)
      PROVE  AtApps(t) /\ x[1] \in Chain /\ (AnyFailed(t) \/ AnyPending(t))
  BY <1>1, <1>3, PathEnds DEF AppDest, AtApps, AnyFailed, AnyPending, TypeOK,
                              FailedMessage, StoredCredit
<1>4. ASSUME NEW x, NEW y, EndDest(t, x), EndDest(t, y) PROVE x = y
  BY <1>1, <1>4 DEF EndDest, OnePlace, OnePlaceAtEndpoints, AnyStored, AnyQueued, InQueue
<1>5. ASSUME NEW x, NEW y, AppDest(t, x), AppDest(t, y) PROVE x = y
  BY <1>1, <1>5 DEF AppDest, OnePlace, OnePlaceAtApps, AnyFailed, AnyPending
<1>6. ~ (AtApps(t) /\ AtEndpoints(t))
  BY <1>1 DEF OnePlace
<1>7. \A x : Dest(t, x) => ~ AnyHeld(t)
  BY <1>1, <1>2, <1>3, <1>6 DEF Dest, OnePlace, OnePlaceAtApps, AtApps
<1>8. \A c, d \in Chain : owner[c][t] \in User /\ owner[d][t] \in User => c = d
  BY <1>1 DEF OnePlace, OnePlaceAtApps
<1> QED
  BY <1>2, <1>3, <1>4, <1>5, <1>6, <1>7, <1>8 DEF Dest

\* Where a message or a stored credit for u on chain d leaves its token t,
\* credited from the ledger o: given to u, or written down again.
Landed(o, d, u, t) ==
  /\ \A c \in Chain : c # d => owner'[c][t] = o[c][t]
  /\ \/ owner'[d][t] = o[d][t] /\ AppDest(t, <<d, u>>)'
     \/ owner'[d][t] = u /\ u \in User \cup {Bridge}

LEMMA CreditGoesTo ==
  ASSUME NEW o, NEW d, NEW p, NEW i, NEW k, CanCreditTill(o, d, p, i, k),
         NEW t \in Slice(p, i, k), p.to \in Holder
  PROVE  p.to \in User \cup {Bridge}
BY DEF CanCreditTill, CanCredit, Unlock, MintOrRelease, Holder

LEMMA NonblockingLands ==
  ASSUME NEW o \in OwnerType, NEW d \in Chain, NEW p \in Payload,
         NonblockingLzReceive(o, d, p), NEW t \in Token, t \in Tokens(p)
  PROVE  Landed(o, d, p.to, t)
<1>1. PICK k \in {0} \cup DOMAIN p.ids :
        /\ CanCreditTill(o, d, p, 0, k)
        /\ owner' = CreditedTill(o, d, p, 0, k)
        /\ credits' = IF Unfinished(p, k) THEN StoreCredit(d, p, k) ELSE credits
  BY DEF NonblockingLzReceive
<1>2. PICK j \in DOMAIN p.ids : p.ids[j] = t
  BY DEF Tokens
<1>3. j \in Nat \ {0} /\ k \in Nat /\ p.to \in Holder
  BY PayloadType
<1>4. \A c \in Chain : owner'[c][t] = IF c = d /\ t \in Slice(p, 0, k) THEN p.to ELSE o[c][t]
  BY <1>1, <1>3, GiveEffect DEF CreditedTill
<1>5. CASE t \in Slice(p, 0, k)
  BY <1>1, <1>3, <1>4, <1>5, CreditGoesTo DEF Landed
<1>6. CASE t \notin Slice(p, 0, k)
  <2> DEFINE new == [at |-> d, payload |-> p, index |-> k]
  <2>1. k < j
    BY <1>2, <1>3, <1>6 DEF Slice
  <2>2. Unfinished(p, k) /\ t \in Remaining(new)
    BY <1>2, <2>1 DEF Unfinished, Remaining
  <2>3. new \in credits'
    BY <1>1, <2>2 DEF StoreCredit
  <2>4. AppDest(t, <<d, p.to>>)'
    BY <2>2, <2>3 DEF AppDest, Remaining
  <2> QED
    BY <1>4, <1>6, <2>4 DEF Landed
<1> QED
  BY <1>5, <1>6

\* It is carried nowhere else than before, or to where it was bound.
LEMMA NonblockingDest ==
  ASSUME NEW o, NEW d, NEW p, NonblockingLzReceive(o, d, p), NEW t, NEW x,
         failed' \subseteq failed, AppDest(t, x)'
  PROVE  AppDest(t, x) \/ (t \in Tokens(p) /\ x = <<d, p.to>>)
<1>1. PICK k : credits' = IF Unfinished(p, k) THEN StoreCredit(d, p, k) ELSE credits
  BY DEF NonblockingLzReceive
<1>2. \A cr \in credits' : cr \in credits \/ (cr.at = d /\ cr.payload = p)
  BY <1>1 DEF StoreCredit
<1>3. \A cr : t \in Remaining(cr) => t \in Tokens(cr.payload)
  BY RemainingAreTokens
<1> QED
  BY <1>2, <1>3 DEF AppDest, Remaining, Tokens

LEMMA LzReceiveLands ==
  ASSUME NEW o \in OwnerType, NEW q \in Path, NEW n, NEW p \in Payload,
         LzReceive(o, q, n, p), NEW t \in Token, t \in Tokens(p)
  PROVE  Landed(o, q[2], p.to, t)
<1>1. CASE NonblockingLzReceive(o, q[2], p)
  BY <1>1, NonblockingLands, PathEnds
<1>2. CASE owner' = o /\ failed' = StoreFailedMessage(q, n, p)
  <2> DEFINE f == [path |-> q, nonce |-> n, payload |-> p]
  <2>1. f \in failed' /\ f.path = q /\ f.payload = p
    BY <1>2 DEF StoreFailedMessage
  <2>2. AppDest(t, <<q[2], p.to>>)'
    <3> HIDE DEF f
    <3> QED
      BY <2>1 DEF AppDest, Tokens
  <2> QED
    BY <1>2, <2>2 DEF Landed
<1> QED
  BY <1>1, <1>2 DEF LzReceive, BlockingLzReceive

LEMMA LzReceiveDest ==
  ASSUME NEW o, NEW q, NEW n, NEW p, LzReceive(o, q, n, p), NEW t, NEW x, AppDest(t, x)'
  PROVE  AppDest(t, x) \/ (t \in Tokens(p) /\ x = <<q[2], p.to>>)
<1>1. CASE NonblockingLzReceive(o, q[2], p) /\ UNCHANGED failed
  BY <1>1, NonblockingDest
<1>2. CASE UNCHANGED credits
  BY <1>2, LzReceiveFailed DEF AppDest, Remaining, Tokens
<1> QED
  BY <1>1, <1>2 DEF LzReceive, BlockingLzReceive

\* A token that the message does not carry stays where the applications had
\* it, unless a failed message with the same path and nonce is written over.
LEMMA LzReceiveOthers ==
  ASSUME NEW o, NEW q, NEW n, NEW p, LzReceive(o, q, n, p), NEW t, NEW x,
         t \notin Tokens(p), AppDest(t, x),
         \A f \in failed : f.path = q => f.nonce # n
  PROVE  AppDest(t, x)'
<1>1. ASSUME NEW f \in failed PROVE f \in failed'
  BY <1>1 DEF LzReceive, BlockingLzReceive, StoreFailedMessage
<1>2. ASSUME NEW cr \in credits, t \in Remaining(cr) PROVE cr \in credits'
  BY <1>2, LzReceiveKeepsCredit DEF LzReceive, BlockingLzReceive
<1> QED
  BY <1>1, <1>2 DEF AppDest, Remaining, Tokens

\* The endpoints: a message that waits is carried, unless it is overwritten in
\* its queue; one that is delivered or dropped no longer is.
LEMMA WaitsDest ==
  ASSUME EndpointTypeOK, NEW q \in Path, NEW p \in Payload,
         ReceiveQueued(q, p) \/ ReceiveBlocked(q, p) \/ ReceiveReverted(q, p),
         NEW t, NEW x
  PROVE  /\ EndDest(t, x)' => EndDest(t, x) \/ (t \in Tokens(p) /\ x = <<q[2], p.to>>)
         /\ t \in Tokens(p) /\ x = <<q[2], p.to>> => EndDest(t, x)'
         /\ EndDest(t, x) => EndDest(t, x)' \/ OverwrittenInQueue(t)
<1>1. CASE ReceiveQueued(q, p)
  <2>1. Entry(q, p).payload = p /\ UNCHANGED storedPayload
    BY <1>1 DEF Entry, ReceiveQueued
  <2>2. ASSUME NEW r \in Path
        PROVE  StoredOn(r, t)' <=> StoredOn(r, t)
    BY <2>1 DEF StoredOn
  <2> DEFINE inQueue == \E r \in Path : \E i \in DOMAIN msgsToDeliver[r] :
                         /\ t \in Tokens(msgsToDeliver[r][i].payload)
                         /\ x = <<r[2], msgsToDeliver[r][i].payload.to>>
             inQueue2 == \E r \in Path : \E i \in DOMAIN msgsToDeliver'[r] :
                         /\ t \in Tokens(msgsToDeliver'[r][i].payload)
                         /\ x = <<r[2], msgsToDeliver'[r][i].payload.to>>
  <2>3. inQueue => inQueue2 \/ OverwrittenInQueue(t)
    <3> SUFFICES ASSUME NEW r \in Path, NEW i \in DOMAIN msgsToDeliver[r],
                        t \in Tokens(msgsToDeliver[r][i].payload),
                        x = <<r[2], msgsToDeliver[r][i].payload.to>>
                 PROVE  inQueue2 \/ OverwrittenInQueue(t)
      OBVIOUS
    <3>1. CASE r # q \/ ~(Len(msgsToDeliver[q]) > 1)
      BY <1>1, <3>1, QueueAppended
    <3>2. CASE r = q /\ Len(msgsToDeliver[q]) > 1
      <4>1. outboundNonce'[q] # outboundNonce[q]
        BY <1>1 DEF ReceiveQueued, TakeNonce, EndpointTypeOK
      <4> QED
        BY <3>2, <4>1 DEF OverwrittenInQueue
    <3> QED
      BY <3>1, <3>2
  <2>4. (t \in Tokens(p) /\ x = <<q[2], p.to>>) => inQueue2
    BY <1>1, <2>1, QueueAppended
  <2>5. inQueue2 => inQueue \/ (t \in Tokens(p) /\ x = <<q[2], p.to>>)
    <3> SUFFICES ASSUME NEW r \in Path, NEW i \in DOMAIN msgsToDeliver'[r],
                        t \in Tokens(msgsToDeliver'[r][i].payload),
                        x = <<r[2], msgsToDeliver'[r][i].payload.to>>
                 PROVE  inQueue \/ (t \in Tokens(p) /\ x = <<q[2], p.to>>)
      OBVIOUS
    <3>1. \/ \E j \in DOMAIN msgsToDeliver[r] :
               msgsToDeliver'[r][i] = msgsToDeliver[r][j]
          \/ r = q /\ msgsToDeliver'[r][i] = Entry(q, p)
      BY <1>1, QueueAppended
    <3> QED
      BY <2>1, <3>1
  <2> QED
    BY <2>1, <2>2, <2>3, <2>4, <2>5 DEF EndDest, Tokens
<1>2. CASE ReceiveBlocked(q, p) \/ ReceiveReverted(q, p)
  <2>1. /\ storedPayload[q] = NoPayload /\ UNCHANGED msgsToDeliver
        /\ \A r \in Path : storedPayload'[r] = IF r = q THEN p ELSE storedPayload[r]
    BY <1>2 DEF ReceiveBlocked, ReceiveReverted, PathClear, StorePayload, EndpointTypeOK
  <2>2. p # NoPayload
    BY NoPayloadAssumption
  <2> QED
    BY <2>1, <2>2 DEF EndDest, StoredOn, Tokens
<1> QED
  BY <1>1, <1>2

LEMMA EmptiedDest ==
  ASSUME EndpointTypeOK, NEW q \in Path,
         storedPayload' = EmptyStored(q), UNCHANGED msgsToDeliver, NEW t, NEW x
  PROVE  /\ EndDest(t, x)' => EndDest(t, x)
         /\ t \notin Tokens(storedPayload[q]) => (EndDest(t, x) <=> EndDest(t, x)')
<1>1. \A r \in Path : storedPayload'[r] = IF r = q THEN NoPayload ELSE storedPayload[r]
  BY DEF EmptyStored, EndpointTypeOK
<1> QED
  BY <1>1 DEF EndDest, StoredOn, Tokens

LEMMA DrainedDest ==
  ASSUME EndpointTypeOK, NEW q \in Path, DrainQueue(q), NEW t, NEW x, EndDest(t, x)'
  PROVE  EndDest(t, x)
<1>1. UNCHANGED storedPayload
  BY DEF DrainQueue
<1>2. \A r \in Path : \A i \in DOMAIN msgsToDeliver'[r] : \E j \in DOMAIN msgsToDeliver[r] :
        msgsToDeliver'[r][i] = msgsToDeliver[r][j]
  BY QueueTailed
<1> QED
  BY <1>1, <1>2 DEF EndDest, StoredOn, Tokens

-----------------------------------------------------------------------------
\* The five things that can happen to a token in one step.
SameOwners(t) == \A c \in Chain : owner'[c][t] = owner[c][t]

Stays(t)  == SameOwners(t) /\ \A x : Dest(t, x)' <=> Dest(t, x)
Drops(t)  == SameOwners(t) /\ \A x : Dest(t, x)' => Dest(t, x)

\* What carried it reached its destination, or came closer.
Lands(t) ==
  \E d \in Chain : \E u :
    /\ Dest(t, <<d, u>>)
    /\ \A c \in Chain : c # d => owner'[c][t] = owner[c][t]
    /\ \/ owner'[d][t] = owner[d][t] /\ Dest(t, <<d, u>>)'
       \/ owner'[d][t] = u /\ u \in User \cup {Bridge}
    /\ \A x : Dest(t, x)' => x = <<d, u>>

\* It was sent from c to u on d, and perhaps arrived there.
Departs(t, c, d, u) ==
  /\ c # d
  /\ owner[c][t] \in User
  /\ \A e \in Chain : e # d => owner'[e][t] \notin User
  /\ \/ owner'[d][t] \notin User /\ Dest(t, <<d, u>>)'
     \/ owner'[d][t] = u /\ u \in User \cup {Bridge}
  /\ \A x : Dest(t, x)' => x = <<d, u>>

\* It changed hands on chain c.
Moves(t, c, u) ==
  /\ owner[c][t] \in User /\ owner'[c][t] = u /\ u \in User \cup {Bridge}
  /\ \A e \in Chain : e # c => owner'[e][t] = owner[e][t]
  /\ \A x : Dest(t, x)' <=> Dest(t, x)

\* From here a landing is a landing on what was the only destination.
LEMMA LandedLands ==
  ASSUME KInv, NEW t \in Sound, NEW d \in Chain, NEW u, Dest(t, <<d, u>>),
         Landed(owner, d, u, t),
         \A x : EndDest(t, x)' => EndDest(t, x),
         \A x : AppDest(t, x)' => AppDest(t, x) \/ x = <<d, u>>
  PROVE  Lands(t)
<1>1. \A x : Dest(t, x)' => x = <<d, u>>
  BY OneDestination DEF Dest
<1>2. AppDest(t, <<d, u>>)' => Dest(t, <<d, u>>)'
  BY DEF Dest, EndDest, AppDest
<1> QED
  BY <1>1, <1>2 DEF Lands, Landed

LEMMA SendMoves ==
  ASSUME KInv, NInv, NEW q \in Path, NEW by \in User, NEW p \in Payload,
         Send(q, by, p), NEW t \in Sound
  PROVE  /\ t \notin Tokens(p) => Stays(t) \/ (Drops(t) /\ OverwrittenInQueue(t))
         /\ t \in Tokens(p) => Departs(t, q[1], q[2], p.to)
<1> DEFINE o == Debited(q[1], p)
           n == NextNonce(q)
<1>1. /\ TypeOK /\ EndpointTypeOK /\ o \in OwnerType /\ q[1] \in Chain /\ q[2] \in Chain
      /\ q[1] # q[2] /\ t \in Token
  BY GiveType, PathEnds DEF KInv, IInv, TypeOK, Debited, OwnerType, Holder, Sound
<1>2. \A c \in Chain :
        o[c][t] = IF c = q[1] /\ t \in Tokens(p) THEN Bridge ELSE owner[c][t]
  <2>1. owner \in OwnerType /\ Bridge \in Holder
    BY <1>1 DEF TypeOK, OwnerType, Holder
  <2> QED BY <1>1, <2>1, GiveEffect DEF Debited
<1>3. t \in Tokens(p) => owner[q[1]][t] \in User
  BY <1>1, HomeAssumption DEF Send, CanDebit, ProxyCanDebit, OnftCanDebit
<1>4. t \in Tokens(p) => \A x : ~ Dest(t, x)
  BY <1>1, <1>3, OneDestination DEF AnyHeld
<1>5. t \in Tokens(p) => \A c \in Chain : o[c][t] \notin User
  BY <1>1, <1>2, <1>3, OneDestination, HolderAssumption
<1>6. CASE /\ ReceiveQueued(q, p) \/ ReceiveBlocked(q, p) \/ ReceiveReverted(q, p)
           /\ owner' = o /\ UNCHANGED <<credits, failed>>
  <2>1. \A x : AppDest(t, x)' <=> AppDest(t, x)
    BY <1>6 DEF AppDest, Remaining, Tokens
  <2>2. \A x :
          /\ EndDest(t, x)' => EndDest(t, x) \/ (t \in Tokens(p) /\ x = <<q[2], p.to>>)
          /\ t \in Tokens(p) /\ x = <<q[2], p.to>> => EndDest(t, x)'
          /\ EndDest(t, x) => EndDest(t, x)' \/ OverwrittenInQueue(t)
    BY <1>1, <1>6, WaitsDest
  <2>3. \A x :
          /\ Dest(t, x)' => Dest(t, x) \/ (t \in Tokens(p) /\ x = <<q[2], p.to>>)
          /\ t \in Tokens(p) /\ x = <<q[2], p.to>> => Dest(t, x)'
          /\ Dest(t, x) => Dest(t, x)' \/ OverwrittenInQueue(t)
    BY <2>1, <2>2 DEF Dest
  <2>4. t \notin Tokens(p) => Stays(t) \/ (Drops(t) /\ OverwrittenInQueue(t))
    BY <1>2, <1>6, <2>3 DEF Stays, Drops, SameOwners
  <2>5. t \in Tokens(p) => Departs(t, q[1], q[2], p.to)
    BY <1>1, <1>3, <1>4, <1>5, <1>6, <2>3 DEF Departs
  <2> QED
    BY <2>4, <2>5
<1>7. CASE ReceiveDelivered(q) /\ LzReceive(o, q, n, p)
  <2>1. \A x : EndDest(t, x)' <=> EndDest(t, x)
    BY <1>7 DEF ReceiveDelivered, EndDest, StoredOn, Tokens
  <2>2. \A x : AppDest(t, x)' => AppDest(t, x) \/ (t \in Tokens(p) /\ x = <<q[2], p.to>>)
    BY <1>7, LzReceiveDest
  <2>3. t \notin Tokens(p) => Stays(t)
    <3>1. \A f \in failed : f.path = q => f.nonce # n
      <4>1. n = inboundNonce[q] + 1
        BY <1>7 DEF ReceiveDelivered, TakeNonce
      <4> QED
        BY <1>1, <4>1, NoncesType DEF NInv, FailedUsed
    <3>2. ASSUME t \notin Tokens(p) PROVE \A x : AppDest(t, x) => AppDest(t, x)'
      BY <1>7, <3>1, <3>2, LzReceiveOthers
    <3>3. ASSUME t \notin Tokens(p) PROVE \A c \in Chain : owner'[c][t] = owner[c][t]
      BY <1>1, <1>2, <1>7, <3>3, LzReceiveElsewhere
    <3> QED
      BY <2>1, <2>2, <3>2, <3>3 DEF Stays, SameOwners, Dest
  <2>4. ASSUME t \in Tokens(p) PROVE Departs(t, q[1], q[2], p.to)
    <3>1. Landed(o, q[2], p.to, t)
      BY <1>1, <1>7, <2>4, LzReceiveLands
    <3>2. \A x : Dest(t, x)' => x = <<q[2], p.to>>
      BY <1>4, <2>1, <2>2, <2>4 DEF Dest
    <3>3. \A e \in Chain : e # q[2] => owner'[e][t] \notin User
      BY <1>5, <2>4, <3>1 DEF Landed
    <3>4. \/ owner'[q[2]][t] \notin User /\ Dest(t, <<q[2], p.to>>)'
          \/ owner'[q[2]][t] = p.to /\ p.to \in User \cup {Bridge}
      <4>1. AppDest(t, <<q[2], p.to>>)' => Dest(t, <<q[2], p.to>>)'
        BY DEF Dest, EndDest, AppDest
      <4> QED
        BY <1>1, <1>5, <2>4, <3>1, <4>1 DEF Landed
    <3> QED
      BY <1>1, <1>3, <2>4, <3>2, <3>3, <3>4 DEF Departs
  <2> QED
    BY <2>3, <2>4
<1> QED
  BY <1>6, <1>7 DEF Send

LEMMA RetryStoredMoves ==
  ASSUME KInv, NInv, NEW q \in Path, RetryStored(q), NEW t \in Sound
  PROVE  Stays(t) \/ Lands(t)
<1>1. /\ TypeOK /\ EndpointTypeOK /\ owner \in OwnerType
      /\ storedPayload[q] # NoPayload /\ storedPayload[q] \in Payload
      /\ storedPayload' = EmptyStored(q) /\ UNCHANGED msgsToDeliver
      /\ LzReceive(owner, q, inboundNonce[q], storedPayload[q])
      /\ t \in Token
  BY WaitingMessages DEF KInv, IInv, Sound, TypeOK, OwnerType, RetryStored, RetryPayload, RetryNonce
<1>2. PICK p \in Payload : p = storedPayload[q]
  BY <1>1
<1>3. \A x : /\ EndDest(t, x)' => EndDest(t, x)
             /\ t \notin Tokens(p) => (EndDest(t, x) <=> EndDest(t, x)')
  BY <1>1, <1>2, EmptiedDest
<1>4. \A x : AppDest(t, x)' => AppDest(t, x) \/ (t \in Tokens(p) /\ x = <<q[2], p.to>>)
  BY <1>1, <1>2, LzReceiveDest
<1>5. CASE t \notin Tokens(p)
  <2>1. \A f \in failed : f.path = q => f.nonce # inboundNonce[q]
    BY <1>1, NoncesType DEF NInv, FailedUsed
  <2>2. \A x : AppDest(t, x) => AppDest(t, x)'
    BY <1>1, <1>2, <1>5, <2>1, LzReceiveOthers
  <2>3. SameOwners(t)
    BY <1>1, <1>2, <1>5, LzReceiveElsewhere DEF SameOwners
  <2>4. \A x : Dest(t, x)' <=> Dest(t, x)
    BY <1>3, <1>4, <1>5, <2>2 DEF Dest
  <2> QED
    BY <2>3, <2>4 DEF Stays
<1>6. CASE t \in Tokens(p)
  <2>1. Dest(t, <<q[2], p.to>>)
    BY <1>1, <1>2, <1>6 DEF Dest, EndDest, StoredOn
  <2>2. Landed(owner, q[2], p.to, t)
    BY <1>1, <1>2, <1>6, LzReceiveLands
  <2> QED
    BY <1>3, <1>4, <2>1, <2>2, LandedLands, PathEnds
<1> QED
  BY <1>5, <1>6

LEMMA DrainMoves ==
  ASSUME KInv, NInv, NEW q \in Path, Drain(q), NEW t \in Sound
  PROVE  Drops(t) \/ Lands(t)
<1>1. /\ TypeOK /\ EndpointTypeOK /\ owner \in OwnerType /\ DrainQueue(q)
      /\ Head(msgsToDeliver[q]).payload \in Payload /\ t \in Token
  BY WaitingMessages DEF KInv, IInv, Sound, TypeOK, OwnerType, Drain
<1>2. PICK n, p : /\ n = Head(msgsToDeliver[q]).nonce
                  /\ p = Head(msgsToDeliver[q]).payload
  OBVIOUS
<1>3. LzReceive(owner, q, n, p) /\ p \in Payload
  BY <1>1, <1>2 DEF Drain
<1>4. \A x : EndDest(t, x)' => EndDest(t, x)
  BY <1>1, DrainedDest
<1>5. \A x : AppDest(t, x)' => AppDest(t, x) \/ (t \in Tokens(p) /\ x = <<q[2], p.to>>)
  BY <1>3, LzReceiveDest
<1>6. CASE t \notin Tokens(p)
  <2>1. SameOwners(t)
    BY <1>1, <1>3, <1>6, LzReceiveElsewhere DEF SameOwners
  <2> QED
    BY <1>4, <1>5, <1>6, <2>1 DEF Drops, Dest
<1>7. CASE t \in Tokens(p)
  <2>1. Dest(t, <<q[2], p.to>>)
    BY <1>1, <1>2, <1>7, QueueTailed DEF Dest, EndDest
  <2>2. Landed(owner, q[2], p.to, t)
    BY <1>1, <1>3, <1>7, LzReceiveLands
  <2> QED
    BY <1>4, <1>5, <2>1, <2>2, LandedLands, PathEnds
<1> QED
  BY <1>6, <1>7

LEMMA RetryMessageMoves ==
  ASSUME KInv, NEW f \in failed, RetryMessage(f), NEW t \in Sound
  PROVE  Stays(t) \/ Lands(t)
<1> DEFINE p == f.payload
           d == f.path[2]
<1>1. /\ owner \in OwnerType /\ p \in Payload /\ d \in Chain
      /\ NonblockingLzReceive(owner, d, p) /\ failed' = failed \ {f}
      /\ UNCHANGED endpointVars /\ t \in Token
  BY PathEnds DEF KInv, IInv, Sound, TypeOK, FailedMessage, OwnerType, RetryMessage, WithoutFailed
<1>2. \A x : EndDest(t, x)' <=> EndDest(t, x)
  BY <1>1 DEF endpointVars, EndDest, StoredOn, Tokens
<1>3. \A x : AppDest(t, x)' => AppDest(t, x) \/ (t \in Tokens(p) /\ x = <<d, p.to>>)
  BY <1>1, NonblockingDest
<1>4. CASE t \notin Tokens(p)
  <2>1. \A g \in failed : t \in Tokens(g.payload) => g \in failed'
    BY <1>1, <1>4
  <2>2. \A cr \in credits : t \in Remaining(cr) => cr \in credits'
    BY <1>1, <1>4, LzReceiveKeepsCredit
  <2>3. \A x : AppDest(t, x) => AppDest(t, x)'
    BY <2>1, <2>2 DEF AppDest, Remaining, Tokens
  <2>4. SameOwners(t)
    BY <1>1, <1>4, NonblockingElsewhere DEF SameOwners
  <2> QED
    BY <1>2, <1>3, <1>4, <2>3, <2>4 DEF Stays, Dest
<1>5. CASE t \in Tokens(p)
  <2>1. Dest(t, <<d, p.to>>)
    BY <1>5 DEF Dest, AppDest
  <2>2. Landed(owner, d, p.to, t)
    BY <1>1, <1>5, NonblockingLands
  <2> QED
    BY <1>1, <1>2, <1>3, <2>1, <2>2, LandedLands
<1> QED
  BY <1>4, <1>5

LEMMA ClearCreditsMoves ==
  ASSUME KInv, NEW dr \in credits, NEW k \in DOMAIN dr.payload.ids, ClearCredits(dr, k),
         NEW t \in Sound
  PROVE  Stays(t) \/ Lands(t)
<1> DEFINE p == dr.payload
           d == dr.at
           i == dr.index
           new == [at |-> d, payload |-> p, index |-> k]
<1>1. /\ owner \in OwnerType /\ p \in Payload /\ d \in Chain /\ i \in Nat
      /\ UNCHANGED <<endpointVars, failed>>
      /\ CanCreditTill(owner, d, p, i, k)
      /\ owner' = CreditedTill(owner, d, p, i, k) /\ t \in Token
  BY DEF KInv, IInv, Sound, TypeOK, StoredCredit, OwnerType, ClearCredits
<1>2. k \in Nat /\ i < k /\ p.to \in Holder /\ DOMAIN p.ids \subseteq Nat
  BY <1>1, PayloadType DEF ClearCredits
<1>3. \A x : EndDest(t, x)' <=> EndDest(t, x)
  BY <1>1 DEF endpointVars, EndDest, StoredOn, Tokens
<1>4. \A cr \in credits' : cr \in credits \/ cr = new
  BY DEF ClearCredits, StoreCredit, WithoutCredit
<1>5. t \in Remaining(new) => t \in Remaining(dr)
  BY <1>1, <1>2 DEF Remaining
<1>6. \A x : AppDest(t, x)' => AppDest(t, x)
  BY <1>1, <1>4, <1>5 DEF AppDest, Remaining, Tokens
<1>7. \A c \in Chain :
        owner'[c][t] = IF c = d /\ t \in Slice(p, i, k) THEN p.to ELSE owner[c][t]
  BY <1>1, <1>2, GiveEffect DEF CreditedTill
<1>8. CASE t \notin Remaining(dr)
  <2>1. t \notin Slice(p, i, k)
    BY <1>8 DEF Slice, Remaining
  <2>2. \A cr \in credits : t \in Remaining(cr) => cr \in credits'
    BY <1>8, LzReceiveKeepsCredit DEF KInv, OnePerKey, ClearCredits, StoreCredit, WithoutCredit
  <2>3. \A x : AppDest(t, x) => AppDest(t, x)'
    BY <1>1, <2>2 DEF AppDest, Remaining, Tokens
  <2> QED
    BY <1>3, <1>6, <1>7, <2>1, <2>3 DEF Stays, SameOwners, Dest
<1>9. CASE t \in Remaining(dr)
  <2>1. Dest(t, <<d, p.to>>)
    BY <1>9 DEF Dest, AppDest
  <2>2. Landed(owner, d, p.to, t)
    <3>1. CASE t \in Slice(p, i, k)
      BY <1>1, <1>2, <1>7, <3>1, CreditGoesTo DEF Landed
    <3>2. CASE t \notin Slice(p, i, k)
      <4>1. PICK j \in DOMAIN p.ids : i < j /\ p.ids[j] = t
        BY <1>9 DEF Remaining
      <4>2. k < j
        BY <1>2, <3>2, <4>1 DEF Slice
      <4>3. new \in credits' /\ t \in Remaining(new)
        BY <4>1, <4>2 DEF ClearCredits, Unfinished, StoreCredit, Remaining
      <4>4. AppDest(t, <<d, p.to>>)'
        BY <4>3 DEF AppDest, Remaining
      <4> QED
        BY <1>1, <1>7, <3>2, <4>4 DEF Landed
    <3> QED
      BY <3>1, <3>2
  <2> QED
    BY <1>1, <1>3, <1>6, <2>1, <2>2, LandedLands
<1> QED
  BY <1>8, <1>9

\* What touches neither owners nor messages, and what only drops a message.
LEMMA OthersStay ==
  ASSUME TypeOK, NEW t,
         \/ \E q \in Path : SetTrustedRemote(q[1], q[2]) \/ UnsetTrustedRemote(q[1], q[2])
         \/ \E c \in Chain : BlockNext(c)
         \/ \E c \in Chain, x \in Token, u \in Holder : Approve(c, x, u)
         \/ UNCHANGED vars
  PROVE  Stays(t)
<1>1. UNCHANGED <<owner, credits, failed, storedPayload, msgsToDeliver>>
  BY DEF SetTrustedRemote, UnsetTrustedRemote, BlockNext, BlockNextMsg, Approve,
         vars, appVars, endpointVars
<1> QED
  BY <1>1 DEF Stays, SameOwners, Dest, EndDest, AppDest, StoredOn, Tokens, Remaining

LEMMA ForceResumeDrops ==
  ASSUME TypeOK, NEW q \in Path, ForceResume(q), NEW t
  PROVE  Drops(t)
<1>1. /\ UNCHANGED <<owner, credits, failed, msgsToDeliver>>
      /\ storedPayload' = EmptyStored(q)
  BY DEF ForceResume, ForceResumeReceive, appVars
<1>2. \A x : EndDest(t, x)' => EndDest(t, x)
  BY <1>1, EmptiedDest DEF TypeOK
<1> QED
  BY <1>1, <1>2 DEF Drops, SameOwners, Dest, AppDest, Remaining, Tokens

LEMMA TransferMoves ==
  ASSUME TypeOK, NEW c \in Chain, NEW x \in Token, NEW u \in Holder, TransferFrom(c, x, u),
         NEW t \in Token
  PROVE  Stays(t) \/ (t = x /\ Moves(t, c, u))
<1>1. /\ owner \in OwnerType /\ owner[c][x] \in User /\ u \in User \cup {Bridge}
      /\ owner' = Give(owner, c, {x}, u)
      /\ UNCHANGED <<endpointVars, credits, failed>>
  BY DEF TransferFrom, TypeOK, OwnerType
<1>2. \A y : Dest(t, y)' <=> Dest(t, y)
  BY <1>1 DEF endpointVars, Dest, EndDest, AppDest, StoredOn, Tokens, Remaining
<1>3. \A d \in Chain : owner'[d][t] = IF d = c /\ t = x THEN u ELSE owner[d][t]
  BY <1>1, GiveEffect
<1> QED
  BY <1>1, <1>2, <1>3 DEF Stays, SameOwners, Moves

-----------------------------------------------------------------------------
\* A token that was held or carried vanishes from the bridge only where a
\* drop, or the application as recipient, lets it.
LEMMA Vanishing ==
  ASSUME NEW t
  PROVE  Claimed(t) <=> AnyHeld(t) \/ \E x : Dest(t, x)
<1>1. (\E x : Dest(t, x)) <=>
        \/ \E q \in Path : StoredOn(q, t)
        \/ \E q \in Path : \E i \in DOMAIN msgsToDeliver[q] :
             t \in Tokens(msgsToDeliver[q][i].payload)
        \/ \E f \in failed : t \in Tokens(f.payload)
        \/ \E cr \in credits : t \in Remaining(cr)
  BY DEF Dest, EndDest, AppDest
<1> QED
  BY <1>1 DEF Claimed, AnyHeld

\* The steps, sorted by what they do to t.
StepKind(t) ==
  \/ Stays(t) \/ Lands(t)
  \/ Drops(t) /\ \E q \in Path : ForceResume(q) \/ Drain(q)
  \/ Drops(t) /\ OverwrittenInQueue(t)
  \/ \E q \in Path, by \in User, p \in Payload :
       /\ Send(q, by, p) /\ t \in Tokens(p)
       /\ Departs(t, q[1], q[2], p.to)
  \/ \E c \in Chain, u \in Holder : TransferFrom(c, t, u) /\ Moves(t, c, u)

LEMMA StepsSorted ==
  ASSUME KInv, NInv, [Next]_vars, NEW t \in Sound
  PROVE  StepKind(t)
<1>1. TypeOK /\ t \in Token
  BY DEF KInv, IInv, Sound
<1>2. ASSUME NEW q \in Path, PathNext(q) PROVE StepKind(t)
  <2>1. ASSUME NEW by \in User, NEW p \in Payload, Send(q, by, p) PROVE StepKind(t)
    BY <2>1, SendMoves DEF StepKind
  <2>2. ASSUME RetryStored(q) PROVE StepKind(t)
    BY <2>2, RetryStoredMoves DEF StepKind
  <2>3. ASSUME Drain(q) PROVE StepKind(t)
    BY <2>3, DrainMoves DEF StepKind
  <2>4. ASSUME ForceResume(q) PROVE StepKind(t)
    BY <1>1, <2>4, ForceResumeDrops DEF StepKind
  <2>5. ASSUME SetTrustedRemote(q[1], q[2]) \/ UnsetTrustedRemote(q[1], q[2])
        PROVE  StepKind(t)
    BY <1>1, <2>5, OthersStay DEF StepKind
  <2> QED
    BY <1>2, <2>1, <2>2, <2>3, <2>4, <2>5 DEF PathNext
<1>3. ASSUME NEW c \in Chain, NEW x \in Token, TokenNext(c, x) PROVE StepKind(t)
  <2>1. ASSUME NEW u \in Holder, TransferFrom(c, x, u) PROVE StepKind(t)
    BY <1>1, <2>1, TransferMoves DEF StepKind
  <2>2. ASSUME NEW u \in Holder, Approve(c, x, u) PROVE StepKind(t)
    BY <1>1, <2>2, OthersStay DEF StepKind
  <2> QED
    BY <1>3, <2>1, <2>2 DEF TokenNext
<1>4. ASSUME NEW f \in failed, RetryMessage(f) PROVE StepKind(t)
  BY <1>4, RetryMessageMoves DEF StepKind
<1>5. ASSUME NEW cr \in credits, NEW k \in DOMAIN cr.payload.ids, ClearCredits(cr, k)
      PROVE  StepKind(t)
  BY <1>5, ClearCreditsMoves DEF StepKind
<1>6. ASSUME NEW c \in Chain, BlockNext(c) PROVE StepKind(t)
  BY <1>1, <1>6, OthersStay DEF StepKind
<1>7. ASSUME UNCHANGED vars PROVE StepKind(t)
  BY <1>1, <1>7, OthersStay DEF StepKind
<1> QED
  BY <1>2, <1>3, <1>4, <1>5, <1>6, <1>7 DEF Next

LEMMA KNext == KInv /\ [Next]_vars => KInv'
BY StepIInv, StepKeeps, StepApproval DEF KInv, IInv

\* The last claim on a token that was not copied vanishes only in a
\* forceResumeReceive, or because its message was overwritten in a queue, or
\* because the token was given or sent to an application.
THEOREM NothingLostByAccident == Spec => LostInThreeWays
<1> DEFINE
  NotLost == \A t \in Sound : Claimed(t) /\ ~ Claimed(t)' =>
               \/ \E q \in Path : ForceResume(q) \/ Drain(q)
               \/ OverwrittenInQueue(t)
               \/ \E c \in Chain : TransferFrom(c, t, Bridge)
               \/ SentToBridge(t)
<1>1. KInv /\ NInv /\ [Next]_vars => [NotLost]_vars
  <2> SUFFICES ASSUME KInv, NInv, Next, NEW t \in Sound,
                      Claimed(t), ~ Claimed(t)'
               PROVE  \/ \E q \in Path : ForceResume(q) \/ Drain(q)
                      \/ OverwrittenInQueue(t)
                      \/ \E c \in Chain : TransferFrom(c, t, Bridge)
                      \/ SentToBridge(t)
    OBVIOUS
  <2>1. AnyHeld(t) \/ \E x : Dest(t, x)
    BY Vanishing
  <2>2. ~ AnyHeld(t)' /\ \A x : ~ Dest(t, x)'
    <3>1. Claimed(t)' <=> (AnyHeld(t) \/ \E x : Dest(t, x))'
      BY Vanishing, PTL
    <3> QED
      BY <3>1
  <2>3. StepKind(t)
    BY StepsSorted
  <2>4. ASSUME Stays(t) PROVE FALSE
    BY <2>1, <2>2, <2>4 DEF Stays, SameOwners, AnyHeld
  <2>5. ASSUME Lands(t) PROVE SentToBridge(t)
    <3>1. \E d \in Chain : \E u : /\ Dest(t, <<d, u>>)
                                  /\ owner'[d][t] = u /\ u \in User \cup {Bridge}
      BY <2>2, <2>5 DEF Lands
    <3>2. PICK d \in Chain : \E u : /\ Dest(t, <<d, u>>)
                                   /\ owner'[d][t] = u /\ u \in User \cup {Bridge}
      BY <3>1
    <3>3. PICK u : /\ Dest(t, <<d, u>>)
                  /\ owner'[d][t] = u /\ u \in User \cup {Bridge}
      BY <3>2
    <3>4. u = Bridge
      BY <2>2, <3>3 DEF AnyHeld
    <3> QED
      BY <3>3, <3>4, DestinationsAre DEF SentToBridge
  <2>6. ASSUME NEW q \in Path, NEW by \in User, NEW p \in Payload,
               Send(q, by, p), t \in Tokens(p), Departs(t, q[1], q[2], p.to)
        PROVE  SentToBridge(t)
    <3>1. owner'[q[2]][t] = p.to /\ p.to \in User \cup {Bridge}
      BY <2>2, <2>6 DEF Departs
    <3>2. p.to = Bridge
      BY <2>2, <3>1, PathEnds DEF AnyHeld
    <3> QED
      BY <2>6, <3>2 DEF SentToBridge
  <2>7. ASSUME NEW c \in Chain, NEW u \in Holder, TransferFrom(c, t, u), Moves(t, c, u)
        PROVE  TransferFrom(c, t, Bridge)
    <3>1. u = Bridge
      BY <2>2, <2>7 DEF Moves, AnyHeld
    <3> QED
      BY <2>7, <3>1
  <2> QED
    BY <2>3, <2>4, <2>5, <2>6, <2>7 DEF StepKind
<1> QED
  BY <1>1, Inductive, PTL DEF Spec, LostInThreeWays

-----------------------------------------------------------------------------
(***************************************************************************)
(* What FailedMessageKept asks does not hold, by one kind of step only.    *)
(* A message that is stored as failed either has its tokens credited or    *)
(* kept as a stored credit, or the drain loop of forceResumeReceive writes *)
(* over it with a message of its path that has its nonce.                  *)
(***************************************************************************)
Handed(f) ==
  \A t \in Tokens(f.payload) :
    \/ owner'[f.path[2]][t] = f.payload.to
    \/ \E cr \in credits' : /\ cr.at = f.path[2]
                            /\ cr.payload = f.payload
                            /\ t \in Remaining(cr)

Overwritten(f) == Drain(f.path) /\ Head(msgsToDeliver[f.path]).nonce = f.nonce

FailedOnlyOverwritten ==
  [][\A f \in failed \ failed' : Handed(f) \/ Overwritten(f)]_vars

\* Of what was written down, lzReceive writes over an entry with its nonce only.
LEMMA LzReceiveOverwrites ==
  ASSUME NEW o, NEW q, NEW n, NEW p, LzReceive(o, q, n, p), NEW f \in failed \ failed'
  PROVE  f.path = q /\ f.nonce = n
BY DEF LzReceive, BlockingLzReceive, StoreFailedMessage

\* The inner call credits each token of the payload or stores a credit for it.
LEMMA NonblockingHands ==
  ASSUME NEW o \in OwnerType, NEW d \in Chain, NEW p \in Payload,
         NonblockingLzReceive(o, d, p), NEW t \in Tokens(p)
  PROVE  \/ owner'[d][t] = p.to
         \/ \E cr \in credits' : cr.at = d /\ cr.payload = p /\ t \in Remaining(cr)
<1>1. PICK k \in {0} \cup DOMAIN p.ids :
        /\ owner' = CreditedTill(o, d, p, 0, k)
        /\ credits' = IF Unfinished(p, k) THEN StoreCredit(d, p, k) ELSE credits
  BY DEF NonblockingLzReceive
<1>2. PICK j \in DOMAIN p.ids : t = p.ids[j]
  BY DEF Tokens
<1>3. j \in Nat \ {0} /\ k \in Nat /\ t \in Token
  BY <1>2, PayloadType
<1>4. CASE j <= k
  <2>1. t \in Slice(p, 0, k)
    BY <1>2, <1>3, <1>4 DEF Slice
  <2> QED
    BY <1>1, <1>3, <2>1, GiveEffect, PayloadType DEF CreditedTill
<1>5. CASE k < j
  <2> DEFINE new == [at |-> d, payload |-> p, index |-> k]
  <2>1. new \in credits'
    BY <1>1, <1>5 DEF Unfinished, StoreCredit
  <2>2. t \in Remaining(new)
    BY <1>2, <1>5 DEF Remaining
  <2>3. new.at = d /\ new.payload = p
    OBVIOUS
  <2> QED
    BY <2>1, <2>2, <2>3
<1> QED
  BY <1>3, <1>4, <1>5

\* Delivery and retryPayload use a nonce no failed message of the path has,
\* and retryMessage takes out the entry whose message it runs.
THEOREM FailedLeaveInTwoWays == Spec => FailedOnlyOverwritten
<1> DEFINE Leaving == \A f \in failed \ failed' : Handed(f) \/ Overwritten(f)
<1>1. TypeOK /\ NInv /\ [Next]_vars => [Leaving]_vars
  <2> SUFFICES ASSUME TypeOK, NInv, Next, NEW f \in failed \ failed'
               PROVE  Handed(f) \/ Overwritten(f)
    OBVIOUS
  <2>1. /\ f.nonce \in Nat /\ f.path \in Path /\ f.payload \in Payload
        /\ f.nonce <= inboundNonce[f.path] /\ inboundNonce[f.path] \in Nat
        /\ storedPayload[f.path] # NoPayload => f.nonce < inboundNonce[f.path]
    BY NoncesType DEF NInv, FailedUsed, TypeOK, FailedMessage
  <2>2. ASSUME NEW q \in Path, NEW by \in User, NEW p \in Payload, Send(q, by, p)
        PROVE  FALSE
    <3>1. LzReceive(Debited(q[1], p), q, NextNonce(q), p) /\ TakeNonce(q)
      BY <2>2 DEF Send, ReceiveDelivered
    <3>2. f.path = q /\ f.nonce = NextNonce(q)
      BY <3>1, LzReceiveOverwrites
    <3>3. NextNonce(q) = inboundNonce[q] + 1
      BY <3>1, NoncesType DEF TakeNonce, NextNonce, TypeOK, EndpointTypeOK
    <3> QED
      BY <2>1, <3>2, <3>3
  <2>3. ASSUME NEW q \in Path, RetryStored(q) PROVE FALSE
    <3>1. /\ storedPayload[q] # NoPayload
          /\ LzReceive(owner, q, inboundNonce[q], storedPayload[q])
      BY <2>3 DEF RetryStored, RetryPayload, RetryNonce
    <3>2. f.path = q /\ f.nonce = inboundNonce[q]
      BY <3>1, LzReceiveOverwrites
    <3> QED
      BY <2>1, <3>1, <3>2
  <2>4. ASSUME NEW q \in Path, Drain(q) PROVE Overwritten(f)
    <3>1. LzReceive(owner, q, Head(msgsToDeliver[q]).nonce, Head(msgsToDeliver[q]).payload)
      BY <2>4 DEF Drain
    <3>2. f.path = q /\ f.nonce = Head(msgsToDeliver[q]).nonce
      BY <3>1, LzReceiveOverwrites
    <3> QED
      BY <2>4, <3>2 DEF Overwritten
  <2>5. ASSUME NEW g \in failed, RetryMessage(g) PROVE Handed(f)
    <3>1. f = g /\ NonblockingLzReceive(owner, f.path[2], f.payload)
      BY <2>5 DEF RetryMessage, WithoutFailed
    <3>2. owner \in OwnerType /\ f.path[2] \in Chain
      BY <2>1, PathEnds DEF TypeOK, OwnerType
    <3> QED
      BY <2>1, <3>1, <3>2, NonblockingHands DEF Handed
  <2>6. ASSUME UNCHANGED failed PROVE FALSE
    BY <2>6
  <2>7. ASSUME NEW q \in Path,
               ForceResume(q) \/ SetTrustedRemote(q[1], q[2])
                 \/ UnsetTrustedRemote(q[1], q[2])
        PROVE  FALSE
    BY <2>6, <2>7 DEF ForceResume, SetTrustedRemote, UnsetTrustedRemote, appVars
  <2>8. ASSUME NEW c \in Chain, NEW t \in Token, TokenNext(c, t) PROVE FALSE
    BY <2>6, <2>8 DEF TokenNext, TransferFrom, Approve
  <2>9. ASSUME NEW cr \in credits, NEW k \in DOMAIN cr.payload.ids, ClearCredits(cr, k)
        PROVE  FALSE
    BY <2>6, <2>9 DEF ClearCredits
  <2>10. ASSUME NEW c \in Chain, BlockNext(c) PROVE FALSE
    BY <2>6, <2>10 DEF BlockNext, appVars
  <2> QED
    BY <2>2, <2>3, <2>4, <2>5, <2>7, <2>8, <2>9, <2>10 DEF Next, PathNext
<1> QED
  BY <1>1, Inductive, PTL DEF Spec, FailedOnlyOverwritten, KInv, IInv

-----------------------------------------------------------------------------
(***************************************************************************)
(* The refinement.  Place picks the one chain where the token is held, or  *)
(* the one destination of what carries it; each kind of step is then a     *)
(* move OmniToken allows.                                                  *)
(***************************************************************************)
HeldPlace(c, u)    == [status |-> "held", chain |-> c, who |-> u]
TransitPlace(c, u) == [status |-> "transit", chain |-> c, who |-> u]
GonePlace          == [status |-> "gone", chain |-> Home, who |-> NoOne]

PlacedRight(t) ==
  /\ \A c \in Chain : owner[c][t] \in User => Place(t) = HeldPlace(c, owner[c][t])
  /\ \A x : Dest(t, x) => Place(t) = TransitPlace(x[1], x[2])
  /\ ~ AnyHeld(t) /\ (\A x : ~ Dest(t, x)) => Place(t) = GonePlace

LEMMA PlaceIsRight ==
  ASSUME NEW t
  PROVE  KInv /\ t \in Sound => PlacedRight(t)
<1> SUFFICES ASSUME KInv, t \in Sound PROVE PlacedRight(t)
  OBVIOUS
<1> DEFINE heldOn == {c \in Chain : owner[c][t] \in User}
           at == CHOOSE x \in heldOn : TRUE
           to == CHOOSE x \in Destinations(t) : TRUE
<1>1. Place(t) = IF heldOn # {} THEN HeldPlace(at, owner[at][t])
                 ELSE IF Destinations(t) # {} THEN TransitPlace(to[1], to[2])
                 ELSE GonePlace
  BY DEF Place, HeldPlace, TransitPlace, GonePlace
<1>2. ASSUME NEW c \in Chain, owner[c][t] \in User
      PROVE  heldOn # {} /\ at = c
  BY <1>2, OneDestination
<1>3. ~ AnyHeld(t) => heldOn = {}
  BY DEF AnyHeld
<1>4. \A x : x \in Destinations(t) <=> Dest(t, x)
  BY DestinationsAre
<1>5. ASSUME NEW x, Dest(t, x)
      PROVE  heldOn = {} /\ Destinations(t) # {} /\ to = x
  <2>1. x \in Destinations(t) /\ \A y \in Destinations(t) : y = x
    BY <1>4, <1>5, OneDestination
  <2> QED
    BY <1>3, <1>5, <2>1, OneDestination
<1>6. (\A x : ~ Dest(t, x)) => Destinations(t) = {}
  BY <1>4
<1> HIDE DEF heldOn, at, to
<1> QED
  BY <1>1, <1>2, <1>3, <1>5, <1>6 DEF PlacedRight

\* MayMove of OmniToken, in these terms.
LEMMA Movements ==
  ASSUME NEW from, NEW to
  PROVE  /\ to = from => Omni!MayMove(from, to)
         /\ \A c, u, v : from = HeldPlace(c, u) /\ to = HeldPlace(c, v) /\ v \in User
              => Omni!MayMove(from, to)
         /\ \A c, u, v : \A d \in Chain :
              /\ from = HeldPlace(c, u) /\ c # d
              /\ to = HeldPlace(d, v) \/ to = TransitPlace(d, v)
              => Omni!MayMove(from, to)
         /\ \A c, u : from = TransitPlace(c, u) /\ to = HeldPlace(c, u) /\ u \in User
              => Omni!MayMove(from, to)
         /\ \A c, u : from \in {HeldPlace(c, u), TransitPlace(c, u)} /\ to = GonePlace
              => Omni!MayMove(from, to)
BY DEF Omni!MayMove, Omni!HeldBy, Omni!Gone, HeldPlace, TransitPlace, GonePlace

LEMMA StepMoves ==
  ASSUME KInv, KInv', NInv, [Next]_vars, NEW t \in Sound, t \in Sound'
  PROVE  Omni!MayMove(Place(t), Place(t)')
<1> DEFINE from == Place(t)
           to == Place(t)'
           NoDest2 == \A x : ~ Dest(t, x)'
           NotHeld2 == \A c \in Chain : owner'[c][t] \notin User
<1>1. /\ \A c \in Chain : owner[c][t] \in User => from = HeldPlace(c, owner[c][t])
      /\ \A x : Dest(t, x) => from = TransitPlace(x[1], x[2])
      /\ (\A c \in Chain : owner[c][t] \notin User) /\ (\A x : ~ Dest(t, x))
           => from = GonePlace
      /\ \A x : Dest(t, x) => \A c \in Chain : owner[c][t] \notin User
  BY PlaceIsRight, OneDestination DEF PlacedRight, AnyHeld
<1>2. /\ \A c \in Chain : owner'[c][t] \in User => to = HeldPlace(c, owner'[c][t])
      /\ \A x : Dest(t, x)' => to = TransitPlace(x[1], x[2])
      /\ NotHeld2 /\ NoDest2 => to = GonePlace
  <2>1. (KInv /\ t \in Sound => PlacedRight(t))'
    BY PlaceIsRight, PTL
  <2>2. PlacedRight(t)'
    BY <2>1
  <2>3. AnyHeld(t)' <=> \E c \in Chain : owner'[c][t] \in User
    BY DEF AnyHeld
  <2> QED
    BY <2>2, <2>3 DEF PlacedRight, HeldPlace, TransitPlace, GonePlace
<1>3. StepKind(t)
  BY StepsSorted
<1> HIDE DEF from, to
<1>4. ASSUME SameOwners(t), \A x : Dest(t, x)' => Dest(t, x)
      PROVE  Omni!MayMove(from, to)
  <2>1. CASE \E c \in Chain : owner[c][t] \in User
    BY <1>1, <1>2, <1>4, <2>1, Movements DEF SameOwners
  <2>2. CASE \E x : Dest(t, x)'
    BY <1>1, <1>2, <1>4, <2>2, Movements
  <2>3. CASE (\A c \in Chain : owner[c][t] \notin User) /\ NoDest2
    <3>1. to = GonePlace
      BY <1>2, <1>4, <2>3 DEF SameOwners
    <3>2. CASE \E x : Dest(t, x)
      BY <1>1, <3>1, <3>2, Movements
    <3>3. CASE \A x : ~ Dest(t, x)
      BY <1>1, <2>3, <3>1, <3>3, Movements
    <3> QED
      BY <3>2, <3>3
  <2> QED
    BY <2>1, <2>2, <2>3
<1>5. ASSUME Lands(t) PROVE Omni!MayMove(from, to)
  <2>1. PICK d \in Chain : \E u :
          /\ Dest(t, <<d, u>>)
          /\ \A c \in Chain : c # d => owner'[c][t] = owner[c][t]
          /\ \/ owner'[d][t] = owner[d][t] /\ Dest(t, <<d, u>>)'
             \/ owner'[d][t] = u /\ u \in User \cup {Bridge}
          /\ \A x : Dest(t, x)' => x = <<d, u>>
    BY <1>5 DEF Lands
  <2>2. PICK u :
          /\ Dest(t, <<d, u>>)
          /\ \A c \in Chain : c # d => owner'[c][t] = owner[c][t]
          /\ \/ owner'[d][t] = owner[d][t] /\ Dest(t, <<d, u>>)'
             \/ owner'[d][t] = u /\ u \in User \cup {Bridge}
          /\ \A x : Dest(t, x)' => x = <<d, u>>
    BY <2>1
  <2>3. from = TransitPlace(d, u)
    BY <1>1, <2>2
  <2>4. \A x : Dest(t, x)' => to = from
    BY <1>2, <2>2, <2>3
  <2>5. CASE owner'[d][t] = u /\ u \in User
    BY <1>2, <2>3, <2>5, Movements
  <2>6. CASE owner'[d][t] = u /\ u = Bridge /\ NoDest2
    <3>1. NotHeld2
      BY <1>1, <2>2, <2>6, HolderAssumption
    <3> QED
      BY <1>2, <2>3, <2>6, <3>1, Movements
  <2> QED
    BY <2>2, <2>4, <2>5, <2>6, Movements
<1>6. ASSUME NEW c \in Chain, NEW d \in Chain, NEW u, Departs(t, c, d, u)
      PROVE  Omni!MayMove(from, to)
  <2>1. /\ c # d /\ from = HeldPlace(c, owner[c][t])
        /\ \A e \in Chain : e # d => owner'[e][t] \notin User
        /\ \A x : Dest(t, x)' => x = <<d, u>>
    BY <1>1, <1>6 DEF Departs
  <2>2. CASE \E x : Dest(t, x)'
    <3>1. to = TransitPlace(d, u)
      BY <1>2, <2>1, <2>2
    <3> QED
      BY <2>1, <3>1, Movements
  <2>3. CASE owner'[d][t] \in User
    BY <1>2, <2>1, <2>3, Movements
  <2>4. CASE owner'[d][t] \notin User /\ NoDest2
    <3>1. to = GonePlace
      BY <1>2, <2>1, <2>4
    <3> QED
      BY <2>1, <3>1, Movements
  <2> QED
    BY <2>2, <2>3, <2>4
<1>7. ASSUME NEW c \in Chain, NEW u, Moves(t, c, u)
      PROVE  Omni!MayMove(from, to)
  <2>1. /\ from = HeldPlace(c, owner[c][t])
        /\ owner'[c][t] = u /\ u \in User \cup {Bridge}
        /\ NoDest2
        /\ \A e \in Chain : e # c => owner'[e][t] \notin User
    <3>1. \A e \in Chain : e # c => owner[e][t] \notin User
      BY <1>7, OneDestination DEF Moves
    <3> QED
      BY <1>1, <1>7, <3>1 DEF Moves
  <2>2. CASE u \in User
    BY <1>2, <2>1, <2>2, Movements
  <2>3. CASE u = Bridge
    <3>1. to = GonePlace
      BY <1>2, <2>1, <2>3, HolderAssumption
    <3> QED
      BY <2>1, <3>1, Movements
  <2> QED
    BY <2>1, <2>2, <2>3
<1>8. Omni!MayMove(from, to)
  BY <1>3, <1>4, <1>5, <1>6, <1>7, PathEnds DEF StepKind, Stays, Drops
<1> QED
  BY <1>8 DEF from, to

\* The bridge implements OmniToken for the tokens that are not copied: each
\* exists once, moves from holder to holder and from chain to chain, and
\* arrives only where it was sent.
THEOREM ImplementsOmniToken == Spec => OneOmniToken
<1>1. Init => Omni!Init
  <2> SUFFICES ASSUME Init PROVE Omni!Init
    OBVIOUS
  <2>1. KInv /\ Sound = Token
    BY InitKInv DEF Sound, Init
  <2>2. ASSUME NEW t \in Token
        PROVE  \E u \in User : Place(t) = HeldPlace(Home, u)
    <3>1. owner[Home][t] \in User
      BY HomeAssumption DEF Init
    <3> QED
      BY <2>1, <3>1, PlaceIsRight, HomeAssumption DEF PlacedRight
  <2> QED
    BY <2>1, <2>2 DEF Omni!Init, Omni!HeldBy, HeldPlace
<1>2. KInv /\ KInv' /\ NInv /\ [Next]_vars => [Omni!Next]_([t \in Sound |-> Place(t)])
  <2> SUFFICES ASSUME KInv, KInv', NInv, [Next]_vars PROVE Omni!Next
    OBVIOUS
  <2>1. Sound' \subseteq Sound
    BY CopiedGrows
  <2>2. \A t \in Sound' : Omni!MayMove(Place(t), Place(t)')
    BY <2>1, StepMoves
  <2> QED
    BY <2>1, <2>2 DEF Omni!Next
<1> QED
  BY <1>1, <1>2, KNext, Inductive, PTL DEF Spec, OneOmniToken, Omni!Spec

=============================================================================
