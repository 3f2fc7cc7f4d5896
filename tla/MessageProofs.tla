--------------------------- MODULE MessageProofs ---------------------------
(***************************************************************************)
(* Theorems about the messages on their way, for any chains, messages,     *)
(* fees and options.  The three models share no state; each section is     *)
(* about one of them.                                                      *)
(*                                                                         *)
(* LZEndpointOrder, where the EVM endpoint has a message and what order it *)
(* keeps.  The properties are per path, and so is the invariant.  It adds, *)
(* to the places written out message by message, why the order holds: a    *)
(* stored message is younger than all that was delivered; no queued one    *)
(* that no retryPayload left behind is older; a queue with nothing stored  *)
(* in front of it was either left behind or is being drained; and the      *)
(* youngest queued message, which the shift loop copies over the others,   *)
(* is in the queue once when it does.                                      *)
(*                                                                         *)
(* LzReceiveAccounts, which accounts an inbound message needs on Solana.   *)
(* What lz_receive slices out of a list is what lz_receive_types joined:   *)
(* facts about joined sequences, and no induction over behaviours.         *)
(*                                                                         *)
(* MessageFees, what an outbound message costs there.  The invariant: a    *)
(* quote that is still there is of the options and prices of this moment.  *)
(***************************************************************************)
EXTENDS LZEndpointOrder, LzReceiveAccounts, MessageFees, SumTheorems,
        SequenceTheorems

-----------------------------------------------------------------------------
(***************************************************************************)
(* The order at the endpoint.                                              *)
(***************************************************************************)
IsStored(q)       == storedPayload[q] # NoPayload
WasDelivered(q, n) == \E i \in DOMAIN delivered[q] : delivered[q][i] = n
IsQueued(q, n)    == \E i \in DOMAIN msgsToDeliver[q] : msgsToDeliver[q][i].nonce = n
StoredAs(q, n)    == IsStored(q) /\ storedNonce[q] = n

\* Every nonce used has a place, and only those have one.
Placed(q) ==
  /\ \A n \in 1 .. outboundNonce[q] :
       \/ WasDelivered(q, n) \/ StoredAs(q, n) \/ IsQueued(q, n)
       \/ n \in dropped[q] \/ n \in overwritten[q]
  /\ \A i \in DOMAIN delivered[q] : delivered[q][i] \in 1 .. outboundNonce[q]
  /\ IsStored(q) => storedNonce[q] \in 1 .. outboundNonce[q]
  /\ \A i \in DOMAIN msgsToDeliver[q] :
       msgsToDeliver[q][i].nonce \in 1 .. outboundNonce[q]
  /\ dropped[q] \subseteq 1 .. outboundNonce[q]
  /\ overwritten[q] \subseteq 1 .. outboundNonce[q]

\* No two places hold the same nonce, and none holds it twice, but for what
\* was copied; the last of the queue never is there twice.
Apart(q) ==
  /\ \A i, j \in DOMAIN delivered[q] :
       delivered[q][i] = delivered[q][j] => i = j \/ delivered[q][i] \in copied[q]
  /\ \A i, j \in DOMAIN msgsToDeliver[q] :
       i < j => \/ msgsToDeliver[q][i].nonce < msgsToDeliver[q][j].nonce
                \/ /\ msgsToDeliver[q][i].nonce = msgsToDeliver[q][j].nonce
                   /\ msgsToDeliver[q][i].nonce \in copied[q]
  /\ \A i \in DOMAIN msgsToDeliver[q] :
       i < Len(msgsToDeliver[q]) =>
         msgsToDeliver[q][i].nonce < msgsToDeliver[q][Len(msgsToDeliver[q])].nonce
  /\ \A n : WasDelivered(q, n) =>
              /\ ~ StoredAs(q, n)
              /\ IsQueued(q, n) => resuming = q /\ n \in copied[q]
              /\ n \notin dropped[q] \cup overwritten[q]
  /\ \A n : IsQueued(q, n) =>
              ~ StoredAs(q, n) /\ n \notin dropped[q] \cup overwritten[q]
  /\ \A n : StoredAs(q, n) => n \notin dropped[q] \cup overwritten[q]
  /\ dropped[q] \cap overwritten[q] = {}

\* What is stored is younger than what was delivered, and what is queued and
\* not left behind is not older; nothing is stored on the path that is being
\* drained; and what is queued behind nothing was left behind.
InOrder(q) ==
  /\ IsStored(q) => \A i \in DOMAIN delivered[q] : delivered[q][i] < storedNonce[q]
  /\ \A i \in DOMAIN msgsToDeliver[q] :
       msgsToDeliver[q][i].nonce \in leftBehind[q]
         \/ \A j \in DOMAIN delivered[q] : delivered[q][j] <= msgsToDeliver[q][i].nonce
  /\ resuming = q => ~ IsStored(q)
  /\ ~ IsStored(q) /\ resuming # q =>
       \A i \in DOMAIN msgsToDeliver[q] : msgsToDeliver[q][i].nonce \in leftBehind[q]
  /\ \A i, j \in DOMAIN delivered[q] :
       i < j => delivered[q][j] \in leftBehind[q] \/ delivered[q][i] <= delivered[q][j]

IInv == TypeOK /\ \A q \in Path : Placed(q) /\ Apart(q) /\ InOrder(q)

-----------------------------------------------------------------------------
\* A sequence with one more element, and one less.
LEMMA AppendIs ==
  ASSUME NEW S, NEW s \in Seq(S), NEW x \in S
  PROVE  /\ Append(s, x) \in Seq(S)
         /\ DOMAIN Append(s, x) = DOMAIN s \cup {Len(s) + 1}
         /\ \A i \in DOMAIN s : Append(s, x)[i] = s[i]
         /\ Append(s, x)[Len(s) + 1] = x
         /\ DOMAIN s = 1 .. Len(s) /\ Len(s) \in Nat
OBVIOUS

\* A sequence whose last element took the place of all.
LEMMA LastRepeated ==
  ASSUME NEW S, NEW s \in Seq(S)
  PROVE  LET z == [i \in DOMAIN s |-> s[Len(s)]]
         IN  /\ z \in Seq(S)
             /\ DOMAIN z = DOMAIN s
             /\ Len(z) = Len(s)
             /\ \A i \in DOMAIN s : z[i] = s[Len(s)]
<1> DEFINE z == [i \in DOMAIN s |-> s[Len(s)]]
<1>1. DOMAIN s = 1 .. Len(s) /\ Len(s) \in Nat
  OBVIOUS
<1>2. \A i \in DOMAIN s : s[Len(s)] \in S
  BY <1>1
<1>3. z \in [1 .. Len(s) -> S]
  BY <1>1, <1>2
<1>4. z \in Seq(S)
  BY <1>1, <1>3, SeqDef
<1>5. DOMAIN z = DOMAIN s /\ \A i \in DOMAIN s : z[i] = s[Len(s)]
  OBVIOUS
<1>6. Len(z) = Len(s)
  <2> HIDE DEF z
  <2> QED
    BY <1>1, <1>4, <1>5
<1> QED
  BY <1>4, <1>5, <1>6

\* What Enqueue makes of a queue: the last element in the place of all, and
\* the new one behind.
LEMMA EnqueueIs ==
  ASSUME NEW S, NEW s \in Seq(S), NEW m \in S
  PROVE  /\ Enqueue(s, m) \in Seq(S)
         /\ DOMAIN s = 1 .. Len(s) /\ Len(s) \in Nat
         /\ DOMAIN Enqueue(s, m) = DOMAIN s \cup {Len(s) + 1}
         /\ Len(Enqueue(s, m)) = Len(s) + 1
<1> DEFINE z == [i \in DOMAIN s |-> s[Len(s)]]
<1>1. z \in Seq(S) /\ Len(z) = Len(s)
  BY LastRepeated
<1>2. Enqueue(s, m) = Append(z, m)
  BY DEF Enqueue
<1> HIDE DEF z
<1> QED
  BY <1>1, <1>2, AppendIs

LEMMA EnqueuedAre ==
  ASSUME NEW S, NEW s \in Seq(S), NEW m \in S
  PROVE  \A i \in DOMAIN s : Enqueue(s, m)[i] = s[Len(s)]
<1> DEFINE z == [i \in DOMAIN s |-> s[Len(s)]]
<1>1. z \in Seq(S) /\ DOMAIN z = DOMAIN s /\ \A i \in DOMAIN s : z[i] = s[Len(s)]
  BY LastRepeated
<1>2. Enqueue(s, m) = Append(z, m)
  BY DEF Enqueue
<1> HIDE DEF z
<1> QED
  BY <1>1, <1>2, AppendIs

LEMMA NewestIsLast ==
  ASSUME NEW S, NEW s \in Seq(S), NEW m \in S
  PROVE  Enqueue(s, m)[Len(s) + 1] = m
<1> DEFINE z == [i \in DOMAIN s |-> s[Len(s)]]
<1>1. z \in Seq(S) /\ Len(z) = Len(s)
  BY LastRepeated
<1>2. Enqueue(s, m) = Append(z, m)
  BY DEF Enqueue
<1> HIDE DEF z
<1> QED
  BY <1>1, <1>2, AppendIs

LEMMA TailIs ==
  ASSUME NEW S, NEW s \in Seq(S), s # <<>>
  PROVE  /\ Tail(s) \in Seq(S)
         /\ Len(s) \in DOMAIN s /\ Len(Tail(s)) = Len(s) - 1
         /\ Head(s) = s[1] /\ 1 \in DOMAIN s /\ s[1] \in S
         /\ DOMAIN s \subseteq Nat \ {0}
         /\ \A i \in DOMAIN Tail(s) : i + 1 \in DOMAIN s /\ Tail(s)[i] = s[i + 1]
         /\ \A i \in DOMAIN s : i = 1 \/ (i - 1 \in DOMAIN Tail(s) /\ Tail(s)[i - 1] = s[i])
         /\ Tail(s) = <<>> => DOMAIN s = {1}
<1>1. Len(s) \in Nat /\ DOMAIN s = 1 .. Len(s) /\ Len(s) # 0
  OBVIOUS
<1>2. Tail(s) \in Seq(S) /\ Len(Tail(s)) = Len(s) - 1
  OBVIOUS
<1>3. DOMAIN Tail(s) = 1 .. Len(s) - 1
  BY <1>1, <1>2
<1>4. \A i \in 1 .. Len(s) - 1 : Tail(s)[i] = s[i + 1]
  BY <1>1
<1>5. Head(s) = s[1] /\ 1 \in DOMAIN s /\ s[1] \in S
  BY <1>1
<1>6. ASSUME NEW i \in DOMAIN Tail(s)
      PROVE  i + 1 \in DOMAIN s /\ Tail(s)[i] = s[i + 1]
  BY <1>1, <1>3, <1>4
<1>7. ASSUME NEW i \in DOMAIN s, i # 1
      PROVE  i - 1 \in DOMAIN Tail(s) /\ Tail(s)[i - 1] = s[i]
  <2>1. i - 1 \in 1 .. Len(s) - 1 /\ (i - 1) + 1 = i
    BY <1>1, <1>7
  <2> QED
    BY <2>1, <1>3, <1>4
<1>8. ASSUME Tail(s) = <<>> PROVE DOMAIN s = {1}
  <2> DEFINE e == <<>>
  <2>0. Len(e) = 0
    OBVIOUS
  <2>1. Len(Tail(s)) = 0
    <3> HIDE DEF e
    <3>1. Tail(s) = e
      BY <1>8 DEF e
    <3> QED
      BY <3>1, <2>0
  <2>2. Len(s) = 1
    BY <2>1, <1>1, <1>2
  <2> QED
    BY <2>2, <1>1
<1>9. Len(s) \in DOMAIN s
  BY <1>1
<1> QED
  BY <1>1, <1>2, <1>5, <1>6, <1>7, <1>8, <1>9

\* The queue holds records with a nonce.
LEMMA QueueNonces ==
  ASSUME TypeOK, NEW q \in Path
  PROVE  /\ msgsToDeliver[q] \in Seq(QueuedPayload)
         /\ \A i \in DOMAIN msgsToDeliver[q] : msgsToDeliver[q][i].nonce \in Nat
         /\ DOMAIN msgsToDeliver[q] \subseteq Nat \ {0}
         /\ delivered[q] \in Seq(Nat)
         /\ \A i \in DOMAIN delivered[q] : delivered[q][i] \in Nat
         /\ DOMAIN delivered[q] \subseteq Nat \ {0}
<1>1. msgsToDeliver[q] \in Seq(QueuedPayload) /\ delivered[q] \in Seq(Nat)
  BY DEF TypeOK, EndpointTypeOK
<1>2. \A m \in QueuedPayload : m.nonce \in Nat
  BY DEF QueuedPayload
<1>3. \A i \in DOMAIN msgsToDeliver[q] : msgsToDeliver[q][i] \in QueuedPayload
  BY <1>1
<1> QED
  BY <1>1, <1>2, <1>3

-----------------------------------------------------------------------------
(***************************************************************************)
(* Type correctness.                                                       *)
(***************************************************************************)
LEMMA InitType == Init => TypeOK
BY DEF Init, TypeOK, EndpointInit, EndpointTypeOK

LEMMA SendType ==
  ASSUME TypeOK, NEW q \in Path, NEW p \in Payload, Send(q, p)
  PROVE  TypeOK'
<1>1. NextNonce(q) \in Nat
  BY DEF NextNonce, TypeOK, EndpointTypeOK
<1>2. TakeNonce(q) /\ UNCHANGED <<dropped, leftBehind>>
  BY DEF Send, ReceiveQueued, ReceiveBlocked, ReceiveReverted, ReceiveDelivered
<1>3. /\ outboundNonce' \in [Path -> Nat]
      /\ inboundNonce' \in [Path -> Nat]
      /\ resuming' \in Path \cup {NoPath}
  BY <1>2 DEF TypeOK, EndpointTypeOK, TakeNonce
<1>4. /\ storedPayload' \in [Path -> Payload \cup {NoPayload}]
      /\ nextMsgBlocked' \in SUBSET Chain
  <2>1. CASE ReceiveQueued(q, p) \/ ReceiveDelivered(q)
    BY <2>1 DEF TypeOK, EndpointTypeOK, ReceiveQueued, ReceiveDelivered
  <2>2. CASE ReceiveBlocked(q, p)
    BY <2>2 DEF TypeOK, EndpointTypeOK, ReceiveBlocked, StorePayload
  <2>3. CASE ReceiveReverted(q, p)
    BY <2>3 DEF TypeOK, EndpointTypeOK, ReceiveReverted, StorePayload
  <2> QED BY <2>1, <2>2, <2>3 DEF Send
<1>5. msgsToDeliver' \in [Path -> Seq(QueuedPayload)]
  <2>1. CASE ReceiveQueued(q, p)
    <3>1. Entry(q, p) \in QueuedPayload
      BY <1>1 DEF Entry, QueuedPayload
    <3>2. Enqueue(msgsToDeliver[q], Entry(q, p)) \in Seq(QueuedPayload)
      BY <3>1, EnqueueIs DEF TypeOK, EndpointTypeOK
    <3> QED
      BY <2>1, <3>2 DEF ReceiveQueued, TypeOK, EndpointTypeOK
  <2>2. CASE UNCHANGED msgsToDeliver
    BY <2>2 DEF TypeOK, EndpointTypeOK
  <2> QED
    BY <2>1, <2>2 DEF Send, ReceiveBlocked, ReceiveReverted, ReceiveDelivered,
                      StorePayload
<1>6. storedNonce' \in [Path -> Nat] /\ delivered' \in [Path -> Seq(Nat)]
  <2>1. Append(delivered[q], NextNonce(q)) \in Seq(Nat)
    BY <1>1, AppendIs DEF TypeOK
  <2> QED
    BY <1>1, <2>1 DEF Send, Deliver, NoteStored, TypeOK
<1>7. overwritten' \in [Path -> SUBSET Nat] /\ copied' \in [Path -> SUBSET Nat]
  <2>1. CASE NoteShift(q)
    <3> DEFINE s == msgsToDeliver[q]
               old == {s[i].nonce : i \in 1 .. Len(s) - 1}
               young == {s[Len(s)].nonce : i \in 1 .. Len(s) - 1}
    <3>1. old \subseteq Nat /\ young \subseteq Nat
      BY QueueNonces
    <3>2. /\ overwritten' = [overwritten EXCEPT ![q] = @ \cup old]
          /\ copied' = [copied EXCEPT ![q] = @ \cup young]
      BY <2>1 DEF NoteShift
    <3> HIDE DEF old, young
    <3> QED
      BY <3>1, <3>2 DEF TypeOK
  <2>2. CASE UNCHANGED <<overwritten, copied>>
    BY <2>2 DEF TypeOK
  <2> QED
    BY <2>1, <2>2 DEF Send
<1> QED
  BY <1>2, <1>3, <1>4, <1>5, <1>6, <1>7 DEF TypeOK, EndpointTypeOK

LEMMA RetryType ==
  ASSUME TypeOK, NEW q \in Path, Retry(q)
  PROVE  TypeOK'
<1>1. EndpointTypeOK'
  BY DEF TypeOK, EndpointTypeOK, Retry, RetryPayload, EmptyStored
<1>2. storedNonce[q] \in Nat /\ QueuedNonces(q) \subseteq Nat
  BY QueueNonces DEF TypeOK, QueuedNonces, ElementsOf
<1>3. Append(delivered[q], storedNonce[q]) \in Seq(Nat)
  BY <1>2, AppendIs DEF TypeOK
<1> QED
  BY <1>1, <1>2, <1>3 DEF TypeOK, Retry, Deliver, NoteStored

LEMMA ResumeType ==
  ASSUME TypeOK, NEW q \in Path, Resume(q)
  PROVE  TypeOK'
<1>1. EndpointTypeOK'
  BY DEF TypeOK, EndpointTypeOK, Resume, ForceResumeReceive, EmptyStored
<1> QED
  BY <1>1 DEF TypeOK, Resume, NoteStored

LEMMA DrainType ==
  ASSUME TypeOK, NEW q \in Path, Drain(q)
  PROVE  TypeOK'
<1>1. msgsToDeliver[q] \in Seq(QueuedPayload) /\ msgsToDeliver[q] # <<>>
  BY QueueNonces DEF Drain, DrainQueue
<1>2. Tail(msgsToDeliver[q]) \in Seq(QueuedPayload)
  BY <1>1, TailIs
<1>3. Head(msgsToDeliver[q]).nonce \in Nat
  <2>1. Head(msgsToDeliver[q]) \in QueuedPayload
    BY <1>1, TailIs
  <2> QED
    BY <2>1 DEF QueuedPayload
<1>4. Append(delivered[q], Head(msgsToDeliver[q]).nonce) \in Seq(Nat)
  BY <1>3, AppendIs DEF TypeOK
<1>5. EndpointTypeOK'
  BY <1>2 DEF TypeOK, EndpointTypeOK, Drain, DrainQueue
<1> QED
  BY <1>4, <1>5 DEF TypeOK, Drain, Deliver

LEMMA BlockType ==
  ASSUME TypeOK, NEW c \in Chain, Block(c)
  PROVE  TypeOK'
BY DEF TypeOK, EndpointTypeOK, Block, BlockNextMsg, historyVars

LEMMA TypeStep == TypeOK /\ [Next]_vars => TypeOK'
<1>1. TypeOK /\ UNCHANGED vars => TypeOK'
  BY DEF TypeOK, EndpointTypeOK, vars, endpointVars, historyVars
<1> QED
  BY <1>1, SendType, RetryType, ResumeType, DrainType, BlockType DEF Next

\* Every state is well typed: what is queued, stored and remembered per path
\* has the shape the contract's structures give it.
THEOREM TypeCorrect == Spec => []TypeOK
BY InitType, TypeStep, PTL DEF Spec

-----------------------------------------------------------------------------
(***************************************************************************)
(* The invariant is inductive.                                             *)
(***************************************************************************)
Local(q) == Placed(q) /\ Apart(q) /\ InOrder(q)

LEMMA InitLocal == ASSUME Init, NEW q \in Path PROVE Local(q)
<1>1. /\ outboundNonce[q] = 0 /\ storedPayload[q] = NoPayload
      /\ msgsToDeliver[q] = <<>> /\ delivered[q] = <<>>
      /\ dropped[q] = {} /\ overwritten[q] = {}
  BY DEF Init, EndpointInit
<1>2. DOMAIN msgsToDeliver[q] = {} /\ DOMAIN delivered[q] = {}
  BY <1>1
<1>3. ~ IsStored(q) /\ 1 .. outboundNonce[q] = {}
  BY <1>1 DEF IsStored
<1>4. \A n : ~ WasDelivered(q, n) /\ ~ IsQueued(q, n) /\ ~ StoredAs(q, n)
  BY <1>2, <1>3 DEF WasDelivered, IsQueued, StoredAs
<1>5. Placed(q) /\ InOrder(q)
  BY <1>1, <1>2, <1>3 DEF Placed, InOrder
<1>6. Apart(q)
  BY <1>1, <1>2, <1>4 DEF Apart
<1> QED
  BY <1>5, <1>6 DEF Local

\* What is not touched stays as it was.
LEMMA Elsewhere ==
  ASSUME NEW q \in Path, Local(q),
         outboundNonce'[q] = outboundNonce[q],
         storedPayload'[q] = storedPayload[q],
         msgsToDeliver'[q] = msgsToDeliver[q],
         storedNonce'[q] = storedNonce[q],
         delivered'[q] = delivered[q],
         dropped'[q] = dropped[q],
         leftBehind'[q] = leftBehind[q],
         overwritten'[q] = overwritten[q],
         copied'[q] = copied[q],
         resuming' = q <=> resuming = q
  PROVE  Local(q)'
<1>1. IsStored(q)' <=> IsStored(q)
  BY DEF IsStored
<1>2. \A n : /\ WasDelivered(q, n)' <=> WasDelivered(q, n)
             /\ IsQueued(q, n)' <=> IsQueued(q, n)
             /\ StoredAs(q, n)' <=> StoredAs(q, n)
  BY <1>1 DEF WasDelivered, IsQueued, StoredAs
<1>3. Placed(q)'
  BY <1>1, <1>2 DEF Local, Placed
<1>4. Apart(q)'
  BY <1>1, <1>2 DEF Local, Apart
<1>5. InOrder(q)'
  BY <1>1 DEF Local, InOrder
<1> QED
  BY <1>3, <1>4, <1>5 DEF Local

\* The next nonce of a path is larger than any in use, in whatever place.
LEMMA NextIsLargest ==
  ASSUME TypeOK, NEW q \in Path, Placed(q)
  PROVE  /\ NextNonce(q) \in Nat \ {0}
         /\ 1 .. NextNonce(q) = (1 .. outboundNonce[q]) \cup {NextNonce(q)}
         /\ \A n \in 1 .. outboundNonce[q] : n \in Nat /\ n < NextNonce(q)
         /\ \A i \in DOMAIN delivered[q] :
              delivered[q][i] \in Nat /\ delivered[q][i] < NextNonce(q)
         /\ \A i \in DOMAIN msgsToDeliver[q] :
              /\ msgsToDeliver[q][i].nonce \in Nat
              /\ msgsToDeliver[q][i].nonce < NextNonce(q)
         /\ NextNonce(q) \notin dropped[q] \cup overwritten[q]
<1>1. outboundNonce[q] \in Nat
  BY DEF TypeOK, EndpointTypeOK
<1>2. /\ NextNonce(q) \in Nat \ {0}
      /\ 1 .. NextNonce(q) = (1 .. outboundNonce[q]) \cup {NextNonce(q)}
      /\ \A n \in 1 .. outboundNonce[q] : n \in Nat /\ n < NextNonce(q)
      /\ NextNonce(q) \notin 1 .. outboundNonce[q]
  BY <1>1 DEF NextNonce
<1> QED
  BY <1>2 DEF Placed

\* A message is stored: it becomes the youngest of its path.
LEMMA StoringLocal ==
  ASSUME TypeOK, NEW q \in Path, Local(q), NEW p \in Payload,
         storedPayload[q] = NoPayload, resuming # q, resuming' # q,
         outboundNonce'[q] = NextNonce(q),
         storedPayload'[q] = p, storedNonce'[q] = NextNonce(q),
         UNCHANGED <<msgsToDeliver, delivered, dropped, leftBehind, overwritten,
                     copied>>
  PROVE  Local(q)'
<1> DEFINE n == NextNonce(q)
<1>1. IsStored(q)' /\ ~ IsStored(q)
  BY NoPayloadAssumption DEF IsStored
<1>2. \A k : StoredAs(q, k)' <=> k = n
  BY <1>1 DEF StoredAs
<1>3. \A k : (WasDelivered(q, k)' <=> WasDelivered(q, k))
               /\ (IsQueued(q, k)' <=> IsQueued(q, k)) /\ ~ StoredAs(q, k)
  BY <1>1 DEF WasDelivered, IsQueued, StoredAs
<1>4. /\ n \in Nat \ {0}
      /\ 1 .. n = (1 .. outboundNonce[q]) \cup {n}
      /\ \A i \in DOMAIN delivered[q] : delivered[q][i] \in Nat /\ delivered[q][i] < n
      /\ \A i \in DOMAIN msgsToDeliver[q] :
           msgsToDeliver[q][i].nonce \in Nat /\ msgsToDeliver[q][i].nonce < n
      /\ n \notin dropped[q] \cup overwritten[q]
  BY NextIsLargest DEF Local
<1> HIDE DEF n
<1>5. Placed(q)'
  <2>1. outboundNonce'[q] = n /\ storedNonce'[q] = n
    BY DEF n
  <2> QED
    BY <2>1, <1>2, <1>3, <1>4 DEF Local, Placed
<1>6. Apart(q)'
  <2>1. \A k : WasDelivered(q, k) \/ IsQueued(q, k) => k # n
    BY <1>4 DEF WasDelivered, IsQueued
  <2>2. \A k : /\ WasDelivered(q, k)' =>
                   /\ ~ StoredAs(q, k)' /\ ~ IsQueued(q, k)'
                   /\ k \notin dropped[q] \cup overwritten[q]
               /\ IsQueued(q, k)' =>
                   ~ StoredAs(q, k)' /\ k \notin dropped[q] \cup overwritten[q]
               /\ StoredAs(q, k)' => k \notin dropped[q] \cup overwritten[q]
    BY <2>1, <1>2, <1>3, <1>4 DEF Local, Apart
  <2> QED
    BY <2>2 DEF Local, Apart
<1>7. InOrder(q)'
  <2>1. storedNonce'[q] = n
    BY DEF n
  <2> QED
    BY <2>1, <1>1, <1>4 DEF Local, InOrder
<1> QED
  BY <1>5, <1>6, <1>7 DEF Local

\* A message is queued behind the stored one.
LEMMA QueueingLocal ==
  ASSUME TypeOK, NEW q \in Path, Local(q), NEW p \in Payload,
         storedPayload[q] # NoPayload, resuming # q, resuming' # q,
         outboundNonce'[q] = NextNonce(q),
         msgsToDeliver'[q] = Enqueue(msgsToDeliver[q], Entry(q, p)),
         NoteShift(q),
         UNCHANGED <<storedPayload, storedNonce, delivered, dropped, leftBehind>>
  PROVE  Local(q)'
<1> DEFINE n == NextNonce(q)
           s == msgsToDeliver[q]
           l == Len(msgsToDeliver[q])
           z == Len(msgsToDeliver[q]) + 1
           Lost(k) == \E i \in DOMAIN s : i < l /\ s[i].nonce = k
<1>1. IsStored(q)' /\ IsStored(q)
  BY DEF IsStored
<1>2. /\ n \in Nat \ {0}
      /\ 1 .. n = (1 .. outboundNonce[q]) \cup {n}
      /\ \A i \in DOMAIN delivered[q] : delivered[q][i] \in Nat /\ delivered[q][i] < n
      /\ \A i \in DOMAIN s : s[i].nonce \in Nat /\ s[i].nonce < n
      /\ \A k \in 1 .. outboundNonce[q] : k \in Nat /\ k < n
      /\ n \notin dropped[q] \cup overwritten[q]
  BY NextIsLargest DEF Local
<1>3. /\ DOMAIN msgsToDeliver'[q] = DOMAIN s \cup {z}
      /\ DOMAIN s = 1 .. l /\ l \in Nat /\ z = l + 1
      /\ Len(msgsToDeliver'[q]) = z
      /\ \A i \in DOMAIN s : l \in DOMAIN s /\ msgsToDeliver'[q][i] = s[l]
      /\ msgsToDeliver'[q][z] = Entry(q, p)
  <2>1. Entry(q, p) \in QueuedPayload
    BY <1>2 DEF Entry, QueuedPayload
  <2>2. s \in Seq(QueuedPayload)
    BY QueueNonces
  <2> DEFINE e == Entry(q, p)
             w == Enqueue(s, e)
  <2>3. msgsToDeliver'[q] = w
    OBVIOUS
  <2>4. /\ DOMAIN s = 1 .. Len(s) /\ Len(s) \in Nat
        /\ DOMAIN w = DOMAIN s \cup {Len(s) + 1}
        /\ Len(w) = Len(s) + 1
        /\ \A i \in DOMAIN s : Len(s) \in DOMAIN s /\ w[i] = s[Len(s)]
        /\ w[Len(s) + 1] = e
    <3>1. e \in QueuedPayload
      BY <2>1
    <3> HIDE DEF e, s
    <3>2. /\ DOMAIN s = 1 .. Len(s) /\ Len(s) \in Nat
          /\ DOMAIN w = DOMAIN s \cup {Len(s) + 1}
          /\ Len(w) = Len(s) + 1
      BY <3>1, <2>2, EnqueueIs
    <3>3. \A i \in DOMAIN s : w[i] = s[Len(s)]
      BY <3>1, <2>2, EnqueuedAre
    <3>4. w[Len(s) + 1] = e
      BY <3>1, <2>2, NewestIsLast
    <3>5. \A i \in DOMAIN s : Len(s) \in DOMAIN s
      BY <3>2
    <3> QED
      BY <3>2, <3>3, <3>4, <3>5
  <2>5. l = Len(s) /\ z = Len(s) + 1 /\ e = Entry(q, p)
    OBVIOUS
  <2> HIDE DEF e, w, s, l, z
  <2> QED
    BY <2>3, <2>4, <2>5
<1>4. /\ msgsToDeliver'[q][z].nonce = n
      /\ \A i \in DOMAIN s : /\ msgsToDeliver'[q][i].nonce = s[l].nonce
                             /\ i \in Nat /\ i <= l /\ i < z /\ i # z
                             /\ l \in DOMAIN s
      /\ z \in Nat /\ z \notin DOMAIN s
  BY <1>3 DEF Entry
<1>5. /\ overwritten'[q] = overwritten[q] \cup {s[i].nonce : i \in 1 .. l - 1}
      /\ copied'[q] = copied[q] \cup {s[l].nonce : i \in 1 .. l - 1}
  BY DEF NoteShift, TypeOK
<1>6. /\ \A k : k \in overwritten'[q] <=> k \in overwritten[q] \/ Lost(k)
      /\ \A i, j \in DOMAIN s : i < j => s[l].nonce \in copied'[q]
      /\ copied[q] \subseteq copied'[q]
  <2>1. \A i : i \in 1 .. l - 1 <=> i \in DOMAIN s /\ i < l
    BY <1>3
  <2>2. \A i, j \in DOMAIN s : i < j => i \in 1 .. l - 1
    BY <1>3
  <2> HIDE DEF s, l
  <2> QED
    BY <2>1, <2>2, <1>5
<1>7. \A k : /\ WasDelivered(q, k)' <=> WasDelivered(q, k)
             /\ StoredAs(q, k)' <=> StoredAs(q, k)
             /\ IsQueued(q, k) => IsQueued(q, k)' \/ Lost(k)
             /\ IsQueued(q, k)' => k = n \/ IsQueued(q, k)
  <2>1. ASSUME NEW k, IsQueued(q, k) PROVE IsQueued(q, k)' \/ Lost(k)
    <3>1. PICK i \in DOMAIN s : s[i].nonce = k
      BY <2>1 DEF IsQueued
    <3>2. i = l \/ i < l
      BY <1>3
    <3>3. i = l => msgsToDeliver'[q][i].nonce = k /\ i \in DOMAIN msgsToDeliver'[q]
      BY <3>1, <1>3, <1>4
    <3> QED
      BY <3>1, <3>2, <3>3 DEF IsQueued
  <2>2. ASSUME NEW k, IsQueued(q, k)' PROVE k = n \/ IsQueued(q, k)
    BY <2>2, <1>3, <1>4 DEF IsQueued
  <2> QED
    BY <2>1, <2>2, <1>1 DEF WasDelivered, StoredAs
<1>8. ASSUME NEW k, Lost(k)
      PROVE  /\ IsQueued(q, k) /\ k \in 1 .. outboundNonce[q] /\ k # n
             /\ k < s[l].nonce /\ k \in Nat /\ ~ IsQueued(q, k)'
             /\ ~ WasDelivered(q, k) /\ ~ StoredAs(q, k) /\ k \notin dropped[q]
  <2>1. PICK i \in DOMAIN s : i < l /\ s[i].nonce = k
    BY <1>8
  <2>2. IsQueued(q, k) /\ k \in 1 .. outboundNonce[q] /\ k \in Nat /\ k < n /\ k # n
    BY <2>1, <1>2 DEF IsQueued, Local, Placed
  <2>3. k < s[l].nonce /\ ~ StoredAs(q, k) /\ k \notin dropped[q]
    <3>1. \A j \in DOMAIN s : j < l => s[j].nonce < s[l].nonce
      BY DEF Local, Apart
    <3>2. ~ StoredAs(q, k) /\ k \notin dropped[q]
      BY <2>2 DEF Local, Apart
    <3> HIDE DEF s, l
    <3> QED
      BY <2>1, <3>1, <3>2
  <2>4. ~ WasDelivered(q, k)
    BY <2>2 DEF Local, Apart, WasDelivered
  <2>5. k # s[l].nonce
    BY <2>1, <2>2, <2>3, <1>2, <1>4
  <2>6. ~ IsQueued(q, k)'
    BY <2>2, <2>5, <1>3, <1>4 DEF IsQueued
  <2> QED
    BY <2>2, <2>3, <2>4, <2>6
<1>9. outboundNonce'[q] = n
  OBVIOUS
<1> HIDE DEF n, z, l, Lost
<1>10. Placed(q)'
  <2>1. \A i \in DOMAIN msgsToDeliver'[q] : msgsToDeliver'[q][i].nonce \in 1 .. n
    BY <1>2, <1>3, <1>4 DEF Local, Placed
  <2>2. overwritten'[q] \subseteq 1 .. n
    BY <1>2, <1>6, <1>8 DEF Local, Placed
  <2>3. \A k : k = n => IsQueued(q, k)'
    BY <1>3, <1>4 DEF IsQueued
  <2> QED
    BY <2>1, <2>2, <2>3, <1>1, <1>2, <1>6, <1>7, <1>9 DEF Local, Placed
<1>11. Apart(q)'
  <2>1. /\ ~ StoredAs(q, n)
        /\ \A i \in DOMAIN delivered[q] : delivered[q][i] # n
    BY <1>1, <1>2 DEF Local, Placed, StoredAs
  <2>2. \A i, j \in DOMAIN msgsToDeliver'[q] :
          i < j => \/ msgsToDeliver'[q][i].nonce < msgsToDeliver'[q][j].nonce
                   \/ /\ msgsToDeliver'[q][i].nonce = msgsToDeliver'[q][j].nonce
                      /\ msgsToDeliver'[q][i].nonce \in copied'[q]
    <3> SUFFICES ASSUME NEW i \in DOMAIN msgsToDeliver'[q],
                        NEW j \in DOMAIN msgsToDeliver'[q], i < j
                 PROVE  \/ msgsToDeliver'[q][i].nonce < msgsToDeliver'[q][j].nonce
                        \/ /\ msgsToDeliver'[q][i].nonce = msgsToDeliver'[q][j].nonce
                           /\ msgsToDeliver'[q][i].nonce \in copied'[q]
      OBVIOUS
    <3>1. i \in DOMAIN s
      BY <1>3, <1>4
    <3>2. CASE j = z
      BY <3>1, <3>2, <1>2, <1>4
    <3>3. CASE j \in DOMAIN s
      BY <3>1, <3>3, <1>4, <1>6
    <3> QED
      BY <3>2, <3>3, <1>3
  <2>3. \A i \in DOMAIN msgsToDeliver'[q] :
          i < z => msgsToDeliver'[q][i].nonce < msgsToDeliver'[q][z].nonce
    BY <1>2, <1>3, <1>4
  <2>4. ASSUME NEW k, WasDelivered(q, k)'
        PROVE  /\ ~ StoredAs(q, k)' /\ ~ IsQueued(q, k)'
               /\ k \notin dropped[q] \cup overwritten'[q]
    <3>1. WasDelivered(q, k) /\ k # n
      BY <2>1, <2>4, <1>7 DEF WasDelivered
    <3> QED
      BY <3>1, <1>6, <1>7, <1>8 DEF Local, Apart
  <2>5. ASSUME NEW k, IsQueued(q, k)'
        PROVE  ~ StoredAs(q, k)' /\ k \notin dropped[q] \cup overwritten'[q]
    <3>1. k = n \/ IsQueued(q, k)
      BY <2>5, <1>7
    <3>2. ~ Lost(k)
      BY <2>5, <1>8
    <3> QED
      BY <3>1, <3>2, <2>1, <1>2, <1>6, <1>7 DEF Local, Apart
  <2>6. ASSUME NEW k, StoredAs(q, k)' PROVE k \notin dropped[q] \cup overwritten'[q]
    BY <2>6, <1>6, <1>7, <1>8 DEF Local, Apart
  <2>7. dropped[q] \cap overwritten'[q] = {}
    BY <1>6, <1>8 DEF Local, Apart
  <2>8. \A i, j \in DOMAIN delivered[q] :
          delivered[q][i] = delivered[q][j] => i = j \/ delivered[q][i] \in copied'[q]
    BY <1>6 DEF Local, Apart
  <2> QED
    <3> HIDE DEF s
    <3> QED
      BY <2>2, <2>3, <2>4, <2>5, <2>6, <2>7, <2>8, <1>3 DEF Apart
<1>12. InOrder(q)'
  <2>1. \A i \in DOMAIN msgsToDeliver'[q] :
          msgsToDeliver'[q][i].nonce \in leftBehind[q]
            \/ \A j \in DOMAIN delivered[q] : delivered[q][j] <= msgsToDeliver'[q][i].nonce
    <3>1. \A i \in DOMAIN s :
            s[l].nonce \in leftBehind[q]
              \/ \A j \in DOMAIN delivered[q] : delivered[q][j] <= s[l].nonce
      BY <1>4 DEF Local, InOrder
    <3>2. \A j \in DOMAIN delivered[q] : delivered[q][j] <= n
      BY <1>2
    <3> QED
      BY <3>1, <3>2, <1>3, <1>4
  <2> QED
    BY <2>1, <1>1 DEF Local, InOrder
<1> QED
  BY <1>10, <1>11, <1>12 DEF Local

\* One more message is delivered, the last in the list.
LEMMA OneMoreDelivered ==
  ASSUME TypeOK, NEW q \in Path, NEW n \in Nat, Deliver(q, n)
  PROVE  /\ \E z \in Nat :
              /\ DOMAIN delivered'[q] = DOMAIN delivered[q] \cup {z}
              /\ \A i \in DOMAIN delivered[q] :
                   delivered'[q][i] = delivered[q][i] /\ i < z /\ i \in Nat
              /\ delivered'[q][z] = n
         /\ \A k : WasDelivered(q, k)' <=> WasDelivered(q, k) \/ k = n
         /\ \A r \in Path : r # q => delivered'[r] = delivered[r]
<1> DEFINE d == delivered[q]
           z == Len(d) + 1
<1>1. d \in Seq(Nat)
  BY QueueNonces
<1>2. delivered'[q] = Append(d, n) /\ \A r \in Path : r # q => delivered'[r] = delivered[r]
  BY DEF Deliver, TypeOK
<1>3. /\ DOMAIN delivered'[q] = DOMAIN d \cup {z}
      /\ \A i \in DOMAIN d : delivered'[q][i] = d[i] /\ i < z /\ i \in Nat
      /\ delivered'[q][z] = n
      /\ z \in Nat
  BY <1>1, <1>2, AppendIs
<1>4. \A k : WasDelivered(q, k)' <=> WasDelivered(q, k) \/ k = n
  BY <1>3 DEF WasDelivered
<1> QED
  BY <1>2, <1>3, <1>4

\* A message is delivered as it is sent: the path is clear.
LEMMA DeliveringLocal ==
  ASSUME TypeOK, NEW q \in Path, Local(q),
         storedPayload[q] = NoPayload, resuming # q, resuming' # q,
         outboundNonce'[q] = NextNonce(q),
         Deliver(q, NextNonce(q)),
         UNCHANGED <<storedPayload, msgsToDeliver, storedNonce, dropped, leftBehind,
                     overwritten, copied>>
  PROVE  Local(q)'
<1> DEFINE n == NextNonce(q)
<1>1. ~ IsStored(q) /\ ~ IsStored(q)'
  BY DEF IsStored
<1>2. /\ n \in Nat \ {0}
      /\ 1 .. n = (1 .. outboundNonce[q]) \cup {n}
      /\ \A i \in DOMAIN delivered[q] : delivered[q][i] \in Nat /\ delivered[q][i] < n
      /\ \A i \in DOMAIN msgsToDeliver[q] :
           msgsToDeliver[q][i].nonce \in Nat /\ msgsToDeliver[q][i].nonce < n
      /\ \A k \in 1 .. outboundNonce[q] : k \in Nat /\ k < n
      /\ n \notin dropped[q] \cup overwritten[q]
  BY NextIsLargest DEF Local
<1>3. PICK z \in Nat :
        /\ DOMAIN delivered'[q] = DOMAIN delivered[q] \cup {z}
        /\ \A i \in DOMAIN delivered[q] :
             delivered'[q][i] = delivered[q][i] /\ i < z /\ i \in Nat
        /\ delivered'[q][z] = n
  BY <1>2, OneMoreDelivered
<1>4. \A k : WasDelivered(q, k)' <=> WasDelivered(q, k) \/ k = n
  BY <1>2, OneMoreDelivered
<1>5. \A k : (IsQueued(q, k)' <=> IsQueued(q, k)) /\ ~ StoredAs(q, k) /\ ~ StoredAs(q, k)'
  BY <1>1 DEF IsQueued, StoredAs
<1>6. outboundNonce'[q] = n
  OBVIOUS
<1>7. ~ IsQueued(q, n)
  BY <1>2 DEF IsQueued
<1> HIDE DEF n
<1>8. Placed(q)'
  BY <1>1, <1>2, <1>3, <1>4, <1>5, <1>6 DEF Local, Placed
<1>9. Apart(q)'
  BY <1>1, <1>2, <1>3, <1>4, <1>5, <1>7 DEF Local, Apart
<1>10. InOrder(q)'
  BY <1>1, <1>2, <1>3 DEF Local, InOrder
<1> QED
  BY <1>8, <1>9, <1>10 DEF Local

\* retryPayload: the stored message is delivered, what is queued left behind.
LEMMA RetryLocal ==
  ASSUME TypeOK, NEW q \in Path, Local(q), Retry(q)
  PROVE  Local(q)'
<1> DEFINE n == storedNonce[q]
<1>1. IsStored(q) /\ ~ IsStored(q)'
  BY DEF IsStored, Retry, RetryPayload, EmptyStored, TypeOK, EndpointTypeOK
<1>2. /\ Deliver(q, n)
      /\ UNCHANGED <<outboundNonce, msgsToDeliver, dropped, resuming, overwritten,
                     copied>>
      /\ leftBehind'[q] = leftBehind[q] \cup QueuedNonces(q)
      /\ resuming # q
  BY NoPathAssumption DEF Retry, RetryPayload, TypeOK
<1>3. n \in Nat
  BY DEF TypeOK
<1>4. PICK z \in Nat :
        /\ DOMAIN delivered'[q] = DOMAIN delivered[q] \cup {z}
        /\ \A i \in DOMAIN delivered[q] :
             delivered'[q][i] = delivered[q][i] /\ i < z /\ i \in Nat
        /\ delivered'[q][z] = n
  BY <1>2, <1>3, OneMoreDelivered
<1>5. \A k : WasDelivered(q, k)' <=> WasDelivered(q, k) \/ k = n
  BY <1>2, <1>3, OneMoreDelivered
<1>6. \A k : /\ IsQueued(q, k)' <=> IsQueued(q, k)
             /\ StoredAs(q, k) <=> k = n
             /\ ~ StoredAs(q, k)'
  BY <1>1, <1>2 DEF IsQueued, StoredAs
<1>7. /\ n \in 1 .. outboundNonce[q]
      /\ ~ IsQueued(q, n)
      /\ n \notin dropped[q] \cup overwritten[q]
      /\ \A i \in DOMAIN delivered[q] : delivered[q][i] # n /\ delivered[q][i] < n
      /\ \A i \in DOMAIN delivered[q] : delivered[q][i] \in Nat
  BY <1>1, <1>6, QueueNonces DEF Local, Placed, Apart, InOrder, IsQueued
<1>8. \A i \in DOMAIN msgsToDeliver[q] : msgsToDeliver[q][i].nonce \in leftBehind'[q]
  BY <1>2 DEF QueuedNonces, ElementsOf
<1> HIDE DEF n
<1>9. Placed(q)'
  BY <1>1, <1>2, <1>4, <1>5, <1>6, <1>7 DEF Local, Placed
<1>10. Apart(q)'
  BY <1>1, <1>2, <1>4, <1>5, <1>6, <1>7 DEF Local, Apart
<1>11. InOrder(q)'
  BY <1>1, <1>2, <1>4, <1>7, <1>8 DEF Local, InOrder
<1> QED
  BY <1>9, <1>10, <1>11 DEF Local

\* forceResumeReceive: the stored message is dropped.
LEMMA ResumeLocal ==
  ASSUME TypeOK, NEW q \in Path, Local(q), Resume(q)
  PROVE  Local(q)'
<1> DEFINE n == storedNonce[q]
<1>1. IsStored(q) /\ ~ IsStored(q)'
  BY DEF IsStored, Resume, ForceResumeReceive, EmptyStored, TypeOK, EndpointTypeOK
<1>2. /\ UNCHANGED <<outboundNonce, msgsToDeliver, delivered, leftBehind,
                     overwritten, copied>>
      /\ dropped'[q] = dropped[q] \cup {n}
  BY DEF Resume, ForceResumeReceive, TypeOK
<1>3. \A k : /\ IsQueued(q, k)' <=> IsQueued(q, k)
             /\ WasDelivered(q, k)' <=> WasDelivered(q, k)
             /\ StoredAs(q, k) <=> k = n
             /\ ~ StoredAs(q, k)'
  BY <1>1, <1>2 DEF IsQueued, WasDelivered, StoredAs
<1>4. resuming' # q => DOMAIN msgsToDeliver[q] = {}
  BY DEF Resume, ForceResumeReceive
<1>5. n \in 1 .. outboundNonce[q]
  BY <1>1 DEF Local, Placed
<1> HIDE DEF n
<1>6. Placed(q)'
  BY <1>1, <1>2, <1>3, <1>5 DEF Local, Placed
<1>7. Apart(q)'
  <2>1. StoredAs(q, n) /\ n \notin dropped[q] \cup overwritten[q]
    BY <1>3 DEF Local, Apart
  <2>2. \A k : WasDelivered(q, k) \/ IsQueued(q, k) => k # n
    BY <1>3 DEF Local, Apart
  <2>3. resuming # q
    BY NoPathAssumption DEF Resume, ForceResumeReceive
  <2>4. \A k : /\ WasDelivered(q, k) =>
                   /\ ~ IsQueued(q, k)
                   /\ k \notin dropped[q] \cup overwritten[q]
               /\ IsQueued(q, k) => k \notin dropped[q] \cup overwritten[q]
    BY <2>3 DEF Local, Apart
  <2>5. dropped'[q] \cap overwritten[q] = {}
    BY <1>2, <2>1 DEF Local, Apart
  <2> QED
    BY <1>2, <1>3, <2>2, <2>4, <2>5 DEF Local, Apart
<1>8. InOrder(q)'
  BY <1>1, <1>2, <1>4 DEF Local, InOrder
<1> QED
  BY <1>6, <1>7, <1>8 DEF Local

\* A step of the loop of _clearMsgQue: the oldest queued message is delivered.
LEMMA DrainLocal ==
  ASSUME TypeOK, NEW q \in Path, Local(q), Drain(q)
  PROVE  Local(q)'
<1> DEFINE s == msgsToDeliver[q]
           n == Head(s).nonce
<1>1. ~ IsStored(q) /\ ~ IsStored(q)' /\ resuming = q
  BY DEF IsStored, Drain, DrainQueue, Local, InOrder
<1>2. /\ Deliver(q, n)
      /\ UNCHANGED <<outboundNonce, storedPayload, storedNonce, dropped, leftBehind,
                     overwritten, copied>>
      /\ s # <<>> /\ msgsToDeliver'[q] = Tail(s)
  BY DEF Drain, DrainQueue, TypeOK, EndpointTypeOK
<1>3. /\ Head(s) = s[1] /\ 1 \in DOMAIN s
      /\ DOMAIN s \subseteq Nat \ {0}
      /\ \A i \in DOMAIN msgsToDeliver'[q] :
           i \in Nat \ {0} /\ i + 1 \in DOMAIN s /\ msgsToDeliver'[q][i] = s[i + 1]
      /\ \A i \in DOMAIN s :
           i = 1 \/ \E j \in DOMAIN msgsToDeliver'[q] : msgsToDeliver'[q][j] = s[i]
      /\ Len(s) \in DOMAIN s /\ Len(msgsToDeliver'[q]) = Len(s) - 1
  <2>1. s \in Seq(QueuedPayload) /\ s # <<>>
    BY <1>2, QueueNonces
  <2>2. Tail(s) \in Seq(QueuedPayload)
    BY <2>1, TailIs
  <2>3. DOMAIN Tail(s) \subseteq Nat \ {0}
    BY <2>2
  <2>4. /\ Head(s) = s[1] /\ 1 \in DOMAIN s
        /\ DOMAIN s \subseteq Nat \ {0}
        /\ \A i \in DOMAIN Tail(s) : i + 1 \in DOMAIN s /\ Tail(s)[i] = s[i + 1]
        /\ \A i \in DOMAIN s : i = 1 \/ (i - 1 \in DOMAIN Tail(s) /\ Tail(s)[i - 1] = s[i])
        /\ Len(s) \in DOMAIN s /\ Len(Tail(s)) = Len(s) - 1
    BY <2>1, TailIs
  <2>5. \A i \in DOMAIN s : i = 1 \/ \E j \in DOMAIN Tail(s) : Tail(s)[j] = s[i]
    BY <2>4
  <2> HIDE DEF s
  <2> QED
    BY <1>2, <2>3, <2>4, <2>5
<1>4. /\ n = s[1].nonce /\ n \in Nat
      /\ \A i \in DOMAIN s :
           /\ s[i].nonce \in Nat /\ n <= s[i].nonce
           /\ i = 1 \/ n < s[i].nonce \/ n \in copied[q]
  <2>1. \A i \in DOMAIN s : s[i].nonce \in Nat /\ (i = 1 \/ 1 < i)
    BY <1>3, QueueNonces
  <2>2. \A i, j \in DOMAIN s :
          i < j => \/ s[i].nonce < s[j].nonce
                   \/ s[i].nonce = s[j].nonce /\ s[i].nonce \in copied[q]
    BY DEF Local, Apart
  <2> QED
    BY <2>1, <2>2, <1>3
<1>5. PICK z \in Nat :
        /\ DOMAIN delivered'[q] = DOMAIN delivered[q] \cup {z}
        /\ \A i \in DOMAIN delivered[q] :
             delivered'[q][i] = delivered[q][i] /\ i < z /\ i \in Nat
        /\ delivered'[q][z] = n
  BY <1>2, <1>4, OneMoreDelivered
<1>6. \A k : WasDelivered(q, k)' <=> WasDelivered(q, k) \/ k = n
  BY <1>2, <1>4, OneMoreDelivered
<1>7. \A k : /\ ~ StoredAs(q, k) /\ ~ StoredAs(q, k)'
             /\ IsQueued(q, k) <=> IsQueued(q, k)' \/ k = n
  <2>1. ASSUME NEW k, IsQueued(q, k)' PROVE IsQueued(q, k)
    BY <2>1, <1>3 DEF IsQueued
  <2>2. ASSUME NEW k, IsQueued(q, k), k # n PROVE IsQueued(q, k)'
    BY <2>2, <1>3, <1>4 DEF IsQueued
  <2>3. IsQueued(q, n)
    BY <1>3, <1>4 DEF IsQueued
  <2> QED
    BY <1>1, <2>1, <2>2, <2>3 DEF StoredAs
<1>9. /\ n \in 1 .. outboundNonce[q] /\ n \notin dropped[q] \cup overwritten[q]
      /\ n \in leftBehind[q] \/ \A j \in DOMAIN delivered[q] : delivered[q][j] <= n
      /\ \A i \in DOMAIN delivered[q] :
           /\ delivered[q][i] = n => n \in copied[q]
           /\ delivered[q][i] \in Nat
  <2>1. IsQueued(q, n)
    BY <1>7
  <2>2. /\ n \in 1 .. outboundNonce[q] /\ n \notin dropped[q] \cup overwritten[q]
        /\ n \in leftBehind[q] \/ \A j \in DOMAIN delivered[q] : delivered[q][j] <= n
    <3>1. n \in 1 .. outboundNonce[q]
      BY <1>3, <1>4 DEF Local, Placed
    <3>2. n \notin dropped[q] \cup overwritten[q]
      BY <2>1 DEF Local, Apart
    <3>3. n \in leftBehind[q] \/ \A j \in DOMAIN delivered[q] : delivered[q][j] <= n
      BY <1>3, <1>4 DEF Local, InOrder
    <3> HIDE DEF n
    <3> QED
      BY <3>1, <3>2, <3>3
  <2>3. \A i \in DOMAIN delivered[q] : delivered[q][i] = n => n \in copied[q]
    <3>1. \A i \in DOMAIN delivered[q] : WasDelivered(q, delivered[q][i])
      BY DEF WasDelivered
    <3> QED
      BY <2>1, <3>1 DEF Local, Apart
  <2> HIDE DEF n, s
  <2> QED
    BY <2>2, <2>3, QueueNonces
<1>10. \A i \in DOMAIN msgsToDeliver'[q] :
         \E j \in DOMAIN s : /\ msgsToDeliver'[q][i] = s[j]
                             /\ s[j].nonce \in Nat
                             /\ n < s[j].nonce \/ (n = s[j].nonce /\ n \in copied[q])
  <2> HIDE DEF n, s
  <2> SUFFICES ASSUME NEW i \in DOMAIN msgsToDeliver'[q]
               PROVE  \E j \in DOMAIN s :
                        /\ msgsToDeliver'[q][i] = s[j]
                        /\ s[j].nonce \in Nat
                        /\ n < s[j].nonce \/ (n = s[j].nonce /\ n \in copied[q])
    OBVIOUS
  <2>1. /\ i \in Nat \ {0} /\ i + 1 \in DOMAIN s
        /\ msgsToDeliver'[q][i] = s[i + 1]
    BY <1>3
  <2>2. i + 1 # 1
    BY <2>1
  <2>3. /\ s[i + 1].nonce \in Nat /\ n \in Nat /\ n <= s[i + 1].nonce
        /\ n < s[i + 1].nonce \/ n \in copied[q]
    BY <1>4, <2>1, <2>2
  <2>4. n < s[i + 1].nonce \/ (n = s[i + 1].nonce /\ n \in copied[q])
    BY <2>3
  <2> QED
    BY <2>1, <2>3, <2>4
<1>8. /\ \A k : IsQueued(q, k)' /\ k = n => n \in copied[q]
      /\ resuming' # q => DOMAIN msgsToDeliver'[q] = {}
  <2>1. \A k : IsQueued(q, k)' /\ k = n => n \in copied[q]
    <3>1. \A x \in Nat : n < x => x # n
      BY <1>4
    <3> HIDE DEF n, s
    <3> QED
      BY <1>10, <3>1 DEF IsQueued
  <2>2. resuming' = IF msgsToDeliver'[q] = <<>> THEN NoPath ELSE q
    BY <1>2 DEF Drain, DrainQueue
  <2> QED
    BY <2>1, <2>2
<1>11. \A k : IsQueued(q, k)' => resuming' = q
  BY <1>8 DEF IsQueued
<1>12. Placed(q)'
  <2> HIDE DEF n, s
  <2>1. \A i \in DOMAIN msgsToDeliver'[q] :
          msgsToDeliver'[q][i].nonce \in 1 .. outboundNonce[q]
    BY <1>7 DEF Local, Placed, IsQueued
  <2> QED
    BY <2>1, <1>1, <1>2, <1>5, <1>6, <1>7, <1>9 DEF Local, Placed
<1>13. Apart(q)'
  <2>1. \A i, j \in DOMAIN msgsToDeliver'[q] :
          i < j => \/ msgsToDeliver'[q][i].nonce < msgsToDeliver'[q][j].nonce
                   \/ /\ msgsToDeliver'[q][i].nonce = msgsToDeliver'[q][j].nonce
                      /\ msgsToDeliver'[q][i].nonce \in copied[q]
    <3>1. \A i, j \in DOMAIN s :
            i < j => \/ s[i].nonce < s[j].nonce
                     \/ s[i].nonce = s[j].nonce /\ s[i].nonce \in copied[q]
      BY DEF Local, Apart
    <3>2. \A i, j \in Nat : i < j => i + 1 < j + 1
      OBVIOUS
    <3>3. \A i \in DOMAIN msgsToDeliver'[q] :
            i \in Nat /\ i + 1 \in DOMAIN s /\ msgsToDeliver'[q][i] = s[i + 1]
      BY <1>3
    <3> HIDE DEF n, s
    <3> QED
      BY <3>1, <3>2, <3>3
  <2>2. \A i \in DOMAIN msgsToDeliver'[q] :
          i < Len(msgsToDeliver'[q]) =>
            msgsToDeliver'[q][i].nonce
              < msgsToDeliver'[q][Len(msgsToDeliver'[q])].nonce
    <3> DEFINE end == Len(msgsToDeliver'[q])
    <3> SUFFICES ASSUME NEW i \in DOMAIN msgsToDeliver'[q], i < end
                 PROVE  msgsToDeliver'[q][i].nonce < msgsToDeliver'[q][end].nonce
      OBVIOUS
    <3>1. end \in Nat /\ DOMAIN msgsToDeliver'[q] = 1 .. end
      <4>1. s \in Seq(QueuedPayload) /\ s # <<>>
        BY <1>2, QueueNonces
      <4>2. Tail(s) \in Seq(QueuedPayload)
        BY <4>1, TailIs
      <4> QED
        BY <4>2, <1>2
    <3>2. end \in DOMAIN msgsToDeliver'[q] /\ end + 1 = Len(s)
      BY <3>1, <1>3
    <3>3. /\ i + 1 \in DOMAIN s /\ i + 1 < Len(s)
          /\ msgsToDeliver'[q][i] = s[i + 1] /\ msgsToDeliver'[q][end] = s[Len(s)]
      <4>1. i \in Nat /\ i + 1 < end + 1
        BY <3>1
      <4>2. \A j \in DOMAIN msgsToDeliver'[q] :
              j + 1 \in DOMAIN s /\ msgsToDeliver'[q][j] = s[j + 1]
        BY <1>3
      <4> HIDE DEF end, s
      <4> QED
        BY <4>1, <4>2, <3>2
    <3>4. s[i + 1].nonce < s[Len(s)].nonce
      BY <3>3 DEF Local, Apart
    <3> QED
      BY <3>3, <3>4
  <2>3. ASSUME NEW k, WasDelivered(q, k)'
        PROVE  /\ IsQueued(q, k)' => resuming' = q /\ k \in copied[q]
               /\ k \notin dropped[q] \cup overwritten[q]
    <3> HIDE DEF n, s
    <3> QED
      BY <2>3, <1>6, <1>7, <1>8, <1>9, <1>11 DEF Local, Apart
  <2>4. ASSUME NEW k, IsQueued(q, k)'
        PROVE  k \notin dropped[q] \cup overwritten[q]
    <3> HIDE DEF n, s
    <3> QED
      BY <2>4, <1>7 DEF Local, Apart
  <2>5. \A i, j \in DOMAIN delivered'[q] :
          delivered'[q][i] = delivered'[q][j] => i = j \/ delivered'[q][i] \in copied[q]
    <3> HIDE DEF n, s
    <3> QED
      BY <1>5, <1>9 DEF Local, Apart
  <2>6. dropped[q] \cap overwritten[q] = {}
    BY DEF Local, Apart
  <2> HIDE DEF n, s
  <2> QED
    BY <2>1, <2>2, <2>3, <2>4, <2>5, <2>6, <1>1, <1>2, <1>7 DEF Apart
<1>14. InOrder(q)'
  <2>1. ASSUME NEW i \in DOMAIN msgsToDeliver'[q]
        PROVE  msgsToDeliver'[q][i].nonce \in leftBehind'[q]
                 \/ \A j \in DOMAIN delivered'[q] :
                      delivered'[q][j] <= msgsToDeliver'[q][i].nonce
    <3>1. PICK j \in DOMAIN s : /\ msgsToDeliver'[q][i] = s[j]
                                /\ s[j].nonce \in Nat
                                /\ n <= s[j].nonce
      BY <1>10, <1>4
    <3>2. s[j].nonce \in leftBehind[q]
            \/ \A k \in DOMAIN delivered[q] : delivered[q][k] <= s[j].nonce
      BY DEF Local, InOrder
    <3> HIDE DEF n, s
    <3> QED
      BY <3>1, <3>2, <1>2, <1>5
  <2>2. \A i, j \in DOMAIN delivered'[q] :
          i < j => delivered'[q][j] \in leftBehind'[q]
                     \/ delivered'[q][i] <= delivered'[q][j]
    <3> HIDE DEF n
    <3>1. \A i, j \in DOMAIN delivered[q] :
            i < j => delivered[q][j] \in leftBehind[q]
                       \/ delivered[q][i] <= delivered[q][j]
      BY DEF Local, InOrder
    <3> QED
      BY <3>1, <1>2, <1>5, <1>9
  <2> QED
    BY <2>1, <2>2, <1>1, <1>8 DEF InOrder
<1> QED
  BY <1>12, <1>13, <1>14 DEF Local

\* A send ends in one of three ways on its own path.
LEMMA SendLocal ==
  ASSUME TypeOK, NEW q \in Path, Local(q), NEW p \in Payload, Send(q, p)
  PROVE  Local(q)'
<1>1. /\ outboundNonce'[q] = NextNonce(q)
      /\ resuming # q /\ resuming' # q
      /\ UNCHANGED <<dropped, leftBehind>>
  <2>1. TakeNonce(q) /\ UNCHANGED <<dropped, leftBehind>>
    BY DEF Send, ReceiveQueued, ReceiveBlocked, ReceiveReverted,
           ReceiveDelivered
  <2> QED
    BY <2>1, NoPathAssumption DEF TakeNonce, NextNonce, TypeOK, EndpointTypeOK
<1>2. ASSUME ReceiveQueued(q, p), NoteShift(q), UNCHANGED <<storedNonce, delivered>>
      PROVE  Local(q)'
  BY <1>1, <1>2, QueueingLocal DEF ReceiveQueued, TypeOK, EndpointTypeOK
<1>3. ASSUME ReceiveBlocked(q, p) \/ ReceiveReverted(q, p),
             NoteStored(q, NextNonce(q)), UNCHANGED <<delivered, overwritten, copied>>
      PROVE  Local(q)'
  <2>1. /\ storedPayload[q] = NoPayload
        /\ storedPayload'[q] = p /\ storedNonce'[q] = NextNonce(q)
        /\ UNCHANGED msgsToDeliver
    BY <1>3 DEF ReceiveBlocked, ReceiveReverted, StorePayload, PathClear, NoteStored,
                TypeOK, EndpointTypeOK
  <2> QED
    BY <1>1, <1>3, <2>1, StoringLocal
<1>4. ASSUME ReceiveDelivered(q), Deliver(q, NextNonce(q)),
             UNCHANGED <<storedNonce, overwritten, copied>>
      PROVE  Local(q)'
  BY <1>1, <1>4, DeliveringLocal DEF ReceiveDelivered, PathClear
<1> QED
  BY <1>2, <1>3, <1>4 DEF Send

\* On every other path nothing happens, and blocking touches no path.
LEMMA PathStepElsewhere ==
  ASSUME TypeOK, NEW q \in Path, NEW r \in Path, r # q, Local(r),
         (\E p \in Payload : Send(q, p)) \/ Retry(q) \/ Resume(q) \/ Drain(q)
  PROVE  Local(r)'
<1>1. resuming' \in {resuming, NoPath, q} /\ (resuming' # resuming => resuming \in {q, NoPath})
  BY DEF Send, TakeNonce, ReceiveQueued, ReceiveBlocked, ReceiveReverted, ReceiveDelivered,
         Retry, RetryPayload, Resume, ForceResumeReceive, Drain, DrainQueue
<1>2. /\ outboundNonce'[r] = outboundNonce[r]
      /\ storedPayload'[r] = storedPayload[r]
      /\ msgsToDeliver'[r] = msgsToDeliver[r]
  BY DEF Send, TakeNonce, ReceiveQueued, ReceiveBlocked, ReceiveReverted, ReceiveDelivered,
         StorePayload, EmptyStored, Retry, RetryPayload, Resume, ForceResumeReceive,
         Drain, DrainQueue, TypeOK, EndpointTypeOK
<1>3. /\ storedNonce'[r] = storedNonce[r]
      /\ delivered'[r] = delivered[r]
      /\ dropped'[r] = dropped[r]
      /\ leftBehind'[r] = leftBehind[r]
      /\ overwritten'[r] = overwritten[r]
      /\ copied'[r] = copied[r]
  BY DEF Send, Retry, Resume, Drain, Deliver, NoteStored, NoteShift, TypeOK
<1>4. resuming' = r <=> resuming = r
  BY <1>1, NoPathAssumption
<1> QED
  BY <1>2, <1>3, <1>4, Elsewhere

LEMMA StepIInv == IInv /\ [Next]_vars => IInv'
<1> SUFFICES ASSUME IInv, [Next]_vars PROVE IInv'
  OBVIOUS
<1>1. TypeOK /\ \A q \in Path : Local(q)
  BY DEF IInv, Local
<1>2. TypeOK'
  BY <1>1, TypeStep
<1>3. ASSUME NEW r \in Path PROVE Local(r)'
  <2>1. ASSUME NEW q \in Path,
               (\E p \in Payload : Send(q, p)) \/ Retry(q) \/ Resume(q) \/ Drain(q)
        PROVE  Local(r)'
    <3>1. CASE r = q
      BY <1>1, <2>1, <3>1, SendLocal, RetryLocal, ResumeLocal, DrainLocal
    <3>2. CASE r # q
      BY <1>1, <2>1, <3>2, PathStepElsewhere
    <3> QED
      BY <3>1, <3>2
  <2>2. ASSUME NEW c \in Chain, Block(c) PROVE Local(r)'
    BY <1>1, <2>2, Elsewhere DEF Block, BlockNextMsg, historyVars
  <2>3. ASSUME UNCHANGED vars PROVE Local(r)'
    BY <1>1, <2>3, Elsewhere DEF vars, endpointVars, historyVars
  <2> QED
    BY <2>1, <2>2, <2>3 DEF Next
<1> QED
  BY <1>2, <1>3 DEF IInv, Local

LEMMA Inductive == Spec => []IInv
<1>1. Init => IInv
  BY InitType, InitLocal DEF IInv, Local
<1> QED
  BY <1>1, StepIInv, PTL DEF Spec

-----------------------------------------------------------------------------
\* The places message by message are the places as sets.
LEMMA PlacesAreSets == IInv => ExactlyOnePlace
<1> SUFFICES ASSUME IInv, NEW q \in Path
    PROVE  /\ ElementsOf(delivered[q]) \cup StoredNonces(q) \cup QueuedNonces(q)
                \cup dropped[q] \cup overwritten[q] = 1 .. outboundNonce[q]
           /\ \A i, j \in DOMAIN delivered[q] :
                i # j /\ delivered[q][i] = delivered[q][j]
                  => delivered[q][i] \in copied[q]
           /\ \A i, j \in DOMAIN msgsToDeliver[q] :
                i < j => \/ msgsToDeliver[q][i].nonce < msgsToDeliver[q][j].nonce
                         \/ /\ msgsToDeliver[q][i].nonce = msgsToDeliver[q][j].nonce
                            /\ msgsToDeliver[q][i].nonce \in copied[q]
           /\ ElementsOf(delivered[q]) \cap QueuedNonces(q)
                \subseteq IF resuming = q THEN copied[q] ELSE {}
           /\ overwritten[q] \cap (ElementsOf(delivered[q]) \cup StoredNonces(q)
                                    \cup QueuedNonces(q) \cup dropped[q]) = {}
           /\ dropped[q] \cap (ElementsOf(delivered[q]) \cup QueuedNonces(q)) = {}
           /\ StoredNonces(q) \cap (ElementsOf(delivered[q]) \cup QueuedNonces(q)
                                     \cup dropped[q]) = {}
  BY DEF ExactlyOnePlace
<1>1. Placed(q) /\ Apart(q)
  BY DEF IInv
<1>2. \A n : n \in ElementsOf(delivered[q]) <=> WasDelivered(q, n)
  BY DEF ElementsOf, WasDelivered
<1>3. \A n : n \in QueuedNonces(q) <=> IsQueued(q, n)
  BY DEF ElementsOf, QueuedNonces, IsQueued
<1>4. \A n : n \in StoredNonces(q) <=> StoredAs(q, n)
  BY DEF StoredNonces, StoredAs, IsStored
<1>5. ASSUME NEW n
      PROVE  n \in 1 .. outboundNonce[q] <=>
               \/ WasDelivered(q, n) \/ StoredAs(q, n) \/ IsQueued(q, n)
               \/ n \in dropped[q] \/ n \in overwritten[q]
  BY <1>1 DEF Placed, WasDelivered, StoredAs, IsQueued
<1>6. ASSUME NEW n
      PROVE  /\ WasDelivered(q, n) => /\ ~ StoredAs(q, n) /\ n \notin dropped[q]
                                      /\ n \notin overwritten[q]
             /\ WasDelivered(q, n) /\ IsQueued(q, n) => resuming = q /\ n \in copied[q]
             /\ IsQueued(q, n) => /\ ~ StoredAs(q, n) /\ n \notin dropped[q]
                                  /\ n \notin overwritten[q]
             /\ StoredAs(q, n) => n \notin dropped[q] /\ n \notin overwritten[q]
             /\ n \in dropped[q] => n \notin overwritten[q]
  BY <1>1 DEF Apart, WasDelivered, StoredAs, IsQueued
<1>7. /\ \A i, j \in DOMAIN delivered[q] :
           i # j /\ delivered[q][i] = delivered[q][j] => delivered[q][i] \in copied[q]
      /\ \A i, j \in DOMAIN msgsToDeliver[q] :
           i < j => \/ msgsToDeliver[q][i].nonce < msgsToDeliver[q][j].nonce
                    \/ /\ msgsToDeliver[q][i].nonce = msgsToDeliver[q][j].nonce
                       /\ msgsToDeliver[q][i].nonce \in copied[q]
  BY <1>1 DEF Apart
<1>8. ElementsOf(delivered[q]) \cap QueuedNonces(q)
        \subseteq IF resuming = q THEN copied[q] ELSE {}
  BY <1>2, <1>3, <1>6
<1> QED
  BY <1>2, <1>3, <1>4, <1>5, <1>6, <1>7, <1>8

\* Every message sent along a path is delivered, stored, queued in the order
\* sent, dropped by forceResumeReceive or overwritten by the shift loop, one
\* at a time; none is lost otherwise, and only what the loop copied is ever
\* queued or delivered twice.
THEOREM NothingLostNorTwice == Spec => []ExactlyOnePlace
BY Inductive, PlacesAreSets, PTL

\* A message is delivered after a younger one only if retryPayload had left it
\* in the queue: the order the endpoint really keeps.
THEOREM OrderKeptButByRetry == Spec => []DisorderOnlyAfterRetry
<1>1. IInv => DisorderOnlyAfterRetry
  BY DEF IInv, InOrder, DisorderOnlyAfterRetry
<1> QED
  BY <1>1, Inductive, PTL

\* Nothing is delivered on a path in a step that finds and leaves a message
\* stored there.
THEOREM StoredBlocksPath == Spec => NeverPastStored
<1> DEFINE Waits == \A q \in Path :
                      storedPayload[q] # NoPayload /\ storedPayload'[q] # NoPayload
                        => delivered'[q] = delivered[q]
<1>1. IInv /\ [Next]_vars => [Waits]_vars
  <2> SUFFICES ASSUME IInv, Next PROVE Waits
    OBVIOUS
  <2> SUFFICES ASSUME NEW q \in Path,
                      storedPayload[q] # NoPayload, storedPayload'[q] # NoPayload
               PROVE  delivered'[q] = delivered[q]
    OBVIOUS
  <2>1. TypeOK /\ InOrder(q)
    BY DEF IInv
  <2>2. ASSUME NEW r \in Path, NEW p \in Payload, Send(r, p)
        PROVE  delivered'[q] = delivered[q]
    BY <2>1, <2>2 DEF Send, ReceiveDelivered, PathClear, Deliver, historyVars, TypeOK
  <2>3. ASSUME NEW r \in Path, Retry(r) PROVE delivered'[q] = delivered[q]
    BY <2>1, <2>3 DEF Retry, RetryPayload, EmptyStored, Deliver, TypeOK, EndpointTypeOK
  <2>4. ASSUME NEW r \in Path, Drain(r) PROVE delivered'[q] = delivered[q]
    <3>1. q # r
      BY <2>1, <2>4 DEF Drain, DrainQueue, InOrder, IsStored
    <3> QED
      BY <2>1, <2>4, <3>1 DEF Drain, Deliver, TypeOK
  <2>5. ASSUME NEW r \in Path, Resume(r) PROVE delivered'[q] = delivered[q]
    BY <2>5 DEF Resume
  <2>6. ASSUME NEW c \in Chain, Block(c) PROVE delivered'[q] = delivered[q]
    BY <2>6 DEF Block, historyVars
  <2> QED
    BY <2>2, <2>3, <2>4, <2>5, <2>6 DEF Next
<1> QED
  BY <1>1, Inductive, PTL DEF Spec, NeverPastStored

-----------------------------------------------------------------------------
(***************************************************************************)
(* The accounts of an inbound message.                                     *)
(***************************************************************************)
\* What is joined can be taken apart again.
JoinOf(l, s, t) ==
  /\ Len(l) = Len(s) + Len(t)
  /\ \A i \in 1 .. Len(s) : l[i] = s[i]
  /\ \A i \in 1 .. Len(t) : l[Len(s) + i] = t[i]
  /\ SubSeq(l, 1, Len(s)) = s
  /\ SubSeq(l, Len(s) + 1, Len(l)) = t

LEMMA Joined ==
  ASSUME NEW S, NEW s \in Seq(S), NEW t \in Seq(S), NEW l, l = s \o t
  PROVE  l \in Seq(S) /\ Len(s) \in Nat /\ Len(t) \in Nat /\ JoinOf(l, s, t)
<1> DEFINE m == Len(s)
           n == Len(t)
<1>1. /\ m \in Nat /\ n \in Nat
      /\ l \in Seq(S) /\ Len(l) = m + n
      /\ \A i \in 1 .. m + n : l[i] = IF i <= m THEN s[i] ELSE t[i - m]
  BY ConcatProperties, LenProperties
<1>2. /\ \A i \in 1 .. m : s[i] \in S
      /\ \A i \in 1 .. n : t[i] \in S
  BY ElementOfSeq
<1> HIDE DEF m, n
<1>3. \A i \in 1 .. m : l[i] = s[i]
  BY <1>1
<1>4. \A i \in 1 .. n : l[m + i] = t[i]
  <2>1. ASSUME NEW i \in 1 .. n PROVE l[m + i] = t[i]
    <3>1. m + i \in 1 .. m + n /\ ~ (m + i <= m) /\ (m + i) - m = i
      BY <1>1
    <3> QED BY <1>1, <3>1
  <2> QED BY <2>1
<1>5. SubSeq(l, 1, m) = s
  <2>1. /\ SubSeq(l, 1, m) \in Seq(S)
        /\ Len(SubSeq(l, 1, m)) = IF 1 <= m THEN m - 1 + 1 ELSE 0
        /\ \A i \in 1 .. m - 1 + 1 : SubSeq(l, 1, m)[i] = l[1 + i - 1]
    <3>1. \A i \in 1 .. m : l[i] \in S
      BY <1>2, <1>3
    <3> QED BY <1>1, <3>1, SubSeqProperties
  <2>2. Len(SubSeq(l, 1, m)) = Len(s) /\ \A i \in 1 .. Len(s) : SubSeq(l, 1, m)[i] = s[i]
    <3>1. Len(s) = m
      BY DEF m
    <3>2. m - 1 + 1 = m /\ (~(1 <= m) => m = 0)
      BY <1>1
    <3>3. ASSUME NEW i \in 1 .. m PROVE SubSeq(l, 1, m)[i] = s[i]
      <4>1. 1 + i - 1 = i
        OBVIOUS
      <4> QED BY <1>3, <2>1, <3>2, <4>1
    <3> QED BY <2>1, <3>1, <3>2, <3>3
  <2> QED BY <2>1, <2>2, SeqEqual
<1>6. SubSeq(l, m + 1, m + n) = t
  <2> DEFINE f == m + 1
             k == m + n
             r == SubSeq(l, f, k)
  <2>1. /\ r \in Seq(S)
        /\ Len(r) = IF f <= k THEN k - f + 1 ELSE 0
        /\ \A i \in 1 .. k - f + 1 : r[i] = l[f + i - 1]
    <3>1. f \in Int /\ k \in Int
      BY <1>1
    <3>2. \A i \in f .. k : l[i] \in S
      <4>1. ASSUME NEW i \in f .. k PROVE l[i] \in S
        <5>1. i - m \in 1 .. n /\ m + (i - m) = i
          BY <1>1
        <5> QED BY <1>2, <1>4, <5>1
      <4> QED BY <4>1
    <3> HIDE DEF f, k
    <3> QED BY ONLY <3>1, <3>2, SubSeqProperties
  <2> HIDE DEF r
  <2>2. Len(r) = Len(t) /\ \A i \in 1 .. Len(t) : r[i] = t[i]
    <3>1. Len(t) = n
      BY DEF n
    <3>2. (m + n) - (m + 1) + 1 = n /\ (~(m + 1 <= m + n) => n = 0)
      BY <1>1
    <3>3. ASSUME NEW i \in 1 .. n PROVE r[i] = t[i]
      <4>1. (m + 1) + i - 1 = m + i
        BY <1>1
      <4> QED BY <1>4, <2>1, <3>2, <4>1
    <3> QED BY <2>1, <3>1, <3>2, <3>3
  <2> QED BY <2>1, <2>2, SeqEqual DEF r
<1> QED
  BY <1>1, <1>3, <1>4, <1>5, <1>6 DEF m, n, JoinOf

\* ... and joined in another order.
LEMMA Regrouped ==
  ASSUME NEW S, NEW s \in Seq(S), NEW t \in Seq(S), NEW u \in Seq(S),
         NEW st, NEW tu, st = s \o t, tu = t \o u
  PROVE  st \o u = s \o tu
<1>1. (s \o t) \o u = s \o (t \o u)
  BY ConcatAssociative
<1> QED BY <1>1

\* The accounts a list for a message is made of.
Listed(m) ==
  [pubkey : {<<name>> : name \in {"payer", "peer", "config", "escrow", "program",
                                  "mint", "token_program", "ata_program",
                                  "system_program", "event_authority"}}
              \cup {<<name, m.to>> : name \in {"wallet", "token_dest"}}
              \cup {<<"clear", m.nonce, i>> : i \in 1 .. ClearLen}
              \cup {<<"compose", m.nonce, Composed(m), i>> : i \in 1 .. ComposeLen},
   is_signer : BOOLEAN, is_writable : BOOLEAN]

\* The four parts of a list are sequences, of the lengths the code counts on.
LEMMA Parts ==
  ASSUME NEW m
  PROVE  /\ Leading(m) \in Seq(Listed(m)) /\ Len(Leading(m)) = 10
         /\ EventAccounts \in Seq(Listed(m)) /\ Len(EventAccounts) = 2
         /\ ClearAccounts(m) \in Seq(Listed(m)) /\ Len(ClearAccounts(m)) = ClearLen
         /\ ComposeAccounts(m, Composed(m)) \in Seq(Listed(m))
         /\ Len(ComposeAccounts(m, Composed(m))) \in {0, ComposeLen}
<1> DEFINE S == Listed(m)
           d == ComposeAccounts(m, Composed(m))
<1>1. /\ Account(<<"payer">>, TRUE, TRUE) \in S
      /\ Writable(<<"peer">>) \in S
      /\ ReadOnly(<<"config">>) \in S
      /\ EscrowAccount \in S
      /\ ReadOnly(<<"wallet", m.to>>) \in S
      /\ Writable(<<"token_dest", m.to>>) \in S
      /\ Writable(<<"mint">>) \in S
      /\ ReadOnly(<<"token_program">>) \in S
      /\ ReadOnly(<<"ata_program">>) \in S
      /\ ReadOnly(<<"system_program">>) \in S
      /\ ReadOnly(<<"event_authority">>) \in S
      /\ ReadOnly(<<"program">>) \in S
  BY DEF Listed, Account, Writable, ReadOnly, EscrowAccount
<1>2. \A i \in 1 .. ClearLen : Writable(<<"clear", m.nonce, i>>) \in S
  BY DEF Listed, Account, Writable
<1>3. \A i \in 1 .. ComposeLen : Writable(<<"compose", m.nonce, Composed(m), i>>) \in S
  BY DEF Listed, Account, Writable
<1> HIDE DEF S
<1>4. Leading(m) \in Seq(S) /\ Len(Leading(m)) = 10
  <2> DEFINE payer == Account(<<"payer">>, TRUE, TRUE)
             wallet == ReadOnly(<<"wallet", m.to>>)
             dest == Writable(<<"token_dest", m.to>>)
  <2>1. Leading(m) = << payer, Writable(<<"peer">>), ReadOnly(<<"config">>), EscrowAccount,
                        wallet, dest, Writable(<<"mint">>),
                        ReadOnly(<<"token_program">>), ReadOnly(<<"ata_program">>),
                        ReadOnly(<<"system_program">>) >>
    BY DEF Leading
  <2>2. payer \in S /\ wallet \in S /\ dest \in S
    BY <1>1
  <2> HIDE DEF payer, wallet, dest
  <2> QED BY <1>1, <2>1, <2>2
<1>5. EventAccounts \in Seq(S) /\ Len(EventAccounts) = 2
  BY <1>1 DEF EventAccounts
<1>6. ClearAccounts(m) \in Seq(S) /\ Len(ClearAccounts(m)) = ClearLen
  BY <1>2, AccountsAssumption DEF ClearAccounts
<1>7. d \in Seq(S) /\ Len(d) \in {0, ComposeLen}
  BY <1>3, AccountsAssumption DEF ComposeAccounts
<1> QED
  BY <1>4, <1>5, <1>6, <1>7 DEF S

\* The two files agree on the ten accounts, for either kind of configuration.
LEMMA LeadingFits ==
  ASSUME NEW m
  PROVE  Leading(m) = Declared(m) /\ Len(Declared(m)) = 10 /\ DOMAIN Declared(m) = 1 .. 10
<1>1. Leading(m) = Declared(m)
  BY DEF Leading, Declared, EscrowAccount
<1> QED BY <1>1, Parts DEF Declared

\* lz_receive finds its accounts in any list that starts with those ten.
LEMMA DeclaredFits ==
  ASSUME NEW m, NEW b \in Seq(Listed(m)), NEW l, l = Leading(m) \o b
  PROVE  DeclaredFit(l, m)
<1> DEFINE a == Leading(m)
<1>1. a \in Seq(Listed(m)) /\ Len(a) = 10
  BY Parts
<1> HIDE DEF a
<1>2. Len(b) \in Nat /\ JoinOf(l, a, b)
  <2>1. l = a \o b
    BY DEF a
  <2> QED BY <1>1, <2>1, Joined
<1>3. Len(l) >= 10 /\ \A i \in 1 .. 10 : l[i] = a[i]
  <2>1. Len(l) = Len(a) + Len(b) /\ \A i \in 1 .. Len(a) : l[i] = a[i]
    BY <1>2 DEF JoinOf
  <2>2. Len(a) = 10 /\ Len(b) \in Nat
    BY <1>1, <1>2
  <2> QED BY <2>1, <2>2
<1>4. \A i \in 1 .. 10 : l[i] = Declared(m)[i]
  BY <1>3, LeadingFits DEF a
<1> QED
  BY <1>3, <1>4, LeadingFits DEF DeclaredFit, Satisfies

\* A whole list, and what is left of it without the two event accounts.
LEMMA WholeList ==
  ASSUME NEW m
  PROVE  LET l == LzReceiveTypes(m)
             d == ComposeAccounts(m, Composed(m))
             b == ClearAccounts(m) \o d
         IN  /\ b \in Seq(Listed(m)) /\ Len(b) = ClearLen + Len(d)
             /\ l = Leading(m) \o (EventAccounts \o b)
             /\ Len(l) = 12 + Len(b)
             /\ SubSeq(l, 11, Len(l)) = EventAccounts \o b
             /\ Trimmed(l) = Leading(m) \o b
<1> DEFINE S == Listed(m)
           a == Leading(m)
           e == EventAccounts
           c == ClearAccounts(m)
           d == ComposeAccounts(m, Composed(m))
           b == c \o d
           f == a \o e
           l == LzReceiveTypes(m)
<1>1. /\ a \in Seq(S) /\ Len(a) = 10
      /\ e \in Seq(S) /\ Len(e) = 2
      /\ c \in Seq(S) /\ Len(c) = ClearLen
      /\ d \in Seq(S)
  BY Parts
<1>2. l = (f \o c) \o d
  BY DEF LzReceiveTypes
<1>3. b = c \o d /\ f = a \o e
  OBVIOUS
<1> HIDE DEF S, a, e, c, d, b, f, l
<1> DEFINE g == e \o b
<1>4. g = e \o b
  OBVIOUS
<1> HIDE DEF g
<1>5. f \in Seq(S) /\ JoinOf(f, a, e)
  BY ONLY <1>1, <1>3, Joined
<1>6. b \in Seq(S) /\ JoinOf(b, c, d)
  BY ONLY <1>1, <1>3, Joined
<1>7. g \in Seq(S)
  BY ONLY <1>1, <1>4, <1>6, Joined
<1>8. l = f \o b
  <2>1. f \in Seq(S) /\ c \in Seq(S) /\ d \in Seq(S) /\ b = c \o d
    BY <1>1, <1>3, <1>5
  <2>2. (f \o c) \o d = f \o b
    BY ONLY <2>1, Regrouped
  <2> QED BY <1>2, <2>2
<1>9. l = a \o g
  <2>1. a \in Seq(S) /\ e \in Seq(S) /\ b \in Seq(S) /\ f = a \o e /\ g = e \o b
    BY <1>1, <1>3, <1>4, <1>6
  <2>2. f \o b = a \o g
    BY ONLY <2>1, Regrouped
  <2> QED BY <1>8, <2>2
<1>10. Len(b) \in Nat /\ JoinOf(l, f, b)
  BY ONLY <1>5, <1>6, <1>8, Joined
<1>11. JoinOf(l, a, g)
  BY ONLY <1>1, <1>7, <1>9, Joined
<1>12. Len(l) = 12 + Len(b) /\ SubSeq(l, 13, Len(l)) = b
  <2>1. Len(f) = 12 /\ Len(f) + 1 = 13
    BY <1>1, <1>5 DEF JoinOf
  <2> QED BY <1>10, <2>1, Zenon DEF JoinOf
<1>13. SubSeq(l, 1, 10) = a /\ SubSeq(l, 11, Len(l)) = g
  <2>1. Len(a) = 10 /\ Len(a) + 1 = 11
    BY <1>1
  <2> QED BY <1>11, <2>1, Zenon DEF JoinOf
<1>14. Trimmed(l) = a \o b
  <2>1. ~ (Len(l) < 12)
    BY <1>10, <1>12
  <2> QED BY <1>12, <1>13, <2>1, Zenon DEF Trimmed
<1>15. Len(b) = ClearLen + Len(d)
  BY <1>1, <1>6 DEF JoinOf
<1> QED
  BY <1>6, <1>9, <1>12, <1>13, <1>14, <1>15, Zenon DEF S, a, e, c, d, b, g, l

LEMMA TrimmedAccepted ==
  ASSUME NEW m
  PROVE  Accepted(Trimmed(LzReceiveTypes(m)), m)
<1> DEFINE S == Listed(m)
           a == Leading(m)
           c == ClearAccounts(m)
           d == ComposeAccounts(m, Composed(m))
           b == c \o d
           l == Trimmed(LzReceiveTypes(m))
<1>1. /\ a \in Seq(S) /\ Len(a) = Len(Declared(m))
      /\ c \in Seq(S) /\ Len(c) = ClearLen
      /\ d \in Seq(S) /\ d = ComposeAccounts(m, Received(m))
  BY Parts, LeadingFits DEF Composed
<1>2. l = a \o b /\ b \in Seq(S)
  BY WholeList, Zenon
<1>3. DeclaredFit(l, m)
  <2> HIDE DEF b, l
  <2> QED BY <1>2, DeclaredFits
<1>4. b = c \o d
  OBVIOUS
<1> HIDE DEF S, a, c, d, b, l
<1>5. /\ b \in Seq(S) /\ Len(c) \in Nat /\ Len(d) \in Nat
      /\ JoinOf(b, c, d) /\ JoinOf(l, a, b)
  <2>1. a \in Seq(S) /\ c \in Seq(S) /\ d \in Seq(S)
    BY <1>1
  <2>2. b \in Seq(S) /\ Len(c) \in Nat /\ Len(d) \in Nat /\ JoinOf(b, c, d)
    BY ONLY <1>4, <2>1, Joined
  <2>3. JoinOf(l, a, b)
    BY ONLY <1>2, <2>1, <2>2, Joined
  <2> QED BY <2>2, <2>3
<1>6. Remaining(l, m) = b
  BY <1>1, <1>5 DEF Remaining, JoinOf
<1>7. Len(Remaining(l, m)) >= ClearLen
  BY <1>1, <1>5, <1>6 DEF JoinOf
<1>8. ForClear(l, m) = c /\ ForCompose(l, m) = d
  BY <1>1, <1>5, <1>6 DEF ForClear, ForCompose, JoinOf
<1>9. Accepted(l, m)
  BY <1>1, <1>3, <1>7, <1>8, Zenon DEF Accepted, c
<1> QED BY <1>9 DEF l

\* As it is returned, the list has the event authority where the first account
\* for clear is looked for, which has to be writable.
LEMMA ReturnedRefused ==
  ASSUME NEW m
  PROVE  ~ Accepted(LzReceiveTypes(m), m)
<1> DEFINE S == Listed(m)
           e == EventAccounts
           d == ComposeAccounts(m, Composed(m))
           b == ClearAccounts(m) \o d
           r == e \o b
           l == LzReceiveTypes(m)
<1>1. /\ b \in Seq(S) /\ Len(b) = ClearLen + Len(d) /\ Len(d) \in Nat
      /\ SubSeq(l, 11, Len(l)) = r
      /\ e \in Seq(S) /\ Len(e) = 2
  <2>1. e \in Seq(S) /\ Len(e) = 2 /\ Len(d) \in Nat
    BY Parts, AccountsAssumption
  <2>2. b \in Seq(S) /\ Len(b) = ClearLen + Len(d) /\ SubSeq(l, 11, Len(l)) = r
    BY WholeList, Zenon
  <2> QED BY <2>1, <2>2, Zenon
<1>2. Remaining(l, m) = r
  <2>1. Len(Declared(m)) + 1 = 11
    <3>1. Len(Declared(m)) = 10
      BY LeadingFits, Zenon
    <3> QED BY <3>1
  <2> HIDE DEF l, r
  <2> QED BY <1>1, <2>1, Zenon DEF Remaining
<1>3. r = e \o b
  OBVIOUS
<1>4. e[1].is_writable = FALSE /\ ClearAccounts(m)[1].is_writable = TRUE
  BY AccountsAssumption DEF EventAccounts, ClearAccounts, ReadOnly, Writable, Account
<1> HIDE DEF S, e, d, b, r, l
<1>5. r \in Seq(S) /\ Len(r) = 2 + ClearLen + Len(d) /\ r[1] = e[1]
  <2>1. r \in Seq(S) /\ JoinOf(r, e, b)
    BY <1>1, <1>3, Joined
  <2> QED BY <1>1, <2>1, AccountsAssumption DEF JoinOf
<1>6. ForClear(l, m)[1] = e[1]
  <2>1. ForClear(l, m) = SubSeq(r, 1, ClearLen)
    BY <1>2 DEF ForClear
  <2>2. \A i \in 1 .. ClearLen : r[i] \in S
    BY <1>1, <1>5, AccountsAssumption, ElementOfSeq
  <2>3. SubSeq(r, 1, ClearLen)[1] = r[1 + 1 - 1]
    BY ONLY <2>2, AccountsAssumption, SubSeqProperties
  <2>4. r[1 + 1 - 1] = r[1]
    OBVIOUS
  <2> QED BY <1>5, <2>1, <2>3, <2>4, Zenon
<1>7. ForClear(l, m) # ClearAccounts(m)
  BY <1>4, <1>6
<1> QED
  BY <1>7 DEF Accepted, l

\* An executor's list has one of two lengths, whatever message it is of.
THEOREM AccountsTypeCorrect == AccountsSpec => []AccountsTypeOK
<1>1. AccountsInit => AccountsTypeOK
  BY DEF AccountsInit, AccountsTypeOK
<1>2. AccountsTypeOK /\ [AccountsNext]_accountsVars => AccountsTypeOK'
  <2> SUFFICES ASSUME AccountsTypeOK, [AccountsNext]_accountsVars
               PROVE  AccountsTypeOK'
    OBVIOUS
  <2>1. ASSUME NEW m \in Message, Verify(m) PROVE AccountsTypeOK'
    BY <2>1 DEF AccountsTypeOK, Verify
  <2>2. ASSUME NEW f \in Fee, NewEpoch(f) PROVE AccountsTypeOK'
    BY <2>2 DEF AccountsTypeOK, NewEpoch
  <2>3. CASE List
    <3>1. Len(LzReceiveTypes(pending)) - 12 - ClearLen \in {0, ComposeLen}
      <4> DEFINE d == ComposeAccounts(pending, Composed(pending))
                 b == ClearAccounts(pending) \o d
                 l == LzReceiveTypes(pending)
      <4>1. Len(l) = 12 + Len(b) /\ Len(b) = ClearLen + Len(d)
        BY WholeList, Zenon
      <4>2. Len(d) \in {0, ComposeLen}
        BY Parts
      <4> HIDE DEF d, b, l
      <4>3. Len(l) - 12 - ClearLen = Len(d)
        BY <4>1, <4>2, AccountsAssumption
      <4> QED BY <4>2, <4>3 DEF l
    <3> QED BY <2>3, <3>1 DEF AccountsTypeOK, List
  <2>4. ASSUME NEW accounts, LzReceive(accounts) PROVE AccountsTypeOK'
    BY <2>4 DEF AccountsTypeOK, LzReceive
  <2>5. CASE UNCHANGED accountsVars
    BY <2>5 DEF AccountsTypeOK, accountsVars
  <2> QED
    BY <2>1, <2>2, <2>3, <2>4, <2>5 DEF AccountsNext
<1> QED
  BY <1>1, <1>2, PTL DEF AccountsSpec

\* The list of lz_receive_types is refused as it is, and accepted without its
\* two event accounts, for any message, fee and numbers of the endpoint's
\* accounts, and for both kinds of configuration.
THEOREM AccountListsAgree == AccountsSpec => []AccountsFit
<1>1. AccountsFit
  <2>1. Accepted(Trimmed(LzReceiveTypes(pending)), pending)
    BY TrimmedAccepted
  <2>2. ~ Accepted(LzReceiveTypes(pending), pending)
    BY ReturnedRefused
  <2>3. DeclaredFit(LzReceiveTypes(pending), pending)
    <3> DEFINE b == ClearAccounts(pending) \o ComposeAccounts(pending, Composed(pending))
               g == EventAccounts \o b
               l == LzReceiveTypes(pending)
    <3>1. b \in Seq(Listed(pending)) /\ l = Leading(pending) \o g
      BY WholeList, Zenon
    <3>2. EventAccounts \in Seq(Listed(pending))
      BY Parts
    <3>3. g \in Seq(Listed(pending))
      <4> HIDE DEF b
      <4> QED BY ONLY <3>1, <3>2, ConcatProperties
    <3> HIDE DEF b, g, l
    <3>4. DeclaredFit(l, pending)
      BY ONLY <3>1, <3>3, DeclaredFits
    <3> QED BY <3>4 DEF l
  <2> QED BY <2>1, <2>2, <2>3 DEF AccountsFit
<1> QED
  BY <1>1, PTL

-----------------------------------------------------------------------------
(***************************************************************************)
(* The fee of an outbound message.                                         *)
(***************************************************************************)
\* The gas of options is the sum of their amounts, and what a sender adds to
\* the enforced ones only adds to it.
LEMMA GasType ==
  ASSUME NEW s \in Seq(Nat)
  PROVE  Gas(s) \in Nat
<1>1. DOMAIN s = 1 .. Len(s) /\ Len(s) \in Nat /\ \A i \in 1 .. Len(s) : s[i] \in Nat
  OBVIOUS
<1>2. IsFiniteSet(1 .. Len(s))
  BY <1>1, FS_Interval
<1> QED
  BY <1>1, <1>2, SumOfNaturals DEF Gas, SumFunction

LEMMA GasJoined ==
  ASSUME NEW s \in Seq(Nat), NEW t \in Seq(Nat)
  PROVE  s \o t \in Seq(Nat) /\ Gas(s \o t) >= Gas(s)
<1> DEFINE l == s \o t
<1>1. /\ l \in Seq(Nat) /\ Len(s) \in Nat /\ Len(t) \in Nat
      /\ Len(l) = Len(s) + Len(t) /\ \A i \in 1 .. Len(s) : l[i] = s[i]
  <2>1. l = s \o t
    OBVIOUS
  <2> HIDE DEF l
  <2> QED BY <2>1, Joined DEF JoinOf
<1> HIDE DEF l
<1>2. DOMAIN s = 1 .. Len(s) /\ DOMAIN l = 1 .. Len(l)
  BY <1>1
<1>3. IsFiniteSet(1 .. Len(s)) /\ IsFiniteSet(1 .. Len(l))
  BY <1>1, FS_Interval
<1>4. 1 .. Len(s) \subseteq 1 .. Len(l) /\ \A i \in 1 .. Len(l) : l[i] \in Nat
  <2>1. Len(l) \in Nat /\ Len(s) <= Len(l)
    BY <1>1
  <2>2. 1 .. Len(s) \subseteq 1 .. Len(l)
    BY <1>1, <2>1
  <2>3. \A i \in 1 .. Len(l) : l[i] \in Nat
    BY <1>1, <2>1
  <2> QED BY <2>2, <2>3
<1>5. SumFunctionOnSet(l, 1 .. Len(s)) = SumFunctionOnSet(s, 1 .. Len(s))
  BY <1>1, <1>3, SumAgree
<1>6. SumFunctionOnSet(l, 1 .. Len(s)) <= SumFunctionOnSet(l, 1 .. Len(l))
  BY <1>3, <1>4, SumPart
<1>7. Gas(s) <= Gas(l)
  BY <1>2, <1>5, <1>6 DEF Gas, SumFunction
<1>8. Gas(s) \in Nat /\ Gas(l) \in Nat
  BY <1>1, GasType
<1> QED
  BY <1>1, <1>7, <1>8 DEF l

\* What the endpoint is given for a request that is taken.
LEMMA OutgoingType ==
  ASSUME FeesTypeOK, NEW r \in Request, Takable(r)
  PROVE  /\ Outgoing(r).request = r
         /\ Outgoing(r).length \in 40 .. 72 + MAX_MSG_SIZE
         /\ Outgoing(r).options \in Seq(Nat)
<1>1. enforced.send \in Seq(Nat) /\ enforced.send_and_call \in Seq(Nat)
  BY FeesAssumption DEF FeesTypeOK, Takable
<1>2. CASE r \in Oft
  <2>1. /\ r.kind = "send" /\ Encodable(r.compose)
        /\ r.compose \in ComposeLengths \cup {NoCompose}
        /\ r.extra \in Extra \cup {NoOptions}
    BY <1>2 DEF Oft, Takable, Combinable
  <2>2. Encoded(r.compose) \in 40 .. 72 + MAX_MSG_SIZE
    <3> DEFINE n == r.compose
    <3>1. n = NoCompose \/ (n \in Nat /\ n # NoCompose)
      BY <2>1, FeesAssumption
    <3>2. n # NoCompose => n <= 700
      BY <2>1 DEF Encodable, MAX_MSG_SIZE
    <3> HIDE DEF n
    <3>3. Encoded(n) \in 40 .. 72 + 700
      BY <3>1, <3>2 DEF Encoded
    <3> QED BY <3>3 DEF n, MAX_MSG_SIZE
  <2>3. CombineOptions(r.compose, r.extra) \in Seq(Nat)
    <3>1. GetEnforcedOptions(r.compose) \in Seq(Nat)
      BY <1>1 DEF GetEnforcedOptions
    <3>2. r.extra # NoOptions => r.extra \in Seq(Nat)
      BY <2>1, FeesAssumption
    <3> QED BY <3>1, <3>2, GasJoined DEF CombineOptions
  <2> QED BY <2>1, <2>2, <2>3 DEF Outgoing
<1>3. CASE r \in Onft
  <2>1. r.kind = "send_onft"
    BY <1>3 DEF Onft
  <2>2. EncodedAbi \in 40 .. 72 + MAX_MSG_SIZE
    BY DEF EncodedAbi, ABI_END_OFFSET, MAX_MSG_SIZE
  <2>3. GetEnforcedOptions(NoCompose) \in Seq(Nat)
    BY <1>1 DEF GetEnforcedOptions
  <2> QED BY <2>1, <2>2, <2>3 DEF Outgoing
<1> QED
  BY <1>2, <1>3 DEF Request

\* The quote and the send compute the same fee, in code of their own.
LEMMA QuotedIsAsked ==
  ASSUME FeesTypeOK, NEW r \in Request, Takable(r)
  PROVE  /\ QuotedFee(r) = EndpointFee(Outgoing(r).length, Outgoing(r).options)
         /\ QuotedFee(r) \in Nat
<1>1. QuotedFee(r) = EndpointFee(Outgoing(r).length, Outgoing(r).options)
  BY DEF Request, Oft, Onft, QuotedFee, Outgoing
<1> DEFINE g == Outgoing(r).length + Gas(Outgoing(r).options)
<1>2. g \in Nat
  <2>1. Outgoing(r).length \in Nat /\ Gas(Outgoing(r).options) \in Nat
    <3>1. Outgoing(r).length \in 40 .. 72 + 700 /\ Outgoing(r).options \in Seq(Nat)
      BY OutgoingType DEF MAX_MSG_SIZE
    <3>2. \A n : n \in 40 .. 72 + 700 => n \in Nat
      OBVIOUS
    <3> QED BY <3>1, <3>2, GasType, Zenon
  <2> QED BY <2>1
<1>3. price \in Nat
  BY FeesAssumption DEF FeesTypeOK
<1> HIDE DEF g
<1>4. price * g \in Nat
  BY <1>2, <1>3
<1> QED
  BY <1>1, <1>4 DEF EndpointFee, g

\* A quote is of the options and the price of this moment.
QuoteFresh ==
  quote # None =>
    /\ quote.request \in Request
    /\ Takable(quote.request)
    /\ quote.fee = QuotedFee(quote.request)

FeesIInv == FeesTypeOK /\ QuoteFresh

LEMMA FeesStep == FeesIInv /\ [FeesNext]_feesVars => FeesIInv'
<1> SUFFICES ASSUME FeesIInv, [FeesNext]_feesVars PROVE FeesIInv'
  OBVIOUS
<1> USE DEF FeesIInv
<1>1. ASSUME NEW s \in Enforced, NEW c \in Enforced, EnforceOptions(s, c)
      PROVE  FeesIInv'
  BY <1>1 DEF EnforceOptions, FeesTypeOK, QuoteFresh
<1>2. ASSUME NEW p \in Price, NewPrice(p) PROVE FeesIInv'
  BY <1>2 DEF NewPrice, FeesTypeOK, QuoteFresh
<1>3. ASSUME NEW r \in Request, Quote(r) PROVE FeesIInv'
  <2>1. QuotedFee(r) \in Nat
    BY <1>3, QuotedIsAsked DEF Quote
  <2>2. QuotedFee(r)' = QuotedFee(r) /\ Takable(r)'
    BY <1>3 DEF Quote, QuotedFee, Takable, EndpointFee, CombineOptions, GetEnforcedOptions
  <2>3. quote'.request = r /\ quote'.fee = QuotedFee(r)
    BY <1>3 DEF Quote
  <2>4. FeesTypeOK'
    BY <1>3, <2>1, <2>3 DEF Quote, FeesTypeOK
  <2>5. QuoteFresh'
    BY <2>2, <2>3 DEF QuoteFresh
  <2> QED BY <2>4, <2>5
<1>4. CASE quote # None /\ SendPaid(quote.request, quote.fee)
  <2>1. /\ quote.request \in Request /\ Takable(quote.request)
        /\ sent' = Outgoing(quote.request) /\ UNCHANGED <<enforced, price, quote>>
    BY <1>4 DEF SendPaid, QuoteFresh
  <2>2. FeesTypeOK'
    BY <2>1, OutgoingType DEF FeesTypeOK
  <2>3. QuoteFresh'
    BY <2>1 DEF QuoteFresh, QuotedFee, Takable, EndpointFee, CombineOptions,
                GetEnforcedOptions
  <2> QED BY <2>2, <2>3
<1>5. CASE UNCHANGED feesVars
  BY <1>5 DEF feesVars, FeesTypeOK, QuoteFresh, QuotedFee, Takable, EndpointFee,
              CombineOptions, GetEnforcedOptions
<1> QED
  BY <1>1, <1>2, <1>3, <1>4, <1>5 DEF FeesNext

LEMMA FeesInductive == FeesSpec => []FeesIInv
<1>1. FeesInit => FeesIInv
  BY DEF FeesInit, FeesIInv, FeesTypeOK, QuoteFresh
<1> QED
  BY <1>1, FeesStep, PTL DEF FeesSpec

\* What is quoted can be asked for, and what goes out has a length the codec
\* can produce.
THEOREM FeesTypeCorrect == FeesSpec => []FeesTypeOK
BY FeesInductive, PTL DEF FeesIInv

\* A quote is enough, for any options, lengths and prices.
THEOREM QuotesAreEnough == FeesSpec => []QuoteSuffices
<1>1. FeesIInv => QuoteSuffices
  BY QuotedIsAsked DEF FeesIInv, QuoteFresh, QuoteSuffices, Covers
<1> QED
  BY <1>1, FeesInductive, PTL

\* The gas an admin enforces for a kind of message is paid with every message
\* of this kind, whatever the sender adds.
THEOREM EnforcedGasIsPaid == FeesSpec => EnforcedOptionsHold
<1> DEFINE Enough(r) ==
             Gas(sent'.options) >= IF ReadAsComposed(sent'.length)
                                   THEN Gas(enforced.send_and_call)
                                   ELSE Gas(enforced.send)
           Held == \A r \in Oft : sent' # sent /\ sent'.request = r => Enough(r)
<1>1. FeesIInv /\ [FeesNext]_feesVars => [Held]_feesVars
  <2> SUFFICES ASSUME FeesIInv, FeesNext PROVE Held
    OBVIOUS
  <2> SUFFICES ASSUME NEW r \in Oft, sent' # sent, sent'.request = r PROVE Enough(r)
    OBVIOUS
  <2>1. quote # None /\ SendPaid(quote.request, quote.fee)
    BY DEF FeesNext, EnforceOptions, NewPrice, Quote
  <2>2. quote.request \in Request /\ Takable(quote.request) /\ FeesTypeOK
    BY <2>1 DEF FeesIInv, QuoteFresh
  <2>3. quote.request = r /\ sent' = Outgoing(r) /\ Takable(r)
    BY <2>1, <2>2, OutgoingType DEF SendPaid
  <2>4. /\ r.kind = "send" /\ Encodable(r.compose) /\ Combinable(r.extra)
        /\ r.compose \in ComposeLengths \cup {NoCompose}
        /\ r.extra \in Extra \cup {NoOptions, Legacy}
    BY <2>3 DEF Oft, Takable
  <2>5. sent'.length = Encoded(r.compose)
        /\ sent'.options = CombineOptions(r.compose, r.extra)
    BY <2>3, <2>4 DEF Outgoing
  <2>6. ReadAsComposed(sent'.length) <=> r.compose # NoCompose
    <3> DEFINE n == r.compose
    <3>1. n = NoCompose \/ (n \in Nat /\ n # NoCompose)
      BY <2>4, FeesAssumption
    <3>2. sent'.length = Encoded(n)
      BY <2>5
    <3> HIDE DEF n
    <3>3. Encoded(n) > 40 <=> n # NoCompose
      BY <3>1 DEF Encoded
    <3> QED BY <3>2, <3>3 DEF ReadAsComposed, COMPOSE_MSG_OFFSET, n
  <2>7. Gas(sent'.options) >= Gas(GetEnforcedOptions(r.compose))
    <3>1. GetEnforcedOptions(r.compose) \in Seq(Nat)
      BY <2>2, FeesAssumption DEF FeesTypeOK, Takable, GetEnforcedOptions
    <3>2. r.extra # NoOptions => r.extra \in Seq(Nat)
      BY <2>4, FeesAssumption DEF Combinable
    <3>3. Gas(GetEnforcedOptions(r.compose)) \in Nat
      BY <3>1, GasType
    <3> QED BY <2>5, <3>1, <3>2, <3>3, GasJoined DEF CombineOptions
  <2> QED BY <2>6, <2>7 DEF GetEnforcedOptions
<1> QED
  BY <1>1, FeesInductive, PTL DEF FeesSpec, EnforcedOptionsHold

=============================================================================
