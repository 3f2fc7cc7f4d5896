-------------------------- MODULE LZEndpointOrder ---------------------------
(***************************************************************************)
(* The endpoints on their own, under an application that may accept or     *)
(* revert any message, with history variables that follow each message by  *)
(* the nonce it was sent with.  The contract itself forgets that nonce     *)
(* when it stores a message (struct StoredPayload has no such field).      *)
(***************************************************************************)
EXTENDS LZEndpointMock

VARIABLES
  storedNonce,  \* history: the nonce the stored message was sent with
  delivered,    \* history: nonces of the messages delivered, in this order
  dropped,      \* history: nonces of the messages forceResumeReceive dropped
  leftBehind,   \* history: nonces in the queue when retryPayload emptied the
                \* stored message in front of them
  overwritten,  \* history: nonces of the queued messages the shift loop lost
  copied        \* history: nonces of the queued messages it copied

historyVars == <<storedNonce, delivered, dropped, leftBehind, overwritten,
                 copied>>
vars == <<endpointVars, historyVars>>

ElementsOf(s) == {s[i] : i \in DOMAIN s}

QueuedNonces(q) == {m.nonce : m \in ElementsOf(msgsToDeliver[q])}

Init ==
  /\ EndpointInit
  /\ storedNonce = [q \in Path |-> 0]
  /\ delivered   = [q \in Path |-> <<>>]
  /\ dropped     = [q \in Path |-> {}]
  /\ leftBehind  = [q \in Path |-> {}]
  /\ overwritten = [q \in Path |-> {}]
  /\ copied      = [q \in Path |-> {}]

Deliver(q, n) == delivered' = [delivered EXCEPT ![q] = Append(@, n)]

NoteStored(q, n) == storedNonce' = [storedNonce EXCEPT ![q] = n]

\* A message is queued behind s: the youngest entry of s replaces the rest.
NoteShift(q) ==
  LET s == msgsToDeliver[q]
  IN  /\ overwritten' = [overwritten EXCEPT ![q] =
                           @ \cup {s[i].nonce : i \in 1 .. Len(s) - 1}]
      /\ copied' = [copied EXCEPT ![q] =
                      @ \cup {s[Len(s)].nonce : i \in 1 .. Len(s) - 1}]

Send(q, p) ==
  \/ /\ ReceiveQueued(q, p)
     /\ NoteShift(q)
     /\ UNCHANGED <<storedNonce, delivered, dropped, leftBehind>>
  \/ /\ ReceiveBlocked(q, p) \/ ReceiveReverted(q, p)
     /\ NoteStored(q, NextNonce(q))
     /\ UNCHANGED <<delivered, dropped, leftBehind, overwritten, copied>>
  \/ /\ ReceiveDelivered(q)
     /\ Deliver(q, NextNonce(q))
     /\ UNCHANGED <<storedNonce, dropped, leftBehind, overwritten, copied>>

Retry(q) ==
  /\ RetryPayload(q)
  /\ Deliver(q, storedNonce[q])
  /\ NoteStored(q, 0)
  /\ leftBehind' = [leftBehind EXCEPT ![q] = @ \cup QueuedNonces(q)]
  /\ UNCHANGED <<dropped, overwritten, copied>>

Resume(q) ==
  /\ ForceResumeReceive(q)
  /\ dropped' = [dropped EXCEPT ![q] = @ \cup {storedNonce[q]}]
  /\ NoteStored(q, 0)
  /\ UNCHANGED <<delivered, leftBehind, overwritten, copied>>

Drain(q) ==
  /\ DrainQueue(q)
  /\ Deliver(q, Head(msgsToDeliver[q]).nonce)
  /\ UNCHANGED <<storedNonce, dropped, leftBehind, overwritten, copied>>

Block(c) ==
  /\ BlockNextMsg(c)
  /\ UNCHANGED historyVars

Next ==
  \/ \E q \in Path : \/ \E p \in Payload : Send(q, p)
                     \/ Retry(q)
                     \/ Resume(q)
                     \/ Drain(q)
  \/ \E c \in Chain : Block(c)

Spec == Init /\ [][Next]_vars

-----------------------------------------------------------------------------
StoredNonces(q) == IF storedPayload[q] = NoPayload THEN {} ELSE {storedNonce[q]}

TypeOK ==
  /\ EndpointTypeOK
  /\ storedNonce \in [Path -> Nat]
  /\ delivered \in [Path -> Seq(Nat)]
  /\ dropped \in [Path -> SUBSET Nat]
  /\ leftBehind \in [Path -> SUBSET Nat]
  /\ overwritten \in [Path -> SUBSET Nat]
  /\ copied \in [Path -> SUBSET Nat]

(***************************************************************************)
(* Every message sent along a path is at each moment in exactly one of     *)
(* five places: delivered, stored, queued (in the order sent), dropped by  *)
(* forceResumeReceive, or overwritten by the shift loop.  Only a message   *)
(* that the loop copied is delivered or queued more than once, and only    *)
(* while its queue is drained both.  So the loop is all that loses or      *)
(* repeats a message: no mix of blocking, retrying, resuming and draining  *)
(* does.                                                                   *)
(***************************************************************************)
ExactlyOnePlace ==
  \A q \in Path :
    LET done   == ElementsOf(delivered[q])
        queue  == msgsToDeliver[q]
        queued == QueuedNonces(q)
        stored == StoredNonces(q)
    IN  /\ done \cup stored \cup queued \cup dropped[q] \cup overwritten[q]
             = 1 .. outboundNonce[q]
        /\ \A i, j \in DOMAIN delivered[q] :
             i # j /\ delivered[q][i] = delivered[q][j] => delivered[q][i] \in copied[q]
        /\ \A i, j \in DOMAIN queue :
             i < j => \/ queue[i].nonce < queue[j].nonce
                      \/ queue[i].nonce = queue[j].nonce /\ queue[i].nonce \in copied[q]
        /\ done \cap queued \subseteq IF resuming = q THEN copied[q] ELSE {}
        /\ overwritten[q] \cap (done \cup stored \cup queued \cup dropped[q]) = {}
        /\ dropped[q] \cap (done \cup queued) = {}
        /\ stored \cap (done \cup queued \cup dropped[q]) = {}

(***************************************************************************)
(* While a path is blocked by a stored message nothing is delivered on it: *)
(* neither the queue behind it nor a message sent later slips past.        *)
(***************************************************************************)
NeverPastStored ==
  [][\A q \in Path :
       storedPayload[q] # NoPayload /\ storedPayload'[q] # NoPayload
         => delivered'[q] = delivered[q]]_vars

(***************************************************************************)
(* Whatever is blocked, retried, resumed and drained, a message is         *)
(* delivered after a younger one only if a retryPayload had left it in the *)
(* queue.  This is the order the endpoint really provides (a message that  *)
(* was copied comes again, but not behind a younger one).                  *)
(***************************************************************************)
DisorderOnlyAfterRetry ==
  \A q \in Path : \A i, j \in DOMAIN delivered[q] :
    i < j /\ delivered[q][j] \notin leftBehind[q]
      => delivered[q][i] <= delivered[q][j]

(***************************************************************************)
(* LZEndpointMock.sol:12 says of the endpoint: "blocking: LayerZero        *)
(* provides ordered delivery of messages from a given sender to a          *)
(* destination chain."                                                     *)
(***************************************************************************)
OrderedDelivery ==
  \A q \in Path : \A i, j \in DOMAIN delivered[q] :
    i < j => delivered[q][i] <= delivered[q][j]

(***************************************************************************)
(* LZEndpointMock.sol:238 says of the shift loop: "shift all the msgs over *)
(* so we can treat this like a fifo via array.pop()".  A message sent      *)
(* leaves those that are queued as they are, and in their order.           *)
(***************************************************************************)
FifoQueue ==
  [][\A q \in Path : outboundNonce'[q] # outboundNonce[q] =>
       \A i \in DOMAIN msgsToDeliver[q] :
         msgsToDeliver'[q][i] = msgsToDeliver[q][i]]_vars

=============================================================================
