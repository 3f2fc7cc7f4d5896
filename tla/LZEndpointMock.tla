--------------------------- MODULE LZEndpointMock ---------------------------
(***************************************************************************)
(* The message layer between the chains, lzApp/mocks/LZEndpointMock.sol.   *)
(* One endpoint per chain; a path is the pair <<source, destination>> of   *)
(* the two applications' chains (there is one application per chain, so    *)
(* the 40-byte path of the contract is determined by the two chains).      *)
(*                                                                         *)
(* send() delivers inside the sender's transaction, so the outbound and    *)
(* the inbound half of a message are one action.  What the application at  *)
(* the destination does is left to the module that extends this one: the   *)
(* operators below constrain the endpoints' variables only, one operator   *)
(* per way a message can be received, retried or resumed.                  *)
(***************************************************************************)
EXTENDS Naturals, Sequences

CONSTANTS
  Chain,      \* the chains, each with its endpoint and its application
  Payload,    \* what an application may send
  NoPayload,  \* the zero payloadHash of an empty StoredPayload
  NoPath,     \* no forceResumeReceive transaction is running
  MaxNonce    \* bound: messages sent along each path

ASSUME NoPayloadAssumption == NoPayload \notin Payload

Path == {q \in Chain \X Chain : q[1] # q[2]}

ASSUME MaxNonceAssumption == MaxNonce \in [Path -> Nat]
ASSUME NoPathAssumption   == NoPath \notin Path

QueuedPayload == [nonce : Nat, payload : Payload]

VARIABLES
  outboundNonce,  \* [Path -> Nat], kept at the source endpoint
  inboundNonce,   \* [Path -> Nat], kept at the destination endpoint
  storedPayload,  \* the message that blocks the path, if any
  msgsToDeliver,  \* messages that arrived behind it, oldest first
  nextMsgBlocked, \* destination endpoints told to block the next message
  resuming        \* the path whose queue forceResumeReceive is draining

endpointVars == <<outboundNonce, inboundNonce, storedPayload, msgsToDeliver,
                  nextMsgBlocked, resuming>>

EndpointTypeOK ==
  /\ outboundNonce \in [Path -> Nat]
  /\ inboundNonce \in [Path -> Nat]
  /\ storedPayload \in [Path -> Payload \cup {NoPayload}]
  /\ msgsToDeliver \in [Path -> Seq(QueuedPayload)]
  /\ nextMsgBlocked \in SUBSET Chain
  /\ resuming \in Path \cup {NoPath}

EndpointInit ==
  /\ outboundNonce  = [q \in Path |-> 0]
  /\ inboundNonce   = [q \in Path |-> 0]
  /\ storedPayload  = [q \in Path |-> NoPayload]
  /\ msgsToDeliver  = [q \in Path |-> <<>>]
  /\ nextMsgBlocked = {}
  /\ resuming       = NoPath

(***************************************************************************)
(* send() and receivePayload().  Both counters step; the destination       *)
(* requires the sender's nonce to be the next one of the path, otherwise   *)
(* the whole send reverts.                                                 *)
(***************************************************************************)
NextNonce(q) == outboundNonce[q] + 1

TakeNonce(q) ==
  /\ resuming = NoPath
  /\ NextNonce(q) <= MaxNonce[q]
  /\ NextNonce(q) = inboundNonce[q] + 1
  /\ outboundNonce' = [outboundNonce EXCEPT ![q] = @ + 1]
  /\ inboundNonce'  = [inboundNonce EXCEPT ![q] = @ + 1]
  /\ UNCHANGED resuming

\* What is kept of a queued message (the mutant keeps no payload, like the
\* StoredPayload does).
EntryWithoutPayload(q, p) == [nonce |-> NextNonce(q), payload |-> NoPayload]
Entry(q, p) == [nonce |-> NextNonce(q), payload |-> p]

(***************************************************************************)
(* The new message goes behind the queued ones, of which pop() takes the   *)
(* oldest.  The shift loop that makes room copies upwards from index 0,    *)
(* over entries it has yet to move, so the youngest of the queued messages *)
(* (s[Len(s)] here, msgs[0] there) takes the place of all the others.      *)
(* With one message queued that is right; with more the others are lost    *)
(* and the youngest is there once for each of them.  The mutant is push()  *)
(* without the loop, so that pop() takes the newest.                       *)
(***************************************************************************)
NoShift(s, m) == <<m>> \o s
Enqueue(s, m) == Append([i \in DOMAIN s |-> s[Len(s)]], m)

\* No stored message blocks the path (a mutant does not look).
NeverBlocked(q) == TRUE
PathClear(q) == storedPayload[q] = NoPayload

\* The path is blocked: the message waits behind the stored one.
ReceiveQueued(q, p) ==
  /\ TakeNonce(q)
  /\ storedPayload[q] # NoPayload
  /\ msgsToDeliver' = [msgsToDeliver EXCEPT ![q] = Enqueue(@, Entry(q, p))]
  /\ UNCHANGED <<storedPayload, nextMsgBlocked>>

\* The message becomes the stored one, and later messages are let through.
StorePayload(q, p) ==
  /\ storedPayload'  = [storedPayload EXCEPT ![q] = p]
  /\ nextMsgBlocked' = nextMsgBlocked \ {q[2]}
  /\ UNCHANGED msgsToDeliver

\* blockNextMsg() was called at the destination.
ReceiveBlocked(q, p) ==
  /\ TakeNonce(q)
  /\ PathClear(q)
  /\ q[2] \in nextMsgBlocked
  /\ StorePayload(q, p)

\* lzReceive is called and reverts: the catch clause stores the message.
ReceiveReverted(q, p) ==
  /\ TakeNonce(q)
  /\ PathClear(q)
  /\ q[2] \notin nextMsgBlocked
  /\ StorePayload(q, p)

\* lzReceive is called and returns.
ReceiveDelivered(q) ==
  /\ TakeNonce(q)
  /\ PathClear(q)
  /\ q[2] \notin nextMsgBlocked
  /\ UNCHANGED <<storedPayload, msgsToDeliver, nextMsgBlocked>>

\* The three assignments that zero the StoredPayload (a mutant forgets them).
KeepStored(q) == storedPayload
EmptyStored(q) == [storedPayload EXCEPT ![q] = NoPayload]

(***************************************************************************)
(* retryPayload(): clears the stored message and hands it to the           *)
(* application with RetryNonce(q), the path's current inbound nonce.  A    *)
(* revert of lzReceive undoes everything, so only success is an action.    *)
(***************************************************************************)
RetryNonce(q) == inboundNonce[q]

RetryPayload(q) ==
  /\ resuming = NoPath
  /\ storedPayload[q] # NoPayload
  /\ storedPayload' = EmptyStored(q)
  /\ UNCHANGED <<outboundNonce, inboundNonce, msgsToDeliver, nextMsgBlocked,
                 resuming>>

(***************************************************************************)
(* forceResumeReceive(): drops the stored message and then delivers the    *)
(* whole queue, oldest first, within the same transaction.  The loop of    *)
(* _clearMsgQue is a sequence of DrainQueue steps during which `resuming'  *)
(* holds the path and no other transaction runs; a delivery that reverts   *)
(* reverts the call, so DrainQueue has no failure branch.                  *)
(***************************************************************************)
ForceResumeReceive(q) ==
  /\ resuming = NoPath
  /\ storedPayload[q] # NoPayload
  /\ storedPayload' = EmptyStored(q)
  /\ resuming' = IF msgsToDeliver[q] = <<>> THEN NoPath ELSE q
  /\ UNCHANGED <<outboundNonce, inboundNonce, msgsToDeliver, nextMsgBlocked>>

DrainQueue(q) ==
  /\ resuming = q
  /\ msgsToDeliver[q] # <<>>
  /\ msgsToDeliver' = [msgsToDeliver EXCEPT ![q] = Tail(@)]
  /\ resuming' = IF Tail(msgsToDeliver[q]) = <<>> THEN NoPath ELSE q
  /\ UNCHANGED <<outboundNonce, inboundNonce, storedPayload, nextMsgBlocked>>

BlockNextMsg(c) ==
  /\ resuming = NoPath
  /\ nextMsgBlocked' = nextMsgBlocked \cup {c}
  /\ UNCHANGED <<outboundNonce, inboundNonce, storedPayload, msgsToDeliver,
                 resuming>>

=============================================================================
