----------------------------- MODULE OnftBridge -----------------------------
(***************************************************************************)
(* The omnichain token of 77bit: SevenSevenBit and its proxy               *)
(* (ProxyONFT721) on the home chain, an ONFT721 on every other chain, each *)
(* a NonblockingLzApp over the endpoints of LZEndpointMock.                *)
(*                                                                         *)
(* One action is one transaction.  A send runs through the destination     *)
(* endpoint and application before it returns, so the operators of the     *)
(* receiving side take the ownership map `o' they start from: the state    *)
(* after the debit for a send, `owner' itself for a retry.                 *)
(*                                                                         *)
(* Gas is a free choice: whoever sends, retries or clears picks the gas,   *)
(* so the credit loop may stop before any token, the inner call may fail,  *)
(* and lzReceive itself may run out of gas.                                *)
(***************************************************************************)
EXTENDS LZEndpointMock

CONSTANTS
  Home,       \* the chain of SevenSevenBit and of the proxy
  Token,      \* token ids
  User,       \* accounts
  Rejecting,  \* accounts that are contracts refusing onERC721Received
  Bridge,     \* the application itself, as holder, operator or recipient
  NoOne,      \* the zero address
  BatchLimit  \* dstChainIdToBatchLimit, the same for every destination

Batch == UNION {[1 .. n -> Token] : n \in {1} \cup (1 .. BatchLimit)}

ASSUME HomeAssumption == Home \in Chain
ASSUME HolderAssumption ==
  /\ Rejecting \subseteq User
  /\ Bridge \notin User
  /\ NoOne \notin User \cup {Bridge}
ASSUME BatchAssumption ==
  /\ BatchLimit \in Nat
  /\ Payload \subseteq [to : User \cup {Bridge, NoOne}, ids : Batch]

VARIABLES
  owner,     \* owner[c][t]: holder of t in the token contract of chain c
  approved,  \* approved[c][t]: the operator approved for t
  trusted,   \* trusted[c]: chains whose application c's trustedRemoteLookup names
  credits,   \* storedCredits of every chain, at most one per chain and payload
  failed,    \* failedMessages of every chain, at most one per path and nonce
  copied     \* history: tokens of the messages a queue's shift loop has copied

appVars == <<owner, approved, trusted, credits, failed, copied>>
vars == <<endpointVars, appVars>>

Holder == User \cup {Bridge, NoOne}

StoredCredit == [at : Chain, payload : Payload, index : Nat]
FailedMessage == [path : Path, nonce : Nat, payload : Payload]

TypeOK ==
  /\ EndpointTypeOK
  /\ owner \in [Chain -> [Token -> Holder]]
  /\ approved \in [Chain -> [Token -> Holder]]
  /\ trusted \in [Chain -> SUBSET Chain]
  /\ credits \subseteq StoredCredit
  /\ failed \subseteq FailedMessage
  /\ copied \subseteq Token

\* Contracts deployed, the supply minted at home, no remote configured yet.
Init ==
  /\ EndpointInit
  /\ \E holder \in [Token -> User \ Rejecting] :
       owner = [c \in Chain |-> IF c = Home THEN holder
                                            ELSE [t \in Token |-> NoOne]]
  /\ approved = [c \in Chain |-> [t \in Token |-> NoOne]]
  /\ trusted = [c \in Chain |-> {}]
  /\ credits = {}
  /\ failed = {}
  /\ copied = {}

-----------------------------------------------------------------------------
\* The part of a payload's ids after the first i, up to the k-th.
Slice(p, i, k) == {p.ids[j] : j \in {x \in DOMAIN p.ids : i < x /\ x <= k}}

Tokens(p) == {p.ids[j] : j \in DOMAIN p.ids}

NoRepeat(p) == \A i, j \in DOMAIN p.ids : i # j => p.ids[i] # p.ids[j]

Give(o, c, ts, u) ==
  [o EXCEPT ![c] = [t \in Token |-> IF t \in ts THEN u ELSE o[c][t]]]

\* ERC721 clears the approval of a token it moves (a mutant keeps it).
KeepApproval == approved' = approved
TransferClearsApproval ==
  approved' = [c \in Chain |-> [t \in Token |->
                 IF owner'[c][t] = owner[c][t] THEN approved[c][t] ELSE NoOne]]

(***************************************************************************)
(* _debitFrom.  At home the proxy pulls the token from its caller and so   *)
(* needs the owner's approval; elsewhere the caller is the owner or an     *)
(* operator the owner approved.                                            *)
(***************************************************************************)
ProxyCanDebit(by, from, t) == /\ owner[Home][t] = from
                              /\ by = from
                              /\ approved[Home][t] = Bridge

OnftCanDebit(c, by, from, t) == /\ owner[c][t] = from
                                /\ by = from \/ approved[c][t] = by

CanDebit(c, by, from, t) == IF c = Home THEN ProxyCanDebit(by, from, t)
                                        ELSE OnftCanDebit(c, by, from, t)

\* The debited tokens are held by the application (a mutant leaves them).
NoDebit(c, p) == owner
Debited(c, p) == Give(owner, c, Tokens(p), Bridge)

(***************************************************************************)
(* _creditTo.  The proxy releases a token it holds with safeTransferFrom.  *)
(* The remote contract mints a token it has never seen, or returned from,  *)
(* with _safeMint, and hands over one it holds with a plain _transfer,     *)
(* which asks nothing of the recipient.                                    *)
(***************************************************************************)
Unlock(o, to, t) == /\ o[Home][t] = Bridge
                    /\ to \in (User \ Rejecting) \cup {Bridge}

MintOrRelease(o, d, to, t) ==
  \/ o[d][t] = NoOne  /\ to \in User \ Rejecting
  \/ o[d][t] = Bridge /\ to # NoOne

CanCredit(o, d, to, t) == IF d = Home THEN Unlock(o, to, t)
                                      ELSE MintOrRelease(o, d, to, t)

\* _creditTill from index i stops at index k, every token before k credited.
CanCreditTill(o, d, p, i, k) ==
  /\ k \in {i} \cup {x \in DOMAIN p.ids : i < x}
  /\ \A t \in Slice(p, i, k) : CanCredit(o, d, p.to, t)

\* (The mutant starts from the first token again.)
CreditedFromStart(o, d, p, i, k) == Give(o, d, Slice(p, 0, k), p.to)
CreditedTill(o, d, p, i, k) == Give(o, d, Slice(p, i, k), p.to)

\* nextIndex < tokenIds.length (in the mutant, off by one).
UnfinishedOffByOne(p, k) == \E x \in DOMAIN p.ids : k + 1 < x
Unfinished(p, k) == \E x \in DOMAIN p.ids : k < x

\* storedCredits is keyed by the hash of the payload, which has no nonce.
\* (The mutant files every remainder under index 0.)
RestoreAll(d, p, k) ==
  {cr \in credits : cr.at # d \/ cr.payload # p}
    \cup {[at |-> d, payload |-> p, index |-> 0]}
StoreCredit(d, p, k) ==
  {cr \in credits : cr.at # d \/ cr.payload # p}
    \cup {[at |-> d, payload |-> p, index |-> k]}

\* _nonblockingLzReceive: credit what the gas allows, store the rest.
NonblockingLzReceive(o, d, p) ==
  \E k \in {0} \cup DOMAIN p.ids :
    /\ CanCreditTill(o, d, p, 0, k)
    /\ owner' = CreditedTill(o, d, p, 0, k)
    /\ credits' = IF Unfinished(p, k) THEN StoreCredit(d, p, k) ELSE credits

\* The entry of failedMessages[path][nonce] is written whatever it held.
\* (The mutant keeps one entry per path.)
StoreFailedPerPath(q, n, p) ==
  {f \in failed : f.path # q} \cup {[path |-> q, nonce |-> n, payload |-> p]}
StoreFailedMessage(q, n, p) ==
  {f \in failed : f.path # q \/ f.nonce # n}
    \cup {[path |-> q, nonce |-> n, payload |-> p]}

\* The inner call either succeeds, or fails and the message is written down.
BlockingLzReceive(o, q, n, p) ==
  \/ /\ NonblockingLzReceive(o, q[2], p)
     /\ UNCHANGED failed
  \/ /\ owner' = o
     /\ failed' = StoreFailedMessage(q, n, p)
     /\ UNCHANGED credits

\* The source application is the one the destination trusts.
TrustedSource(q) == q[1] \in trusted[q[2]]

\* lzReceive when it returns; otherwise nothing changes.
LzReceive(o, q, n, p) == TrustedSource(q) /\ BlockingLzReceive(o, q, n, p)

-----------------------------------------------------------------------------
(***************************************************************************)
(* sendFrom and sendBatchFrom.  An id that occurs twice fails at its       *)
(* second debit.  The last disjunct is the delivery within the send; in    *)
(* the others the message stays at the destination endpoint, stored        *)
(* because lzReceive reverted (source not trusted there, or out of gas) or *)
(* the endpoint was told to block it, or queued behind a stored one.       *)
(* Queued behind two messages or more it overwrites all of them but the    *)
(* youngest, which is copied: Enqueue.                                     *)
(***************************************************************************)
TrustedDestination(q) == q[2] \in trusted[q[1]]

NoteCopied(q) ==
  LET s == msgsToDeliver[q]
  IN  copied' = copied \cup IF Len(s) < 2 THEN {} ELSE Tokens(s[Len(s)].payload)

Send(q, by, p) ==
  /\ TrustedDestination(q)
  /\ NoRepeat(p)
  /\ \E from \in User : \A t \in Tokens(p) : CanDebit(q[1], by, from, t)
  /\ \/ /\ \/ ReceiveQueued(q, p) /\ NoteCopied(q)
           \/ ReceiveBlocked(q, p) /\ UNCHANGED copied
           \/ ReceiveReverted(q, p) /\ UNCHANGED copied
        /\ owner' = Debited(q[1], p)
        /\ UNCHANGED <<credits, failed>>
     \/ /\ ReceiveDelivered(q)
        /\ LzReceive(Debited(q[1], p), q, NextNonce(q), p)
        /\ UNCHANGED copied
  /\ TransferClearsApproval
  /\ UNCHANGED trusted

\* retryPayload of the destination endpoint: anyone, with the stored payload.
RetryStored(q) ==
  /\ RetryPayload(q)
  /\ LzReceive(owner, q, RetryNonce(q), storedPayload[q])
  /\ TransferClearsApproval
  /\ UNCHANGED <<trusted, copied>>

\* LzApp.forceResumeReceive, by the owner of the application.  Every queued
\* message is then delivered, so the call reverts if their source is no
\* longer trusted.
ForceResume(q) ==
  /\ msgsToDeliver[q] # <<>> => TrustedSource(q)
  /\ ForceResumeReceive(q)
  /\ UNCHANGED appVars

Drain(q) ==
  /\ DrainQueue(q)
  /\ LET m == Head(msgsToDeliver[q]) IN LzReceive(owner, q, m.nonce, m.payload)
  /\ TransferClearsApproval
  /\ UNCHANGED <<trusted, copied>>

\* retryMessage zeroes the entry before it runs the message (a mutant does
\* not), and does not ask again whether the source is trusted.
KeepFailed(f) == failed
WithoutFailed(f) == failed \ {f}

RetryMessage(f) ==
  /\ resuming = NoPath
  /\ f \in failed
  /\ NonblockingLzReceive(owner, f.path[2], f.payload)
  /\ failed' = WithoutFailed(f)
  /\ TransferClearsApproval
  /\ UNCHANGED <<endpointVars, trusted, copied>>

\* The entry is deleted with its last token (a mutant keeps it).
KeepCredit(cr) == credits
WithoutCredit(cr) == credits \ {cr}

\* clearCredits: anyone, and at least one more token must be credited.
ClearCredits(cr, k) ==
  /\ resuming = NoPath
  /\ cr \in credits
  /\ k > cr.index
  /\ CanCreditTill(owner, cr.at, cr.payload, cr.index, k)
  /\ owner' = CreditedTill(owner, cr.at, cr.payload, cr.index, k)
  /\ credits' = IF Unfinished(cr.payload, k)
                  THEN StoreCredit(cr.at, cr.payload, k)
                  ELSE WithoutCredit(cr)
  /\ TransferClearsApproval
  /\ UNCHANGED <<endpointVars, trusted, failed, copied>>

-----------------------------------------------------------------------------
\* transferFrom of the token contract, by the owner or an operator.  Giving a
\* token to the application itself is possible and bridges nothing.
TransferFrom(c, t, to) ==
  /\ resuming = NoPath
  /\ owner[c][t] \in User
  /\ to \in (User \cup {Bridge}) \ {owner[c][t]}
  /\ owner' = Give(owner, c, {t}, to)
  /\ TransferClearsApproval
  /\ UNCHANGED <<endpointVars, trusted, credits, failed, copied>>

\* approve: at home the proxy is what a sender has to approve.
Approve(c, t, u) ==
  /\ resuming = NoPath
  /\ owner[c][t] \in User
  /\ u \in IF c = Home THEN {Bridge, NoOne} ELSE (User \ {owner[c][t]}) \cup {NoOne}
  /\ approved' = [approved EXCEPT ![c][t] = u]
  /\ UNCHANGED <<endpointVars, owner, trusted, credits, failed, copied>>

\* setTrustedRemote and setTrustedRemoteAddress with the right path ...
SetTrustedRemote(c, s) ==
  /\ resuming = NoPath
  /\ trusted' = [trusted EXCEPT ![c] = @ \cup {s}]
  /\ UNCHANGED <<endpointVars, owner, approved, credits, failed, copied>>

\* ... and with an empty or another one.
UnsetTrustedRemote(c, s) ==
  /\ resuming = NoPath
  /\ trusted' = [trusted EXCEPT ![c] = @ \ {s}]
  /\ UNCHANGED <<endpointVars, owner, approved, credits, failed, copied>>

BlockNext(c) == BlockNextMsg(c) /\ UNCHANGED appVars

PathNext(q) ==
  \/ \E by \in User, p \in Payload : Send(q, by, p)
  \/ RetryStored(q)
  \/ ForceResume(q)
  \/ Drain(q)
  \/ SetTrustedRemote(q[1], q[2])
  \/ UnsetTrustedRemote(q[1], q[2])

TokenNext(c, t) ==
  \/ \E to \in Holder : TransferFrom(c, t, to)
  \/ \E u \in Holder : Approve(c, t, u)

Next ==
  \/ \E q \in Path : PathNext(q)
  \/ \E c \in Chain, t \in Token : TokenNext(c, t)
  \/ \E f \in failed : RetryMessage(f)
  \/ \E cr \in credits : \E k \in DOMAIN cr.payload.ids : ClearCredits(cr, k)
  \/ \E c \in Chain : BlockNext(c)

Spec == Init /\ [][Next]_vars

-----------------------------------------------------------------------------
(***************************************************************************)
(* Where a token is.  A claim on t is anything that is t, or can become t  *)
(* on some chain: t in an account's hands, a message that carries t        *)
(* (stored, queued or failed), or the remainder of a batch that holds t.   *)
(***************************************************************************)
Remaining(cr) == {cr.payload.ids[j] : j \in {x \in DOMAIN cr.payload.ids : cr.index < x}}

StoredOn(q, t) == storedPayload[q] # NoPayload /\ t \in Tokens(storedPayload[q])

Held(t)    == {<<"held", c, 0>> : c \in {x \in Chain : owner[x][t] \in User}}
Stored(t)  == {<<"stored", q, 0>> : q \in {x \in Path : StoredOn(x, t)}}
Queued(t)  == UNION {{<<"queued", q, i>> : i \in
                        {x \in DOMAIN msgsToDeliver[q] :
                           t \in Tokens(msgsToDeliver[q][x].payload)}} : q \in Path}
Failed(t)  == {<<"failed", f.path, f.nonce>> : f \in
                 {x \in failed : t \in Tokens(x.payload)}}
Pending(t) == {<<"credit", cr.at, cr.payload>> : cr \in
                 {x \in credits : t \in Remaining(x)}}

InTransit(t) == Stored(t) \cup Queued(t) \cup Failed(t) \cup Pending(t)
Claims(t) == Held(t) \cup InTransit(t)

\* Where the claims that are in transit lead: <<chain, recipient>>.
Destinations(t) ==
  {<<q[2], storedPayload[q].to>> : q \in {x \in Path : StoredOn(x, t)}}
    \cup (UNION {{<<q[2], msgsToDeliver[q][i].payload.to>> : i \in
                    {x \in DOMAIN msgsToDeliver[q] :
                       t \in Tokens(msgsToDeliver[q][x].payload)}} : q \in Path})
    \cup {<<f.path[2], f.payload.to>> : f \in {x \in failed : t \in Tokens(x.payload)}}
    \cup {<<cr.at, cr.payload.to>> : cr \in {x \in credits : t \in Remaining(x)}}

\* A copied message is delivered twice, whatever the applications do; what
\* they guarantee is about the tokens of the others.
Sound == Token \ copied

(***************************************************************************)
(* Unless an endpoint copied the message it was in, no token is ever in    *)
(* two places: at most one account over all chains holds it, and never     *)
(* while a message or a stored credit can still deliver it.  No mix of     *)
(* retryPayload, retryMessage, clearCredits and forceResumeReceive mints a *)
(* second copy, not even beside a copied token in the same batch.          *)
(***************************************************************************)
NoDuplication == \A t \in Sound : \A x, y \in Claims(t) : x = y

(***************************************************************************)
(* What circulates is backed.  While a token is held on another chain or   *)
(* is in transit to any chain, the proxy holds it at home (unless it was   *)
(* copied: then the copies may outlive the escrow); and no token, copied   *)
(* or not, that an application holds has an approval left by which         *)
(* somebody could take it out of the escrow.                               *)
(***************************************************************************)
EscrowBacking ==
  \A t \in Token :
    /\ t \in Sound /\ Claims(t) \ {<<"held", Home, 0>>} # {} => owner[Home][t] = Bridge
    /\ \A c \in Chain : owner[c][t] \notin User => approved[c][t] = NoOne

(***************************************************************************)
(* Every message that waits at a chain, and every stored credit, can still *)
(* be credited as far as the ledger goes: each token it carries, unless it *)
(* was copied, is in the application's hands there, or was never minted    *)
(* there.  So only the recipient, the trust setting or the gas can stop    *)
(* it.                                                                     *)
(***************************************************************************)
Creditable(d, t) == owner[d][t] = Bridge \/ (d # Home /\ owner[d][t] = NoOne)

WaitingIsCreditable ==
  \A t \in Sound : \A dest \in Destinations(t) : Creditable(dest[1], t)

(***************************************************************************)
(* storedCredits is keyed by the payload alone: two sends of the same ids  *)
(* to the same recipient share one entry.  It is still never overwritten   *)
(* to the loss of a token that was not copied: such a token leaves the     *)
(* remainder of a stored credit only by being credited to the recipient    *)
(* the payload names.                                                      *)
(***************************************************************************)
CreditsKept ==
  [][\A cr \in credits : \A t \in Remaining(cr) \cap Sound :
       \/ owner'[cr.at][t] = cr.payload.to
       \/ \E kept \in credits' : /\ kept.at = cr.at
                                 /\ kept.payload = cr.payload
                                 /\ t \in Remaining(kept)]_vars

(***************************************************************************)
(* The last claim on a token that was not copied vanishes only in one of   *)
(* three ways: in a forceResumeReceive (it drops the stored message, and   *)
(* may overwrite an entry of failedMessages while it drains the queue);    *)
(* when its message is queued and the next one overwrites it; or because   *)
(* it was given to an application: transferred to it, or sent to it.       *)
(***************************************************************************)
SentToBridge(t) ==
  \/ \E c \in Chain : <<c, Bridge>> \in Destinations(t)
  \/ \E q \in Path, by \in User, p \in Payload :
       p.to = Bridge /\ t \in Tokens(p) /\ Send(q, by, p)

OverwrittenInQueue(t) ==
  \E q \in Path : /\ outboundNonce'[q] # outboundNonce[q]
                  /\ Len(msgsToDeliver[q]) > 1
                  /\ \E i \in DOMAIN msgsToDeliver[q] :
                       t \in Tokens(msgsToDeliver[q][i].payload)

\* Claims(t) # {}, which TLC decides faster like this.
Claimed(t) ==
  \/ \E c \in Chain : owner[c][t] \in User
  \/ \E q \in Path : StoredOn(q, t)
  \/ \E q \in Path : \E i \in DOMAIN msgsToDeliver[q] :
       t \in Tokens(msgsToDeliver[q][i].payload)
  \/ \E f \in failed : t \in Tokens(f.payload)
  \/ \E cr \in credits : t \in Remaining(cr)

LostInThreeWays ==
  [][\A t \in Sound : Claimed(t) /\ ~ Claimed(t)' =>
       \/ \E q \in Path : ForceResume(q) \/ Drain(q)
       \/ OverwrittenInQueue(t)
       \/ \E c \in Chain : TransferFrom(c, t, Bridge)
       \/ SentToBridge(t)]_vars

(***************************************************************************)
(* NonblockingLzApp.sol:10 says of failed messages: "try-catch all fail    *)
(* messages and store locally for future retry".  One that was stored      *)
(* leaves failedMessages only by a retry that credits its tokens or keeps  *)
(* what is left of them as stored credits.                                 *)
(***************************************************************************)
FailedMessageKept ==
  [][\A f \in failed \ failed' : \A t \in Tokens(f.payload) :
       \/ owner'[f.path[2]][t] = f.payload.to
       \/ \E cr \in credits' : cr.at = f.path[2] /\ cr.payload = f.payload]_vars

-----------------------------------------------------------------------------
(***************************************************************************)
(* The bridge implements OmniToken for the tokens that are not copied: the *)
(* claims of a token are one place, and a token that was on its way to a   *)
(* recipient on some chain appears there, in that recipient's hands, or    *)
(* nowhere.                                                                *)
(***************************************************************************)
Place(t) ==
  LET heldOn == {c \in Chain : owner[c][t] \in User}
  IN  IF heldOn # {}
        THEN LET c == CHOOSE x \in heldOn : TRUE
             IN  [status |-> "held", chain |-> c, who |-> owner[c][t]]
        ELSE IF Destinations(t) # {}
        THEN LET d == CHOOSE x \in Destinations(t) : TRUE
             IN  [status |-> "transit", chain |-> d[1], who |-> d[2]]
        ELSE [status |-> "gone", chain |-> Home, who |-> NoOne]

Omni == INSTANCE OmniToken WITH place <- [t \in Sound |-> Place(t)]

\* Named here so that a configuration can refer to it.
OneOmniToken == Omni!Spec

(***************************************************************************)
(* clearCredits is for anyone to call: somebody does, with enough gas for  *)
(* the rest of the batch.  The drain loop of forceResumeReceive ends.      *)
(***************************************************************************)
ClearWhole(c, p) ==
  \E cr \in credits : /\ cr.at = c
                      /\ cr.payload = p
                      /\ ClearCredits(cr, Len(p.ids))

FairSpec == /\ Spec
            /\ \A c \in Chain, p \in Payload : WF_vars(ClearWhole(c, p))
            /\ \A q \in Path : WF_vars(Drain(q))

HasCredit(c, p) == \E cr \in credits : cr.at = c /\ cr.payload = p

(***************************************************************************)
(* The credits a batch left behind are cleared in the end if the recipient *)
(* accepts tokens and none of them is copied, whatever else is sent,       *)
(* retried or reconfigured.                                                *)
(***************************************************************************)
SoundCredit(c, p) == HasCredit(c, p) /\ Tokens(p) \subseteq Sound

CreditsCleared ==
  \A c \in Chain, p \in Payload :
    p.to \in User \ Rejecting => (SoundCredit(c, p) ~> ~SoundCredit(c, p))

=============================================================================
