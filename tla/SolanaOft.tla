----------------------------- MODULE SolanaOft ------------------------------
(***************************************************************************)
(* The fungible path of zealot_nft: quote_ONft, send, lz_receive and       *)
(* mint_to, before the rate limiter of the peer, which LimitedOft adds.    *)
(*                                                                         *)
(* An adapter locks the tokens of an existing mint, whose Token-2022 fee   *)
(* may change from epoch to epoch; a native OFT burns and mints its own.   *)
(* Messages carry shared-decimals units, so amounts lose their dust.  Each *)
(* action is one transaction: an error undoes all of it.                   *)
(*                                                                         *)
(* External: the endpoints, which hand each message over once and in any   *)
(* order; the peers' contracts, which send no more than they received; the *)
(* token program.  Transfers straight into the escrow are left out.        *)
(***************************************************************************)
EXTENDS TransferFee, FiniteSets, Functions

CONSTANTS
  Ext,            \* ONftConfigExt at first: Adapter, Native(Some), Native(None)
  Fee,            \* the fees of the epochs
  User,           \* wallets
  Peer,           \* addresses a peer may have at the other chain
  NoPeer,         \* the peer account does not exist yet
  Amount,         \* amount_ld of quotes, sends and mints
  Holding,        \* what each wallet holds at first
  CpiErrorAborts, \* the runtime aborts a transaction whose inner call fails
  MaxNonce        \* bound: messages in each direction

ASSUME OftAssumption ==
  /\ Ext \subseteq {"adapter", "mintable", "native"}
  /\ CpiErrorAborts \in BOOLEAN
  /\ Fee \subseteq TransferFees
  /\ Amount \subseteq Amounts
  /\ Holding \in Amounts
  /\ NoPeer \notin Peer
  /\ IsFiniteSet(User) /\ IsFiniteSet(Peer)
  /\ Cardinality(User) * Holding <= MaxU64 \* the supply of the mint is a u64
  /\ MaxNonce \in Nat

VARIABLES
  fee,      \* the mint's fee in this epoch
  wallet,   \* spendable tokens of each user
  escrow,   \* tokens in token_escrow (adapter)
  supply,   \* token_mint.supply (native)
  ext,      \* ONftConfig.ext; mint_to is possible while it is "mintable"
  peer,     \* peer.address
  outbox,   \* messages sent and not yet received by a peer
  inbox,    \* messages verified at the endpoint and not yet cleared
  outNonce,
  inNonce,
  composed, \* amounts announced to composers, by nonce
  remote,   \* units in circulation at each peer
  abroad,   \* history: units sent less units received back
  minted,   \* history: tokens minted at first and by mint_to
  misread   \* history: units whose message was spent as an NFT message

ledger == <<wallet, escrow, supply>>
channel == <<outbox, inbox, outNonce, inNonce, remote>>
history == <<abroad, minted, misread>>
oftVars == <<fee, ledger, ext, peer, channel, composed, history>>

OutMessage == [nonce : 1 .. MaxNonce, receiver : Peer, amount_sd : Nat]
InMessage == [nonce : 1 .. MaxNonce, sender : Peer, send_to : User,
              amount_sd : Nat, compose : BOOLEAN]

-----------------------------------------------------------------------------
\* (The mutant sends local units.)
InLocalUnits(amount) == amount
Ld2sd(amount) == amount \div Ld2sdRate
Sd2ld(amount) == amount * Ld2sdRate

Adapter == ext = "adapter"

\* get_post_fee_amount_ld, get_pre_fee_amount_ld: a native mint has no fee.
PostFeeAmountLd(f, amount) == IF Adapter THEN PostFeeAmount(f, amount) ELSE amount
PreFeeAmountLd(f, amount) == IF Adapter THEN PreFeeAmount(f, amount) ELSE amount

\* What a send of amount_ld promises its recipient.
\* (The mutant keeps the dust.)
DustyReceivedLd(f, amount) == PostFeeAmountLd(f, amount)
AmountReceivedLd(f, amount) == RemoveDust(PostFeeAmountLd(f, amount))

\* (The mutant charges the amount as it is named.)
ChargeAsNamed(f, amount) == amount
AmountSentLd(f, amount) == PreFeeAmountLd(f, AmountReceivedLd(f, amount))

\* amount_received_ld of quote_ONft in whatever epoch it was asked, which a
\* sender gives as the minimum of a send, or none.
QuotedMinimum == {0} \cup {RemoveDust(PostFeeAmountLd(f, a)) : f \in Fee, a \in Amount}

-----------------------------------------------------------------------------
Init ==
  /\ fee \in Fee
  /\ wallet = [u \in User |-> Holding]
  /\ escrow = 0
  /\ supply = SumFunction(wallet)
  /\ ext \in Ext
  /\ ~ Adapter => FeeOn(fee, MaxU64) = 0
  /\ peer = NoPeer
  /\ outbox = {} /\ inbox = {}
  /\ outNonce = 0 /\ inNonce = 0
  /\ composed = {}
  /\ remote = [p \in Peer |-> 0]
  /\ abroad = 0
  /\ minted = supply
  /\ misread = 0

\* transfer_checked into the escrow: what arrives is after the fee.
LockOrBurn(u, amount) ==
  /\ wallet[u] >= amount
  /\ wallet' = [wallet EXCEPT ![u] = @ - amount]
  /\ escrow' = IF Adapter THEN escrow + PostFeeAmount(fee, amount) ELSE escrow
  /\ supply' = IF Adapter THEN supply ELSE supply - amount

Send(u, a, min) ==
  LET received == AmountReceivedLd(fee, a)
      sent == AmountSentLd(fee, a)
  IN  /\ outNonce < MaxNonce
      /\ peer # NoPeer
      /\ received >= min
      /\ sent <= MaxU64
      /\ LockOrBurn(u, sent)
      /\ outbox' = outbox \cup {[nonce |-> outNonce + 1, receiver |-> peer,
                                 amount_sd |-> Ld2sd(received)]}
      /\ outNonce' = outNonce + 1
      /\ abroad' = abroad + Ld2sd(received)
      /\ UNCHANGED <<fee, ext, peer, inbox, inNonce, remote, composed,
                     minted, misread>>

\* A peer receives a message ...
ReceiveRemote(m) ==
  /\ outbox' = outbox \ {m}
  /\ remote' = [remote EXCEPT ![m.receiver] = @ + m.amount_sd]
  /\ UNCHANGED <<fee, ledger, ext, peer, inbox, outNonce, inNonce,
                 composed, history>>

\* ... and sends one.
SendRemote(p, u, sd, compose) ==
  /\ inNonce < MaxNonce
  /\ remote[p] >= sd
  /\ remote' = [remote EXCEPT ![p] = @ - sd]
  /\ inbox' = inbox \cup {[nonce |-> inNonce + 1, sender |-> p, send_to |-> u,
                           amount_sd |-> sd, compose |-> compose]}
  /\ inNonce' = inNonce + 1
  /\ UNCHANGED <<fee, ledger, ext, peer, outbox, outNonce, composed,
                 history>>

-----------------------------------------------------------------------------
\* unlock or mint: the escrow suffices, or the supply fits its u64; sd2ld
\* aborts when the product does not fit.
Creditable(amount_sd) ==
  /\ Sd2ld(amount_sd) <= MaxU64
  /\ Adapter => Sd2ld(amount_sd) <= escrow
  /\ ~ Adapter => supply + Sd2ld(amount_sd) <= MaxU64

Credit(u, amount) ==
  /\ wallet' = [wallet EXCEPT ![u] = @ + PostFeeAmountLd(fee, amount)]
  /\ escrow' = IF Adapter THEN escrow - amount ELSE escrow
  /\ supply' = IF Adapter THEN supply ELSE supply + amount

\* clear: the endpoint forgets the message, so it cannot be received again.
\* (The mutant does not clear.)
Keep(m) == UNCHANGED inbox
Clear(m) == inbox' = inbox \ {m}

\* (The mutant announces the amount before the fee.)
AnnouncedGross(m) == Sd2ld(m.amount_sd)
Announced(m) == PostFeeAmountLd(fee, Sd2ld(m.amount_sd))

LzReceive(m) ==
  /\ m.sender = peer
  /\ Creditable(m.amount_sd)
  /\ Clear(m)
  /\ Credit(m.send_to, Sd2ld(m.amount_sd))
  /\ composed' = IF m.compose
                 THEN composed \cup {[nonce |-> m.nonce, to |-> m.send_to,
                                      amount_ld |-> Announced(m)]}
                 ELSE composed
  /\ abroad' = abroad - m.amount_sd
  /\ UNCHANGED <<fee, ext, peer, outbox, outNonce, inNonce, remote, minted,
                 misread>>

\* lz_receive_onft on the same message: it asks for the same peer, clears the
\* message and pays with an NFT whose id is what it reads in the amount's place.
LzReceiveAsNft(m) ==
  /\ m.sender = peer
  /\ Adapter \/ ~ CpiErrorAborts
  /\ Clear(m)
  /\ misread' = misread + m.amount_sd
  /\ UNCHANGED <<fee, ledger, ext, peer, outbox, outNonce, inNonce, remote,
                 composed, abroad, minted>>

-----------------------------------------------------------------------------
\* mint_to, by the mint authority: the token program checks the supply only.
MintTo(u, a) ==
  /\ ext = "mintable"
  /\ supply + a <= MaxU64
  /\ wallet' = [wallet EXCEPT ![u] = @ + a]
  /\ supply' = supply + a
  /\ minted' = minted + a
  /\ UNCHANGED <<fee, escrow, ext, peer, channel, composed, abroad, misread>>

RemoveMintAuthority ==
  /\ ext = "mintable"
  /\ ext' = "native"
  /\ UNCHANGED <<fee, ledger, peer, channel, composed, history>>

SetPeer(p) ==
  /\ peer' = p
  /\ UNCHANGED <<fee, ledger, ext, channel, composed, history>>

NewEpoch(f) ==
  /\ Adapter
  /\ fee' = f
  /\ UNCHANGED <<ledger, ext, peer, channel, composed, history>>

Next ==
  \/ \E u \in User, a \in Amount, min \in QuotedMinimum : Send(u, a, min)
  \/ \E m \in outbox : ReceiveRemote(m)
  \/ \E p \in Peer, u \in User, sd \in 1 .. MaxU64, c \in BOOLEAN :
       SendRemote(p, u, sd, c)
  \/ \E m \in inbox : LzReceive(m)
  \/ \E m \in inbox : LzReceiveAsNft(m)
  \/ \E u \in User, a \in Amount : MintTo(u, a)
  \/ RemoveMintAuthority
  \/ \E p \in Peer : SetPeer(p)
  \/ \E f \in Fee : NewEpoch(f)

Spec == Init /\ [][Next]_oftVars

-----------------------------------------------------------------------------
TypeOK ==
  /\ fee \in Fee
  /\ wallet \in [User -> Amounts]
  /\ escrow \in Amounts
  /\ supply \in Amounts
  /\ ext \in {"adapter", "mintable", "native"}
  /\ peer \in Peer \cup {NoPeer}
  /\ outbox \subseteq OutMessage
  /\ inbox \subseteq InMessage
  /\ outNonce \in 0 .. MaxNonce
  /\ inNonce \in 0 .. MaxNonce
  /\ composed \subseteq [nonce : 1 .. MaxNonce, to : User, amount_ld : Amounts]
  /\ remote \in [Peer -> Nat]
  /\ abroad \in Nat /\ minted \in Nat /\ misread \in Nat

(***************************************************************************)
(* Solvency.  What the program holds against its messages (the escrow, or  *)
(* the tokens burnt) is exactly what its messages have promised abroad, in *)
(* whatever epochs they were sent and received: the inverse fee of send    *)
(* (send.rs:71), the dust and the conversions agree to the last unit.      *)
(***************************************************************************)
Issued == IF Adapter THEN escrow ELSE minted - supply

Backed == Issued = Ld2sdRate * abroad

(***************************************************************************)
(* A unit abroad is in one place: with a peer, in a message of either      *)
(* direction, or lost to the NFT instruction.  A message received twice,   *)
(* or received from a peer it does not come from, would break the sum.     *)
(***************************************************************************)
UnitsIn(box) == SumFunction([m \in box |-> m.amount_sd])

AbroadIsSum ==
  abroad = SumFunction(remote) + UnitsIn(outbox) + UnitsIn(inbox) + misread

(***************************************************************************)
(* An adapter's message can always be credited when its turn comes: there  *)
(* is no order of arrivals, and no fee, with which the escrow falls short. *)
(***************************************************************************)
AlwaysCreditable ==
  Adapter => \A m \in inbox : Creditable(m.amount_sd)

(***************************************************************************)
(* A sender pays at most the amount named, and no more than it takes: with *)
(* a unit less the amount promised would not arrive (quote.rs:134).  What  *)
(* arrives abroad is worth at least the minimum named (send.rs:67), also   *)
(* when the fee has changed since the minimum was quoted.                  *)
(***************************************************************************)
ChargeIsFair(u, a, min) ==
  LET paid == wallet[u] - wallet'[u]
      promised == Ld2sdRate * (abroad' - abroad)
  IN  /\ paid <= a
      /\ min <= promised
      /\ \A less \in 0 .. paid - 1 : PostFeeAmountLd(fee, less) < promised

FairCharge ==
  [][outNonce' # outNonce =>
       \A u \in User, a \in Amount, min \in QuotedMinimum :
         Send(u, a, min) => ChargeIsFair(u, a, min)]_oftVars

(***************************************************************************)
(* A composer is told the amount that its wallet received, not the amount  *)
(* that the message carried (lz_receive.rs:88,146).                        *)
(***************************************************************************)
TellsTheTruth ==
  \A c \in composed' \ composed : wallet'[c.to] - wallet[c.to] = c.amount_ld

ComposerToldTheTruth == [][TellsTheTruth]_oftVars

(***************************************************************************)
(* The tokens abroad of a native OFT can come back as long as they fit its *)
(* supply together with those at home.  Sends and receives keep that; only *)
(* mint_to, which looks at the supply at home alone (mint_to.rs:30), can   *)
(* break it.                                                               *)
(***************************************************************************)
Redeemable == supply + Ld2sdRate * abroad <= MaxU64

OverfillsByMinting ==
  ~ Adapter /\ Redeemable /\ ~ Redeemable'
    => \E u \in User, a \in Amount : MintTo(u, a)

OnlyMintingOverfills == [][OverfillsByMinting]_oftVars

=============================================================================
