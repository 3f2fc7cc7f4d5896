# ONFT: a TLA+ verification project

This directory holds TLA+ models of the omnichain NFT system in this
repository, the TLC configurations that check them on small instances, and
TLAPS proofs that hold for every instance. Paths below are relative to the
repository; `contracts/` stands for
`src/77bit-reveal-transform-smart-contracts-main/contracts/` and `program/` for
`src/solana-LzApp-ONFT-main/programs/zealot_nft/src/`.

## 1. The system

Three code bases move NFTs (and fungible tokens) between chains over LayerZero.

| Component | State | Operations | Talks to |
|---|---|---|---|
| **Endpoint** `contracts/layerzero/lzApp/mocks/LZEndpointMock.sol` | outbound and inbound nonces, one stored payload per path, a queue per path, `nextMsgBlocked`, fee configuration | `send` (runs `receivePayload` at the destination before it returns), `retryPayload`, `forceResumeReceive`, `blockNextMsg`, fee setters | calls `lzReceive` of the application; called by it |
| **LzApp / NonblockingLzApp** `contracts/layerzero/lzApp/` | `trustedRemoteLookup`, gas and size limits, `failedMessages` | `lzReceive`, `retryMessage`, `forceResumeReceive`, owner's setters | endpoint below, ONFT721Core above |
| **ONFT721Core** `contracts/layerzero/ONFT721Core.sol` | `storedCredits`, batch limit, gas settings | `sendFrom`, `sendBatchFrom`, `_nonblockingLzReceive`, `clearCredits` | `_debitFrom`/`_creditTo` of the two below |
| **ONFT721** / `ONFTSevenSevenBit` | the ERC721 ledger of a remote chain | mints a token it has never seen, otherwise takes it in and hands it out | |
| **ProxyONFT721** / `ONFTSevenSevenBitProxy` | none; holds tokens of the collection | locks and releases tokens of `SevenSevenBit` | the collection's ledger |
| **SevenSevenBit** `contracts/77bit/` | ERC721A ledger, minters, `MAX_SUPPLY` | `safeMint`, burn, minters | minted by RagnarokTransform |
| **RagnarokTransform** `contracts/transform/` | addresses of three collections | `artUpgrade` (old tokens to the burn address, mint new), `reRoll` (take chips) | ERC1155 collections, SevenSevenBit |
| **LzLib, BytesLib, ExcessivelySafeCall** | none | codec of adapter parameters, slices, a call that copies bounded return data | |
| **zealot_nft** `program/` (Solana) | `ONftConfig` (admin, mint authority or escrow, `ld2sd_rate`), `Peer` with an optional `RateLimiter`, enforced options, mints and token accounts | `send`, `lz_receive` (fungible, with dust and Token-2022 fees), `send_onft`, `lz_receive_onft` (NFT), `mint_to`, admin calls | LayerZero endpoint program |
| **EvmOnftLockAdapter** `src/onft-evm/contracts/` | an ERC721 escrow | `sendLock`, `_lzReceive` | meant to talk to zealot_nft |

What makes it hard:

* *Interruption.* A message passes debit, endpoint, `lzReceive`, the inner call
  and a credit loop. It can stop at each of them (a blocked path, an untrusted
  source, lack of gas, a recipient that refuses the token) and is then kept in
  a different place: stored payload, queue, `failedMessages`, `storedCredits`.
  Each place has its own retry, open to anyone, in any order.
* *Keys that forget.* A stored payload forgets its nonce, `storedCredits` is
  keyed by the payload without a nonce, `failedMessages` is overwritten blindly.
* *Several ledgers.* That a token is unique is an invariant over all chains and
  all the places a message can wait; no contract sees more than one of them.
* *Reconfiguration.* Trust is set and unset while messages are under way, and
  only some of the retries ask again.
* *Arithmetic* on Solana: fixed width, fees whose inverse rounds, dust, time.
* *Two transactions.* On Solana a client first asks (a quote, a list of
  accounts) and then acts; fee, prices and options may change in between.
* *Two codes, one format.* Rust and Solidity contracts write down the same
  messages, account lists and ids separately.
* *Batches that name something twice*, and checks that look at each element
  alone.

What makes each component correct: the endpoint loses and repeats no message
(its queue does, section 5; nothing else may) and says in which order it
delivers; the bridge keeps each token
unique, backed by the escrow and deliverable; the collection keeps its cap and
the transform takes exactly what it pays for; the fungible path never promises
more than its escrow holds; the rate limiter bounds what leaves in a time
window; the two ends of each channel agree on the message format.

## 2. The modules

| Module | Models |
|---|---|
| `LZEndpointMock` | the endpoint as operators on its variables, one per way a message can be received, retried or resumed |
| `LZEndpointOrder` | the endpoints alone under an application that accepts or reverts anything, with history variables that follow each message |
| `OnftBridge` | the whole EVM bridge: endpoints, LzApp, NonblockingLzApp, ONFT721Core, ONFT721, ProxyONFT721 and the ERC721 ledgers |
| `OmniToken` | what the bridge promises about one token: held once, or on its way to one recipient, or gone |
| `MCLZEndpoint`, `MCOnftBridge` | instances of `LZEndpointOrder` and of `OnftBridge` for TLC |
| `OnftBridgeProofs` | the proofs about `OnftBridge`: types, uniqueness, escrow and credits, loss, refinement |
| `RateLimiter` | the token bucket of a Solana peer and the instructions that use it |
| `RateLimiterProofs` | the proofs about `RateLimiter` |
| `TransferFee` | the Token-2022 transfer fee and the program's inverse of it, as operators |
| `SolanaOft` | the fungible path of zealot_nft: `quote_ONft`, `send`, `lz_receive`, `mint_to`, fees, dust, escrow and supply |
| `LimitedOft` | `SolanaOft` composed with `RateLimiter` (INSTANCE), one transaction for both |
| `OftProofs` | the proofs about `SolanaOft` and `LimitedOft`, and about `TransferFee` |
| `ZealotOnft` | the NFT path: `send_onft`, `lz_receive_onft`, `EvmOnftLockAdapter` and the LayerZero templates, on any number of chains, with the fungible messages on the same channels |
| `ZealotOnftProofs` | the proofs about `ZealotOnft` |
| `LzReceiveAccounts` | the accounts that `lz_receive_types` lists, those that `lz_receive` takes, and an executor between them |
| `MessageFees` | quotes of the messaging fee, enforced options, message lengths |
| `MessageProofs` | the proofs about `LZEndpointOrder`, `LzReceiveAccounts` and `MessageFees` |
| `ZealotAdmin` | initialisation, administration and mint authority of zealot_nft |
| `ZealotAdminProofs` | the proofs about `ZealotAdmin` |
| `RagnarokMint` | `SevenSevenBit` and `RagnarokTransform` with the ledgers they work on |
| `RagnarokMintProofs` | the proofs about `RagnarokMint` |
| `SumTheorems` | lemmas on sums over finite sets and on the least of a set of naturals |
| `MCLimitedOft`, `MCZealotOnft`, `MCZealotInstructions`, `MCRagnarokMint` | instances for TLC; `MCZealotInstructions` joins `ZealotAdmin`, `LzReceiveAccounts` and `MessageFees`, which share no state |

Properties are defined in the module whose code they are about, theorems in a
module of their own. `TypeOK` of `SolanaOft`, `ZealotOnft` and `RagnarokMint`,
`AccountsTypeOK` of `LzReceiveAccounts`, `FeesTypeOK` of `MessageFees` and
`LimitedTypeOK` of `LimitedOft` are no properties of a run. They hold on the
instances of section 3 (name them in the configuration's INVARIANTS to see it).
All but `LimitedTypeOK` are proved, and most begin the inductive invariants of
section 4.

### LZEndpointMock and LZEndpointOrder

A path is a pair of chains: with one application per chain the contract's
40-byte path says no more. `TakeNonce` is the common part of `send` and
`receivePayload` (both nonces step, the destination insists on the next one).
`ReceiveQueued`, `ReceiveBlocked`, `ReceiveReverted` and `ReceiveDelivered` are
the branches of `receivePayload`. `forceResumeReceive` drops the stored message
and runs a loop over the queue in the same transaction; the loop is a sequence
of `DrainQueue` steps during which `resuming` holds the path and disables every
other action. An iteration that reverts undoes the whole call. The model has no
undo: it takes the call only if it can go through (`ForceResume` requires the
trust that every iteration checks), and the loop has no failing branch.

The queue is an array whose oldest entry is last. Before a new message is put
first, a loop (`LZEndpointMock.sol:239`) moves the others up, but copies over
entries it has yet to move: all of them become the youngest. `Enqueue` does that
to a sequence that is oldest first. With none or one message queued it is
`Append`; with A and B queued (A older) the message C leaves B, B, C: A is lost
and B is delivered twice.

The contract itself forgets the nonce of a stored message; `LZEndpointOrder`
keeps it, the order of delivery, and which messages the loop overwrote and
copied, in history variables that no guard reads.

### OnftBridge

One action is one transaction. `Send` contains the sender's debit, the
endpoint, the destination's `lzReceive`, the try/catch, the credit loop and the
storing of what is left. The receiving operators take the ownership map `o` they
start from, because during a send it is the map after the debit.

| Code | Model |
|---|---|
| `ownerOf`, `getApproved` of each token contract | `owner[c][t]`, `approved[c][t]`; `NoOne` is the zero address (not minted), `Bridge` the application of the chain |
| `trustedRemoteLookup` | `trusted[c]`, the chains whose right path is set; an empty or a wrong entry is the same: the receiver rejects it and the sender finds no endpoint there |
| `storedCredits[keccak(payload)]` | `credits`, one record per chain and payload at most |
| `failedMessages[src][path][nonce]` | `failed`, one record per path and nonce at most |
| `sendFrom`, `sendBatchFrom` | `Send` |
| `retryPayload`, `forceResumeReceive`, its loop | `RetryStored`, `ForceResume`, `Drain` |
| `retryMessage`, `clearCredits` | `RetryMessage`, `ClearCredits` |
| `transferFrom`, `approve` | `TransferFrom`, `Approve` |
| `setTrustedRemote(Address)` | `SetTrustedRemote`, `UnsetTrustedRemote` |
| `blockNextMsg` | `BlockNext` |

Gas is a free choice of the caller. `lzReceive` may run out of gas (the message
is stored), the inner call may (it is written to `failedMessages`), the credit
loop may stop at any index. `_safeMint` and `safeTransferFrom` fail for the
accounts in `Rejecting`; the remote contract's plain `_transfer` does not ask
the recipient. A mint or release to the zero address fails; one to the
application itself succeeds only where the code lets it (the remote contract
has no `onERC721Received`, the proxy accepts what it sends itself).

`copied` is history: the tokens of the messages that a queue's shift loop has
copied (`NoteCopied`). Two copies of such a message are delivered, so nothing can
be promised of their tokens, and the properties are about the others (`Sound`),
whatever the copied ones do beside them in the same batch. The tokens of the
message that is overwritten stay among the others: they are lost, in one of the
three ways of `LostInThreeWays`.

Abstracted: fees, gas amounts and events. `setApprovalForAll` is left out (a
single approval stands for it) and burning of the collection at home; the
supply is minted before the bridge starts. A call from `onERC721Received` back
into the bridge is not modelled (section 7).

### RateLimiter

`limiter` is `peer.rate_limiter`, an `Option` of four `u64` fields. `Send` is the
call of `try_consume` in `send.rs`, `Receive` the call of `refill` in
`lz_receive.rs`, `SetRateLimit` and `Disable` are `set_rate_limit.rs` (the
capacity first, then the rate, which refills at the old rate). `Tick` is the
runtime's clock, which does not go back. The release profile checks overflow
(`Cargo.toml` of the workspace), so a sum or product that exceeds `MaxU64`
aborts the transaction and the action is not enabled; one guard, `RefillFits`,
says when all the intermediate results fit. (Line 39 of `peer.rs` uses `?` on an
`Option` where a `Result` is returned; either way the transaction fails.)
`windowStart`, `sent` and `received` are history: a window opens at any moment,
and anew whenever the setting changes.

### TransferFee, SolanaOft and LimitedOft

`PreFeeAmount` is `calculate_pre_fee_amount` of `quote.rs` branch by branch;
`FeeOn` is the token program's fee and external. Products are `u128` in the
code and do not overflow.

| Code | Model |
|---|---|
| amounts of the token accounts, of `token_escrow`; `token_mint.supply` | `wallet`, `escrow`, `supply` |
| `ONftConfig.ext` | `ext`: `"adapter"`, `"mintable"` = `Native(Some(_))`, `"native"` = `Native(None)` |
| `peer.address` | `peer` |
| messages at the endpoint | `outbox`, `inbox`; in shared-decimals units, received in any order |
| `amount_received_ld` of `quote_ONft` | `QuotedMinimum`: what the instruction answers in any epoch, from which a sender takes `min_amount_ld` |
| `send`, `lz_receive`, `mint_to`, `set_peer` | `Send`, `LzReceive`, `MintTo`, `SetPeer` |
| `lz_receive_onft` on a fungible message | `LzReceiveAsNft` |
| `send_compose` | `composed` |

The peers' contracts are external: they send no more than they received
(`remote`). `abroad`, `minted` and `misread` are history and no guard reads
them. `fee` is the mint's fee of the epoch, free to change between any two
transactions (`NewEpoch`); a native mint has none, as `get_post_fee_amount_ld` takes it. An
addition that does not fit a
`u64` aborts the transaction, so it is a guard (`Creditable`).

`LimitedOft` adds the limiter of the peer. `LimitedSend` and `LimitedReceive`
conjoin the action of `SolanaOft` with that of `RateLimiter`: the code does
both in one transaction, so a bucket that refuses undoes the transfer.

### ZealotOnft

Each chain runs an application of one kind: zealot_nft as `"native"` (burn and
mint) or `"adapter"` (lock and unlock, with the mint of an empty escrow in
`lz_receive_onft.rs:148`), `EvmOnftLockAdapter`, or one of the templates
`MyONFT721Adapter` and `MyONFT721`. The base contracts of the templates are
not in the repository; their kinds are external and do what the Solana program
relies on. `balance[c][t][h]` is the token account of mint `t` on Solana and
the ERC721 ledger elsewhere, with `App` for the escrow. A message is its length
(64, 40 or 72 bytes; the last stands for every length with a composed message),
recipient and id; an id is a `u256` on an EVM chain and what is left of it in
eight bytes elsewhere (`EncodedId`, `DecodedId`). Only `send_onft`, whose parameter
is a `u64`, and `sendLock` refuse larger ids (`Sendable`).

The fungible instructions use the same configuration and the same peers.
`FungibleSend` is `send.rs` as far as this path sees it: a message of 40 or more
bytes that leaves the balances of NFTs alone (what it debits is in `SolanaOft`).
Where a reader of NFTs looks for the id there is the amount, or bytes of the
composed message and its sender. `LzReceiveAsToken` is the opposite: `lz_receive`
spends the message of an NFT.

`mixed` is history: the tokens that came out of a message that was not theirs
(an amount, or an id cut to 64 bits) and those whose own message came out as
another's. A program that mints what it is told makes a second copy of them, and
the properties are about the other tokens.

A native receive calls the metadata program without the metadata account
(`lz_receive_onft.rs:109`) and ignores the result. On the Solana runtime, which is
external, the failure of an inner call ends the whole transaction; so the
receive never succeeds (`Creditable`).

### LzReceiveAccounts and MessageFees

`Leading` and `EventAccounts` are the list in `lz_receive_types.rs`, `Declared`
is `struct LzReceive`, `ForClear` and `ForCompose` the slices `lz_receive`
takes. `Accepted` is what Anchor and the endpoint ask of a list. The executor
may hold a list of another message or epoch.

In `MessageFees`, `QuotedFee` is what `quote` and `quote_onft` ask the
endpoint, `Outgoing` what `send` and `send_onft` give it; options are sequences of
gas amounts, a message is its length. `combine_options` of the oapp crate and the
endpoint's price are external; the price changes at any moment.

### ZealotAdmin

One mint, a native configuration found by the mint and one adapter
configuration for each escrow account. An action has the keys that sign as
parameters; `signers` keeps them. `TransferAdmin` stores the admin it is told,
while another account signs as the new one (`transfer_admin.rs:18`).

### RagnarokMint

`ownerOf` is the ERC721A ledger of `SevenSevenBit`, `ronin` and `chips` the
ERC1155 ledgers of old tokens and chips, with the burn address and the transform
contract among the holders. `BatchCovered` and `BatchMoved` are
`safeBatchTransferFrom`, which goes through the ids one after the other, so that
an id named twice needs the sum of its amounts, unless sender and recipient are
the same. A batch is a function on positions, and the ledgers add it up by id. Each
external function of `RagnarokTransform` is one action, with the
checks of its loop before the transfer that decides.

## 3. The runs

| Run | Instance | Shows |
|---|---|---|
| `endpoint_order` | 2 chains, 5 messages per path | `ExactlyOnePlace`: sent = delivered, stored, queued in order, dropped or overwritten by the shift loop, twice only what the loop copied. `NeverPastStored`: nothing passes a stored message. `DisorderOnlyAfterRetry`: only a `retryPayload` that leaves a queue behind can put messages out of order |
| `endpoint_fifo` | same, 4 messages per path | violation: the queue is the FIFO that `LZEndpointMock.sol:238` wants it to be |
| `endpoint_ordered` | same, 4 messages per path | violation: the ordered delivery that `LZEndpointMock.sol:12` promises |
| `bridge` | 2 chains, 4 tokens, batches of 2, 4 messages from home and 1 back | `NoDuplication`, `EscrowBacking`, `WaitingIsCreditable`, `CreditsKept`, `LostInThreeWays`: of tokens that no queue copied |
| `bridge_recipients` | 2 tokens; 2 users, one of them refusing tokens; sends to users, to the bridge and to the zero address; 2 messages per path; fairness | `OneOmniToken` (the bridge implements `OmniToken`), `CreditsCleared` |
| `failed_message_kept` | 3 tokens sent one by one, 3 messages | violation: a failed message can be overwritten |
| `rate_limiter` | width 15, 3 capacities, 3 rates, 3 amounts, 4 seconds | `WindowBound`: what leaves in any window is at most the capacity, the refill and what came in. `RateNotRetroactive`: a new rate leaves alone what can be sent now. `OverflowNeedsReset`: after an overflow nothing passes until the admin sets a capacity or removes the limiter |
| `refill_per_second` | same | violation: a second refills twice `refill_per_second` |
| `oft` | width 16, 4 local units per shared unit, adapter and native, no fee, a quarter, and a quarter up to 2, two peer addresses, 2 messages each way, a limiter | `Backed`: the escrow (or what was burnt) is what is abroad, to the unit. `AbroadIsSum`: a unit abroad is in one place. `AlwaysCreditable`: the escrow never falls short. `FairCharge`: a sender pays the least that makes the promise arrive. `ComposerToldTheTruth`. `OnlyMintingOverfills`: only `mint_to` can make the supply too large for what is abroad. `NetOutflowBound`: the limiter bounds what is owed abroad. `HeldOnlyByOverflow`: what a limiter can hold up |
| `zealot_onft` | a line of 3 chains, 3 deployments, 2 users, ids 0 and 2 where a `u64` holds 2, 3 messages | `OnePlace`, `NoSecondMint`, `Deliverable`, `OneOmniToken` (the NFT path implements `OmniToken` as well): of tokens that were not confused |
| `zealot_instructions` | 2 keys, one escrow account, a `u8` of 5 values, a `u64` up to 1000, three mints; 16 messages, 3 fees; 3 enforced options, 2 extra ones, composed messages empty, at the limit and beyond it, 2 prices | `RateIsExact`, `SettledOnce`, `RemovedForever`, `OnlyItsOwners`. `AccountsFit`: the two account lists agree but for the two event accounts. `QuoteSuffices`: what was quoted is taken. `EnforcedOptionsHold`: no message with less gas than its receiver's kind needs |
| `ragnarok` | 2 users, 2 collections, 2 ids, batches of 2, cap 2, 3 tokens minted in all | `UpgradeConserves`: a new token for each old one burnt. `SupplyCapped`. `ReRollPaysChips`: each chip named is paid |

Why the bounds are enough to be of interest. Two messages on a path are the
least that can be stored and queued, three the least with which a retried
message and a drained one meet at the same nonce, four the least with which the
shift loop goes wrong: one stored, two queued, one more. With five it runs a
second time, over what its first run left. In `bridge` four messages leave home
and one comes back, which is enough to send on a token that was delivered twice
and to meet it where it is held; four tokens are as many as there are
messages that can carry one each, and its batches of two can stop in the middle.
(Both orders of a batch and its single-token sends are different payloads.) No
property of that run tells the tokens apart, so they are symmetric.
`bridge_recipients` has no queue of three, because its liveness and refinement are
checked without symmetry; `ImplementsOmniToken` and `NothingIsStuck` (section 4)
cover longer queues. `MaxNonce` bounds the number of sends along each path, is
set by `Messages`, `Outward` and `Back`, and is the only bound; it is a guard of
`TakeNonce`. For the limiter, a width of 15 lets a refill overflow within the
four seconds (at rate 3), fit exactly and stay clear of it (at rates 0 and 1);
the capacities lie below, at and above what a second refills. `MaxTime` guards
`Tick`, `MaxReceived` guards `Receive`; what is sent is bounded by them through
`WindowBound` itself.

In `oft` the one amount (10) loses dust with a rate of 4 under each of the three
fees: none, a quarter, and a quarter cut off at 2, each of which rounds
differently. The two peer addresses are symmetric: nothing in the program or the
properties tells them apart. `MaxNonce` 2 lets two sends of different epochs be
received in either order, `MaxU64` 16 lets `mint_to` overfill the supply and the
limiter's refill overflow. `MaxTime` and `MaxReceived` are those of the limiter.
In `zealot_onft` `MaxSends` 3 takes a token from home over the near chain to the
far one and back by one chain, or sends it out with a truncated or a fungible
message that makes a copy of it and meets that copy. The chains form a line (home,
near, far); the contract in the middle locks or mints, the one at the end is a
native program or a template; and of the two ids one fits a `u64` and the other is
cut down to it. `InBounds` also bounds what is set and under way at one time: one
wrong address (`MaxWrong`), one fungible message (`MaxFungible`). The two users
are symmetric. In `ragnarok` three tokens under a cap of two include one that was
burnt to make room (`MaxMinted`), batches of two are the least that names an id
twice (`MaxBatch`). `MaxIssued` in `zealot_instructions` counts one `mint_to`,
which is all that `RemovedForever` has to see. In that run a behaviour is about
one of the three modules it joins, and the others stay as they began. A third
chain in `bridge` shows nothing that `NeverDuplicated` (section 4) does not prove
for any number; tokens that go round over a chain that is not home are part of
`zealot_onft`.

Deadlock is checked everywhere: trust can always be set again, a message can
always be blocked, a limiter, a peer, an approval or options can always be set.

*Fairness* (`bridge_recipients`). `ClearWhole` is weakly fair: `clearCredits` is
external, unguarded by ownership and names no caller, so somebody (the
recipient) calls it again and again with gas for the whole remainder. `Drain` is
weakly fair because it is the body of a loop in a transaction that is running.
Nothing else is fair: no message has to be sent, retried or resumed.
`CreditsCleared` speaks of recipients that accept tokens, the others can keep a
remainder forever.

## 4. What is proved

Everything here holds for every value of the constants that meets the named
assumptions of the modules; a run shows the same property on a small instance.
The assumptions say that sentinels differ from the values they stand beside,
that amounts and settings fit their type, and the few things named below.
Each proof rests on an inductive invariant; TLC checked it on the run's instance
before it was proved. Each component has a theorem `TypeCorrect` (accounts and
fees: `AccountsTypeCorrect`, `FeesTypeCorrect`) of its types.

*Endpoint* (`MessageProofs`). `NothingLostNorTwice`
(`ExactlyOnePlace`), `OrderKeptButByRetry` (`DisorderOnlyAfterRetry`),
`StoredBlocksPath` (`NeverPastStored`). `IInv` is a conjunction over paths:
`Placed` and `Apart` write out, message by message, that each nonce has a place and
only one, or was copied by the shift loop. So for any number of messages that
loop is all that loses or repeats one, and what it repeats stays behind nothing
younger. They do not say why the order holds, which `InOrder` adds: what is
stored is younger than all that was delivered, so is what is queued unless a
`retryPayload` left it behind, and only a queue that was left behind or is being
drained has nothing stored in front of it.

*Bridge* (`OnftBridgeProofs`), assuming that home is a chain and that a
payload has a recipient and at least one, at most `BatchLimit` ids. All but
`FailedLeaveInTwoWays` and the second half of `EscrowBacksAll` are about tokens
that no queue has copied (`Sound`), beside any number of copied ones:

* `NeverDuplicated` (`NoDuplication`). The property counts the places of a token
  and is not inductive: nothing in it says that a token that is abroad or in
  transit is *not* available for a second credit, nor that a message carries a
  token once, which a queue with copies in it keeps as well. `IInv` adds that
  (`UnderWayNoRepeat`) and states uniqueness as pairwise exclusions between the
  kinds of places, each of which a step preserves for its own reason. There is one
  lemma per action; each case shows where the new claim comes from and which old
  claim has gone.
* `EscrowBacksAll` (`EscrowBacking`), `WaitingCanBeCredited`
  (`WaitingIsCreditable`), `StoredCreditsKept` (`CreditsKept`), from `KInv`. The key
  is `HomeHeld`: home never loses a token to the zero address. Uniqueness leaves
  no user at home who could hold a token that is elsewhere, so the application
  does. `NoStaleApproval` shuts out that somebody takes it from there, `OnePerKey`
  that `storedCredits` is overwritten.
* `NothingLostByAccident` (`LostInThreeWays`) and `ImplementsOmniToken`
  (`OneOmniToken`), with `NInv`: failed and queued messages have nonces that were
  used, and while a message is stored the failed ones are older than the nonce its
  retry runs under. So a new failure does not fall on an old entry, except in
  the drain loop, which alone delivers with an older nonce. For the refinement
  each action is sorted, token by token, into five kinds of steps, `Stays`, `Drops`,
  `Lands`, `Departs`, `Moves`; one lemma each maps them to a step of `OmniToken` or
  a stutter.
* `FailedLeaveInTwoWays` (`FailedOnlyOverwritten`), also from `NInv`: a failed
  message leaves `failedMessages` with its tokens with their recipient or in a
  stored credit, or because the drain loop of its own path failed with a message
  of its nonce. The finding `failed_message_kept` shows that the second happens;
  the theorem says that nothing else does.
* `NothingIsStuck` (`Finishable`): whatever was reached, a stored credit or a
  failed message for a recipient that takes tokens is finished by a single
  `clearCredits` or `retryMessage` that has the gas, if none of its tokens was
  copied. It is `WaitingCanBeCredited` carried through the whole credit loop;
  `CreditsOpen` adds that no stored credit is used up. `CreditsCleared` needs this
  and that somebody calls.

*Rate limiter* (`RateLimiterProofs`). `WindowBounded` (`WindowBound`),
`RateChangeKeepsAvailable` (`RateNotRetroactive`), `OverflowIsFinal`
(`OverflowNeedsReset`), for every width. `WindowBound` speaks of the time from the
start of the window to now, while the code grants tokens only up to the last
refill; `Budget` ties the tokens that are left to those that were sent, up to
`last_refill_time`, and has a case of its own for a window without a refill,
where what was earned before the window is cut off by the capacity.

*Fungible path with its limiter* (`OftProofs`), assuming finitely many users
whose holdings sum to at most a `u64`, and finitely many peer addresses:

* The fee. `calculate_pre_fee_amount` returns the least amount that leaves what
  is wanted, on the amounts `send` gives it; products are opaque terms
  with a few laws, so that what remains is linear arithmetic. `SendersChargedFairly`
  (`FairCharge`) and `ComposersToldTheTruth` follow.
* The units. `IInv` is `TypeOK`, `Backed` and `AbroadIsSum` with `Kept`, that
  wallets and escrow together fit a `u64` (or that a native supply is in the
  wallets), and `Fresh`, that nonces under way have been given out, without which a
  message could vanish in a set that holds an equal one. `Solvent` (`Backed`),
  `UnitsConserved` (`AbroadIsSum`), `EscrowPays` (`AlwaysCreditable`) and
  `OnlyMintOverfills` follow.
* The limiter. `LimiterOnlyRestricts` is `LimitedSpec => Spec`: the composition
  implements the path without a limiter, so what holds there holds here.
  `OutflowBounded` (`NetOutflowBound`) needs `Flow`, which compares what went
  abroad with what the limiter counted, and the limiter's own invariant.
  `TransfersHoldUpNothing` (`HeldOnlyByOverflow`) follows from the same.
  `LimiterImplemented`, `LimitedSpec => RL!Spec`, is the other half: the bucket
  inside the program, which counts amounts before and after fees and dust, takes
  only the steps of `RateLimiter`, so the theorems on that module hold of it.

*NFT path* (`ZealotOnftProofs`), for every deployment in which the collection is
at home, the other chains run no adapter of an ERC721, and the lock adapter deals
with Solana programs only, and for any ids (what an id is cut down to is an id
of the collection too): `TokenInOnePlace` (`OnePlace`), `NeverMintedTwice`
(`NoSecondMint`), `AddressedIsDeliverable` (`Deliverable`), `ImplementsOmniToken`. No
contract knows more than its own balances, so the invariant says for each token
that was not confused whether a user holds it, a message carries it or it was
lost to the wrong instruction, and for each chain what its escrow may then hold.
Nothing is assumed of the confused ones: they may have any number of copies, and
a step that makes one, of an amount or a truncated id, is a case of each lemma
about `Receive`. `NativeMintsNothing`: no account of a native program ever holds a
token.

*Accounts and fees of messages* (`MessageProofs`), for any numbers of accounts the
endpoint asks for, any limits, options and prices:

* `AccountListsAgree` (`AccountsFit`). Rust builds one list and slices another. The
  proof goes segment by segment, with lemmas on what `SubSeq` and an index give in
  a joined sequence (`LeadingFits`, `DeclaredFits`, `TrimmedAccepted`). That the whole
  list is refused needs one position where the two disagree (`ReturnedRefused`). A
  step does not matter: the property holds of any pending message.
* `QuotesAreEnough` (`QuoteSuffices`). The invariant `QuoteFresh` says that the fee held
  is the one asked for under the present price and options; `QuotedIsAsked` that `quote`
  and `quote_onft` ask for what `send` and `send_onft` produce, length by length.
* `EnforcedGasIsPaid` (`EnforcedOptionsHold`). The gas of options is a sum over
  positions, which grows when options are appended (`GasJoined`), so what a sender
  adds never takes anything from what is enforced.

*Administration* (`ZealotAdminProofs`). `ExactRate` (`RateIsExact`),
`ImmutableSettings` (`SettledOnce`), `NeverMintedAgain` (`RemovedForever`),
`OwnersOnly` (`OnlyItsOwners`), for any mints and widths. `IInv` adds
`AdapterHasNoAuthority`: an adapter's configuration never has a mint authority,
although one variable serves both kinds.

*Collection and transform* (`RagnarokMintProofs`), assuming finitely many old
collections and ids: `MintedIsPaidFor` (`UpgradeConserves`), `SupplyStaysCapped`
(`SupplyCapped`), `ChipsArePaid` (`ReRollPaysChips`). The ledgers move a batch by id,
with the sum of the amounts that name an id; what is minted is added up by
position. `SumByKind` says that the two sums agree, for any batch.

*Lemmas on sums* (`SumTheorems`). The sums of the models are folds of the
community modules, recursive functions and so a CHOOSE of which nothing is
known until a function that satisfies the recursion is shown to exist. Induction is
over the least size of a counterexample (`LeastNatural`, `SubsetInduction`).
`ZealotAdminProofs` treats `PowerOfTen` in the same way.

Only model-checked: `CreditsCleared`, because liveness under fairness is beyond
the prover. Proved of it is that the step it waits for does what it should:
`NothingIsStuck`. Each violation of section 5 is a counterexample; the theorem
next to it says how far the damage goes: `NothingLostNorTwice`,
`OrderKeptButByRetry`, `FailedLeaveInTwoWays`, and `WindowBounded` with twice the
rate.

## 5. Findings

With a run that shows the violation:

* `LZEndpointMock.sol:239`: the loop that shifts the queue copies `msgs[i]` to
  `msgs[i + 1]` with rising `i`, over entries it has yet to move. A message that is
  queued behind two others or more destroys all of them but the youngest, which
  is then delivered once for each of them and once more. The comment at line 238
  wants a FIFO (`endpoint_fifo`). A bridge loses the tokens of the destroyed messages
  for good and delivers those of the other repeatedly: a second delivery may fail
  into `failedMessages`, or, once the recipient has sent the token on, credit it again.
  `NothingLostNorTwice` and `NothingLostByAccident` say that nothing else in the
  endpoint does such damage.
* `LZEndpointMock.sol:362`: `retryPayload` leaves the queue behind the message
  it delivers; later messages overtake the queued ones (`endpoint_ordered`). Only
  such a queue is overtaken (`OrderKeptButByRetry`).
* `LZEndpointMock.sol:360`: `retryPayload` runs a message under the nonce of
  the newest queued one; if both fail, the second overwrites the first in
  `failedMessages` and its tokens are lost (`failed_message_kept`). A
  failed message is lost in no other way (`FailedLeaveInTwoWays`).
* `state/peer.rs:38`: the refill is added twice, at lines 38 and 39, so a second
  is worth twice `refill_per_second` (`refill_per_second`).

Met while modelling, without a run of their own; the models follow the code:

* `lz_receive_types.rs:84-95` lists the event authority and the program before the
  accounts for `clear`, `lz_receive.rs:70` slices those right after its ten
  declared accounts: the list is refused as it is returned and accepted without
  these two. `AccountsFit` says both.
* `send_onft.rs:116` encodes 64 bytes, `EvmOnftLockAdapter.sol:72` insists on 40,
  and its assembly reads the id from the padding: what is sent from Solana cannot
  be received there, although the comment at line 13 promises a compatible payload.
  `Deliverable` says where messages are readable and that these are not.
* `lz_receive_onft.rs:18`: the NFT and the fungible instructions share their peers,
  and messages have no kind. A fungible message that is received by
  `lz_receive_onft` mints or unlocks the NFT whose id is the amount, and an NFT's
  message that is received by `lz_receive` is spent on fungible tokens. `OnePlace` and
  `NoSecondMint` hold of the tokens that this has not happened to.
* `onft_msg_codec.rs:43` keeps the low 64 bits of an id, which `src/onft-evm/README.md:62`
  calls a `uint256`. `EvmOnftLockAdapter.sol:36` refuses larger ids; the templates do
  not, as far as the repository shows, so two tokens can meet at one mint, and what
  goes back is the smaller id.
* `lz_receive_onft.rs:76,87` calls the metadata "best-effort" and ignores the
  result of the inner call at line 109; the runtime does not, so that a native
  program never mints an NFT (`NativeMintsNothing`).
* `transfer_admin.rs:13,18`: the account that signs as the new admin need not be
  the admin that is stored, and the endpoint's delegate stays the old one.
* README.md:28 of the contracts says that chips are locked on the transform
  contract's address; `RagnarokTransform.sol:123` sends them to its owner.
  `ReRollPaysChips` states what the code does.

## 6. Plan

Modelled: the endpoint and the bridge, the rate limiter, the fungible and the NFT
path, accounts and fees of messages, administration, the collection and its
transform. Every safety property of the passing runs is proved (section 4). What
could follow:

1. `LzFees` (`LzLib.sol`, `estimateFees`, gas checks): pure operators.
2. `LzMigration`: two applications on one chain and the nonce per address;
   re-entrant calls of the bridge as micro-steps.

## 7. Not modelled, and why

*EVM side.* Fees and gas amounts (item 1 of section 6), re-entrancy through
`onERC721Received` and applications that move (item 2; a transaction is one
action so far), `setApprovalForAll` and burning at home in the bridge, the setters
of limits and versions, `_precrime` and the endpoint's configuration stubs (no
behaviour depends on them), `setSldChipAddress` and `setSevenSevenBitAddress`
(`setRagnarokAddress` is the same operation on the address that matters for
`UpgradeConserves`), the setters of URIs, upgrades of the UUPS proxies,
recipients of the collection that are contracts, `quoteSendLock`.

*Solana side.* Events, error codes and the version; several configurations of
one program, whose NFT mints have the same addresses because these are derived
from the id alone (`send_onft.rs:58`); transfers straight into an escrow, which
only add to what backs the tokens abroad; freezing and closing of accounts.

*External.* The base contracts of `MyONFT721` and `MyONFT721Adapter` are not in the
repository. `ZealotOnft` lets them do what the Solana program relies on: lock or burn
and mint, with any id, in messages of 64 bytes. `MyONFT721` mints what it is told
unless it exists there. Who submits messages to the Solana program is external
too: `LzReceiveAccounts` says which account lists are taken, and claims no
delivery, because the list that `lz_receive_types` returns is refused as it is.

*Tools.* Deployment scripts, tasks and tests; byte and call libraries as such
(their effect is part of the operators that use them).
