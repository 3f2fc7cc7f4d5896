----------------------------- MODULE ZealotAdmin ----------------------------
(***************************************************************************)
(* Who may configure zealot_nft, over any sequence of instructions: the    *)
(* two initialisations, which anybody may call, the admin's instructions   *)
(* and the mint authority's.  There is one mint; its native configuration  *)
(* is found by the mint, an adapter's configuration by its escrow account. *)
(*                                                                         *)
(* A signature is what a Solana account constraint can ask for; signers is *)
(* the set of keys that signed the last transaction.                       *)
(***************************************************************************)
EXTENDS Integers

CONSTANTS
  Key,          \* accounts that sign
  NoKey,        \* None
  Escrow,       \* accounts that can become an escrow
  MintKinds,    \* [decimals, closable, freezable]: mints there may be
  SharedDecimals,
  U8Size,       \* the number of values of a u8
  MaxRate,      \* the largest u64
  PeerAddress,
  Options,
  Unset,        \* a setting whose account does not exist
  NoConfig,     \* the configuration account does not exist
  MaxIssued     \* bound: tokens issued by mint_to

Native == "native"   \* seed: the mint
Config == {Native} \cup Escrow

ASSUME AdminAssumption ==
  /\ NoKey \notin Key
  /\ Native \notin Escrow
  /\ MintKinds \subseteq [decimals : 0 .. U8Size - 1, closable : BOOLEAN,
                          freezable : BOOLEAN]
  /\ SharedDecimals \subseteq 0 .. U8Size - 1
  /\ Unset \notin PeerAddress /\ Unset \notin Options
  /\ U8Size \in Nat \ {0} /\ MaxRate \in Nat /\ MaxIssued \in Nat

VARIABLES
  mint,       \* the mint, and ...
  handedOver, \* ... whether its authority is the configuration's account
  config,     \* [Config -> ONftConfig with its peer, or NoConfig]
  delegate,   \* the endpoint's delegate of each configuration (external)
  issued,     \* tokens minted by mint_to
  signers     \* history: who signed the last transaction

vars == <<mint, handedOver, config, delegate, issued, signers>>

Exists(c) == config[c] # NoConfig

\* has_one = admin.  (The mutant asks for any signature.)
AnySignature(k, c) == Exists(c)
IsAdmin(k, c) == Exists(c) /\ config[c].admin = k

-----------------------------------------------------------------------------
\* decimals - shared_decimals of two u8 and the power of ten are checked.
\* (The mutant wraps the difference.)
WrappedDigits(shared) == (mint.decimals - shared) % U8Size
LostDigits(shared) == mint.decimals - shared

\* 10u64.pow(n), as if it had no width.
PowerOfTen[n \in Nat] == IF n = 0 THEN 1 ELSE 10 * PowerOfTen[n - 1]

RateFor(shared) == PowerOfTen[LostDigits(shared)]

\* (The mutant does not check the power.)
RateUnchecked(shared) == LostDigits(shared) >= 0
RateFits(shared) == LostDigits(shared) >= 0 /\ RateFor(shared) <= MaxRate

NewConfig(admin, shared, authority) ==
  [admin |-> admin, mint_authority |-> authority, shared |-> shared,
   ld2sd_rate |-> RateFor(shared), peer |-> Unset, enforced_options |-> Unset,
   rate_limited |-> FALSE]

\* (The mutant takes an account that exists.)
Taken(c) == TRUE
Free(c) == ~ Exists(c)

\* onft.rs init, which registers the admin as the endpoint's delegate.
Register(c, payer, admin, shared, authority) ==
  /\ Free(c)
  /\ RateFits(shared)
  /\ config' = [config EXCEPT ![c] = NewConfig(admin, shared, authority)]
  /\ delegate' = [delegate EXCEPT ![c] = admin]
  /\ signers' = {payer}
  /\ UNCHANGED <<mint, handedOver, issued>>

InitONft(payer, admin, shared, authority) ==
  /\ handedOver
  /\ ~ mint.closable
  /\ Register(Native, payer, admin, shared, authority)

InitAdapterONft(payer, e, admin, shared) ==
  /\ ~ mint.freezable
  /\ Register(e, payer, admin, shared, NoKey)

\* External: the mint's creator makes the native configuration its authority.
HandOver ==
  /\ ~ handedOver
  /\ handedOver' = TRUE
  /\ signers' = {}
  /\ UNCHANGED <<mint, config, delegate, issued>>

-----------------------------------------------------------------------------
\* The admin stored is a parameter (transfer_admin.rs:18), which need not be
\* the account new_admin that has to sign.
TransferAdmin(c, k, new_admin, admin) ==
  /\ IsAdmin(k, c)
  /\ config' = [config EXCEPT ![c].admin = admin]
  /\ signers' = {k, new_admin}
  /\ UNCHANGED <<mint, handedOver, delegate, issued>>

SetPeer(c, k, address) ==
  /\ IsAdmin(k, c)
  /\ config' = [config EXCEPT ![c].peer = address]
  /\ signers' = {k}
  /\ UNCHANGED <<mint, handedOver, delegate, issued>>

SetEnforcedOptions(c, k, o) ==
  /\ IsAdmin(k, c)
  /\ config' = [config EXCEPT ![c].enforced_options = o]
  /\ signers' = {k}
  /\ UNCHANGED <<mint, handedOver, delegate, issued>>

\* The limiter is part of the peer account, which has to exist.
SetRateLimit(c, k, enabled) ==
  /\ IsAdmin(k, c)
  /\ config[c].peer # Unset
  /\ config' = [config EXCEPT ![c].rate_limited = enabled]
  /\ signers' = {k}
  /\ UNCHANGED <<mint, handedOver, delegate, issued>>

SetDelegate(c, k, d) ==
  /\ IsAdmin(k, c)
  /\ delegate' = [delegate EXCEPT ![c] = d]
  /\ signers' = {k}
  /\ UNCHANGED <<mint, handedOver, config, issued>>

-----------------------------------------------------------------------------
\* (The mutant lets the admin in when there is no mint authority.)
AdminOrAuthority(k) ==
  Exists(Native) /\ k \in {config[Native].admin, config[Native].mint_authority}
IsValidSigner(k) ==
  /\ Exists(Native)
  /\ config[Native].mint_authority # NoKey
  /\ k \in {config[Native].admin, config[Native].mint_authority}

SetMintAuthority(k, authority) ==
  /\ IsValidSigner(k)
  /\ config' = [config EXCEPT ![Native].mint_authority = authority]
  /\ signers' = {k}
  /\ UNCHANGED <<mint, handedOver, delegate, issued>>

\* ext = Native(Some(minter)).  The token program signs for the configuration.
MintTo(minter) ==
  /\ issued < MaxIssued
  /\ Exists(Native)
  /\ config[Native].mint_authority = minter
  /\ issued' = issued + 1
  /\ signers' = {minter}
  /\ UNCHANGED <<mint, handedOver, config, delegate>>

Init ==
  /\ mint \in MintKinds
  /\ handedOver \in BOOLEAN
  /\ config = [c \in Config |-> NoConfig]
  /\ delegate = [c \in Config |-> NoKey]
  /\ issued = 0
  /\ signers = {}

Next ==
  \/ HandOver
  \/ \E p, a \in Key, s \in SharedDecimals, m \in Key \cup {NoKey} :
       InitONft(p, a, s, m)
  \/ \E p, a \in Key, s \in SharedDecimals, e \in Escrow :
       InitAdapterONft(p, e, a, s)
  \/ \E c \in Config, k, n, a \in Key : TransferAdmin(c, k, n, a)
  \/ \E c \in Config, k \in Key, p \in PeerAddress : SetPeer(c, k, p)
  \/ \E c \in Config, k \in Key, o \in Options : SetEnforcedOptions(c, k, o)
  \/ \E c \in Config, k \in Key, on \in BOOLEAN : SetRateLimit(c, k, on)
  \/ \E c \in Config, k, d \in Key : SetDelegate(c, k, d)
  \/ \E k \in Key, m \in Key \cup {NoKey} : SetMintAuthority(k, m)
  \/ \E k \in Key : MintTo(k)

Spec == Init /\ [][Next]_vars

-----------------------------------------------------------------------------
ConfigType ==
  [admin : Key, mint_authority : Key \cup {NoKey}, shared : SharedDecimals,
   ld2sd_rate : 1 .. MaxRate, peer : PeerAddress \cup {Unset},
   enforced_options : Options \cup {Unset}, rate_limited : BOOLEAN]

TypeOK ==
  /\ mint \in MintKinds
  /\ handedOver \in BOOLEAN
  /\ config \in [Config -> ConfigType \cup {NoConfig}]
  /\ delegate \in [Config -> Key \cup {NoKey}]
  /\ issued \in 0 .. MaxIssued
  /\ signers \subseteq Key

(***************************************************************************)
(* The shared decimals say the same everywhere: a unit abroad is worth     *)
(* ten to the shared decimals of its parts at home, so two configurations  *)
(* with the same shared decimals understand each other.  A difference that *)
(* wraps, or a power that overflows (onft.rs:45), would break it.          *)
(***************************************************************************)
RateIsExact ==
  \A c \in Config :
    Exists(c) => config[c].ld2sd_rate * PowerOfTen[config[c].shared]
                   = PowerOfTen[mint.decimals]

(***************************************************************************)
(* What onft.rs:7 calls immutable is, and an adapter never gets a mint     *)
(* authority: what is initialised is never initialised again, by anybody.  *)
(***************************************************************************)
SettingsStay ==
  \A c \in Config : Exists(c) =>
    /\ config'[c].ld2sd_rate = config[c].ld2sd_rate
    /\ config'[c].shared = config[c].shared
    /\ c # Native => config'[c].mint_authority = NoKey

SettledOnce == [][SettingsStay]_vars

(***************************************************************************)
(* set_mint_authority.rs:21 and 34: the mint authority can be removed, and *)
(* then nobody can set it again.  No transfer of the admin and no second   *)
(* initialisation brings it back, and mint_to is over for good.            *)
(***************************************************************************)
RemovedStays ==
  Exists(Native) /\ config[Native].mint_authority = NoKey =>
    config'[Native].mint_authority = NoKey /\ issued' = issued

RemovedForever == [][RemovedStays]_vars

(***************************************************************************)
(* Once a configuration exists, whoever initialised it, nothing about it   *)
(* changes, not even its delegate at the endpoint, without a signature of  *)
(* the admin of that moment, or for the mint authority its own.            *)
(***************************************************************************)
OwnersSigned ==
  \A c \in Config :
    Exists(c) /\ (config'[c] # config[c] \/ delegate'[c] # delegate[c])
      => \/ config[c].admin \in signers'
         \/ /\ config[c].mint_authority \in signers'
            /\ config'[c] = [config[c] EXCEPT !.mint_authority =
                               config'[c].mint_authority]

OnlyItsOwners == [][OwnersSigned]_vars

=============================================================================
