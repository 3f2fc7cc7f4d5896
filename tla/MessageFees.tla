---------------------------- MODULE MessageFees -----------------------------
(***************************************************************************)
(* The messaging fee of zealot_nft: quote and quote_onft tell a sender     *)
(* what the endpoint will ask, send and send_onft pay it in a later        *)
(* transaction.  The fee depends on the length of the message and on the   *)
(* options, which join what the admin enforces to what the sender adds.    *)
(*                                                                         *)
(* Options of type 3 are sequences of gas amounts, messages are their      *)
(* lengths.  External: the endpoint's price, oapp's combine_options and    *)
(* assert_type_3.                                                          *)
(***************************************************************************)
EXTENDS Integers, Sequences, Functions

CONSTANTS
  Enforced,   \* type 3 options an admin enforces
  Extra,      \* type 3 options a sender adds
  NoOptions,  \* no bytes at all
  Legacy,     \* options of type 1 or 2
  ComposeLengths, \* lengths of composed messages
  NoCompose,
  NotSet,     \* the enforced_options account does not exist
  Price,      \* the endpoint's prices of a unit of length or gas
  None        \* nothing quoted, nothing sent

ASSUME FeesAssumption ==
  /\ Enforced \subseteq Seq(Nat) /\ Extra \subseteq Seq(Nat)
  /\ NoOptions \notin Extra /\ Legacy \notin Extra
  /\ ComposeLengths \subseteq Nat /\ NoCompose \notin Nat
  /\ Price \subseteq Nat

VARIABLES
  enforced, \* enforced_options [send, send_and_call] of the destination
  price,    \* external
  quote,    \* the last answer [request, fee] under these options and prices
  sent      \* the last message the endpoint took [request, length, options]

feesVars == <<enforced, price, quote, sent>>

Oft == [kind : {"send"}, compose : ComposeLengths \cup {NoCompose},
        extra : Extra \cup {NoOptions, Legacy}]
Onft == [kind : {"send_onft"}]
Request == Oft \cup Onft

-----------------------------------------------------------------------------
MAX_MSG_SIZE == 700
COMPOSE_MSG_OFFSET == 40
ABI_END_OFFSET == 64
PACKED_END_OFFSET == 40

\* msg_codec::encode: receiver and amount, for a composed message also sender
\* and a payload of limited length.
Encodable(compose) == compose # NoCompose => compose <= MAX_MSG_SIZE

Encoded(compose) == IF compose = NoCompose THEN 40 ELSE 72 + compose

\* msg_codec::compose_msg: what the receiver takes for a composed message.
ReadAsComposed(length) == length > COMPOSE_MSG_OFFSET

\* onft_msg_codec::encode_abi.
EncodedAbi == ABI_END_OFFSET

-----------------------------------------------------------------------------
GetEnforcedOptions(compose) ==
  IF compose = NoCompose THEN enforced.send ELSE enforced.send_and_call

\* Enforced options are never empty, so legacy options are always refused.
Combinable(extra) == extra # Legacy

\* (The mutant lets the sender's options replace the enforced ones.)
ReplaceOptions(compose, extra) ==
  IF extra = NoOptions THEN GetEnforcedOptions(compose) ELSE extra
CombineOptions(compose, extra) ==
  IF extra = NoOptions THEN GetEnforcedOptions(compose)
  ELSE GetEnforcedOptions(compose) \o extra

Gas(options) == SumFunction(options)

\* External: what the endpoint asks for a message.
EndpointFee(length, options) == price * (length + Gas(options))

-----------------------------------------------------------------------------
Takable(r) ==
  /\ enforced # NotSet
  /\ r.kind = "send" => Encodable(r.compose) /\ Combinable(r.extra)

\* The message that quote and quote_onft ask the endpoint about: amount and
\* sender are dummies of the right width.
\* (The mutant quotes the NFT message in its packed form.)
QuotedPacked(r) ==
  CASE r.kind = "send" ->
         EndpointFee(Encoded(r.compose), CombineOptions(r.compose, r.extra))
    [] r.kind = "send_onft" ->
         EndpointFee(PACKED_END_OFFSET, GetEnforcedOptions(NoCompose))
QuotedFee(r) ==
  CASE r.kind = "send" ->
         EndpointFee(Encoded(r.compose), CombineOptions(r.compose, r.extra))
    [] r.kind = "send_onft" ->
         EndpointFee(EncodedAbi, GetEnforcedOptions(NoCompose))

\* The message that send and send_onft give to the endpoint.
Outgoing(r) ==
  CASE r.kind = "send" ->
         [request |-> r, length |-> Encoded(r.compose),
          options |-> CombineOptions(r.compose, r.extra)]
    [] r.kind = "send_onft" ->
         [request |-> r, length |-> EncodedAbi,
          options |-> GetEnforcedOptions(NoCompose)]

FeesInit ==
  /\ enforced = NotSet
  /\ price \in Price
  /\ quote = None
  /\ sent = None

EnforceOptions(s, c) ==
  /\ enforced' = [send |-> s, send_and_call |-> c]
  /\ quote' = None
  /\ UNCHANGED <<price, sent>>

NewPrice(p) ==
  /\ price' = p
  /\ quote' = None
  /\ UNCHANGED <<enforced, sent>>

Quote(r) ==
  /\ Takable(r)
  /\ quote' = [request |-> r, fee |-> QuotedFee(r)]
  /\ UNCHANGED <<enforced, price, sent>>

\* The endpoint refuses a message that offers less than its fee.
Covers(r, native_fee) ==
  native_fee >= EndpointFee(Outgoing(r).length, Outgoing(r).options)

SendPaid(r, native_fee) ==
  /\ Takable(r)
  /\ Covers(r, native_fee)
  /\ sent' = Outgoing(r)
  /\ UNCHANGED <<enforced, price, quote>>

FeesNext ==
  \/ \E s, c \in Enforced : EnforceOptions(s, c)
  \/ \E p \in Price : NewPrice(p)
  \/ \E r \in Request : Quote(r)
  \/ quote # None /\ SendPaid(quote.request, quote.fee)

FeesSpec == FeesInit /\ [][FeesNext]_feesVars

-----------------------------------------------------------------------------
FeesTypeOK ==
  /\ enforced \in [send : Enforced, send_and_call : Enforced] \cup {NotSet}
  /\ price \in Price
  /\ quote # None => quote.request \in Request /\ quote.fee \in Nat
  /\ sent # None =>
       sent.request \in Request /\ sent.length \in 40 .. 72 + MAX_MSG_SIZE

(***************************************************************************)
(* A quote is worth something: while options and prices stay, a send that  *)
(* pays what was quoted is taken, for each kind of message, although the   *)
(* quote was made with another amount, another sender and by other code    *)
(* (quote.rs:60 and send.rs:129, quote_onft.rs:42 and send_onft.rs:116).   *)
(***************************************************************************)
QuoteSuffices == quote # None => Covers(quote.request, quote.fee)

(***************************************************************************)
(* No sender gets a message out with less gas than the admin enforced at   *)
(* that moment for its kind, and the kind is the one the receiver will     *)
(* read (msg_codec.rs:45): a message that asks for a compose call carries  *)
(* the gas for it.                                                         *)
(***************************************************************************)
EnforcedOptionsHold ==
  [][\A r \in Oft :
       sent' # sent /\ sent'.request = r
         => Gas(sent'.options) >=
              IF ReadAsComposed(sent'.length) THEN Gas(enforced.send_and_call)
              ELSE Gas(enforced.send)]_feesVars

=============================================================================
