----------------------------- MODULE ZealotOnft -----------------------------
(***************************************************************************)
(* The NFT path between zealot_nft on Solana (send_onft, lz_receive_onft)  *)
(* and EVM contracts.  Each chain runs one application of some kind:       *)
(*                                                                         *)
(*   "native"       zealot_nft, burns and mints                            *)
(*   "adapter"      zealot_nft, locks and unlocks, minting on first use    *)
(*   "lock_adapter" EvmOnftLockAdapter, locks and unlocks                  *)
(*   "onft_adapter" MyONFT721Adapter, locks and unlocks    (external base) *)
(*   "onft"         MyONFT721, burns and mints             (external base) *)
(*                                                                         *)
(* On Solana a token is a mint of its own, found by its id, with a u64 for *)
(* an id; on an EVM chain the id is a u256.  A message is the length of    *)
(* its bytes and the fields in them.  External: the endpoints, which       *)
(* verify each message once and let an application clear it once.          *)
(*                                                                         *)
(* The program's fungible instructions, send and lz_receive, use the same  *)
(* configuration and the same peers, and no message says which kind it is. *)
(* A token that such a confusion touches, or the truncation of its id, is  *)
(* recorded in `mixed'; the properties are about the others.               *)
(***************************************************************************)
EXTENDS Integers

CONSTANTS
  Chain,
  Deployment,     \* set of [Chain -> kinds above]: what may run where
  Home,           \* the chain of the collection
  Token,          \* ids of the collection
  U64Ids,         \* how many ids a u64 holds
  User,           \* accounts, the same on every chain
  App,            \* the application as a holder: its escrow
  MaxSends        \* bound: messages sent

SolanaKinds == {"native", "adapter"}
LockKinds == {"adapter", "lock_adapter", "onft_adapter"}
Kinds == SolanaKinds \cup LockKinds \cup {"onft"}

\* The collection is at home, where an adapter wraps it, and nowhere else.
\* The lock adapter is there for the Solana program alone.  What an id is cut
\* down to is an id too.
ASSUME OnftAssumption ==
  /\ Home \in Chain
  /\ Deployment \subseteq [Chain -> Kinds]
  /\ \A k \in Deployment, c \in Chain :
       /\ k[c] \in {"lock_adapter", "onft_adapter"} <=> c = Home
       /\ k[Home] = "lock_adapter" /\ c # Home => k[c] \in SolanaKinds
  /\ Token \subseteq Nat
  /\ U64Ids \in Nat \ {0}
  /\ \A t \in Token : t % U64Ids \in Token
  /\ App \notin User
  /\ MaxSends \in Nat

Holder == User \cup {App}

VARIABLES
  kind,    \* the deployment, which stays
  balance, \* [Chain -> [Token -> [Holder -> Nat]]]
  peer,    \* [Chain -> [Chain -> "none", "right", "wrong"]]
  msgs,    \* messages sent and not cleared
  sends,   \* messages sent so far
  lost,    \* history: tokens whose message was spent by lz_receive
  mixed    \* history: tokens that came out of a message that was not theirs,
           \* or whose message came out as another's

vars == <<kind, balance, peer, msgs, sends, lost, mixed>>

ABI_END_OFFSET == 64
PACKED_END_OFFSET == 40
COMPOSED_OFFSET == 72

\* nft: the message is about the token `id'; otherwise `id' is what a reader
\* of tokens finds in it.  reached: it is addressed to the application of its
\* chain.
Message ==
  [nonce : 1 .. MaxSends, src : Chain, dst : Chain, reached : BOOLEAN, nft : BOOLEAN,
   to : User, length : {ABI_END_OFFSET, PACKED_END_OFFSET, COMPOSED_OFFSET}, id : Token]

Solana(c) == kind[c] \in SolanaKinds
Locks(c) == kind[c] \in LockKinds

-----------------------------------------------------------------------------
\* Ids that can leave: token_id is a u64 parameter of send_onft and is
\* required to fit one by sendLock; the LayerZero base does not ask.
Sendable(c, t) == Solana(c) \/ kind[c] = "lock_adapter" => t < U64Ids

\* sendLock packs the id in 8 bytes; encode_abi and the LayerZero base pad it
\* to 32.  (The mutant packs everywhere.)
PackedLength(c) == PACKED_END_OFFSET
EncodedLength(c) ==
  IF kind[c] = "lock_adapter" THEN PACKED_END_OFFSET ELSE ABI_END_OFFSET
EncodedId(c, id) == IF kind[c] = "lock_adapter" THEN id % U64Ids ELSE id

\* token_id_any_u64 takes the last 8 of 32 bytes or the 8 there are.  The
\* lock adapter loads a word of 32 bytes and keeps its last 8, which lie
\* behind the message in the zero padding.
DecodedId(c, m) ==
  IF Solana(c) THEN m.id % U64Ids
  ELSE IF kind[c] = "lock_adapter" THEN 0 ELSE m.id

\* The lock adapter insists on 40 bytes, the LayerZero base reads 64, the
\* Solana program falls back from 64 to 40.
Readable(c, m) ==
  /\ kind[c] = "lock_adapter" => m.length = PACKED_END_OFFSET
  /\ kind[c] \in {"onft_adapter", "onft"} => m.length >= ABI_END_OFFSET

\* The tokens that are no longer what they were when m is received: the one
\* that appears unsent, and the one that was sent.
Confused(m) ==
  IF m.nft /\ DecodedId(m.dst, m) = m.id THEN {}
  ELSE {DecodedId(m.dst, m)} \cup (IF m.nft THEN {m.id} ELSE {})

-----------------------------------------------------------------------------
Minted(c, t) == {h \in Holder : balance[c][t][h] > 0}

Init ==
  /\ kind \in Deployment
  /\ balance \in {[c \in Chain |-> [t \in Token |-> [h \in Holder |->
                     IF c = Home /\ h = o THEN 1 ELSE 0]]] : o \in User}
  /\ peer = [c \in Chain |-> [d \in Chain |-> "none"]]
  /\ msgs = {}
  /\ sends = 0
  /\ lost = {}
  /\ mixed = {}

\* lock, or burn.  (The mutant burns nothing.)
Unburnt(c, t, u) ==
  [balance EXCEPT ![c][t][u] = @ - IF Locks(c) THEN 1 ELSE 0,
                  ![c][t][App] = @ + IF Locks(c) THEN 1 ELSE 0]
Debit(c, t, u) ==
  [balance EXCEPT ![c][t][u] = @ - 1, ![c][t][App] = @ + IF Locks(c) THEN 1 ELSE 0]

\* The peer's address is taken as it is set.
File(c, d, r, nft, length, id) ==
  /\ sends < MaxSends
  /\ c # d /\ peer[c][d] # "none"
  /\ sends' = sends + 1
  /\ msgs' = msgs \cup {[nonce |-> sends + 1, src |-> c, dst |-> d,
                         reached |-> peer[c][d] = "right", nft |-> nft, to |-> r,
                         length |-> length, id |-> id]}

\* send_onft, sendLock, send of the LayerZero base.
Send(c, d, u, r, t) ==
  /\ Sendable(c, t)
  /\ balance[c][t][u] >= 1
  /\ balance' = Debit(c, t, u)
  /\ File(c, d, r, TRUE, EncodedLength(c), EncodedId(c, t))
  /\ UNCHANGED <<kind, peer, lost, mixed>>

\* send of the Solana program.  The amount stands where a packed id does; if a
\* composed message follows, the word of an id is made of it and the sender.
FungibleSend(c, d, r, length, n) ==
  /\ Solana(c)
  /\ length = PACKED_END_OFFSET => n < U64Ids
  /\ File(c, d, r, FALSE, length, n)
  /\ UNCHANGED <<kind, balance, peer, lost, mixed>>

-----------------------------------------------------------------------------
\* A contract that locks pays from its escrow, one that mints mints what does
\* not exist.  A native program first creates metadata: the inner call lacks
\* the metadata account, and a failed inner call aborts the transaction, so
\* that the mint behind it is never reached.
Creditable(c, t) ==
  /\ t \in Token
  /\ kind[c] \in {"lock_adapter", "onft_adapter"} => balance[c][t][App] = 1
  /\ kind[c] = "onft" => Minted(c, t) = {}
  /\ kind[c] # "native"

\* lz_receive_onft of an adapter: an empty escrow is filled by a mint first.
\* (The mutant mints in any case.)
AlwaysMint(c, t) == 1
FirstMint(c, t) == IF balance[c][t][App] = 0 THEN 1 ELSE 0

Credited(c, t, u) ==
  CASE kind[c] \in {"native", "onft"} -> [balance EXCEPT ![c][t][u] = @ + 1]
    [] kind[c] = "adapter" ->
         [balance EXCEPT ![c][t][App] = @ + FirstMint(c, t) - 1, ![c][t][u] = @ + 1]
    [] kind[c] \in {"lock_adapter", "onft_adapter"} ->
         [balance EXCEPT ![c][t][App] = @ - 1, ![c][t][u] = @ + 1]

FromPeer(m) == m.reached /\ peer[m.dst][m.src] = "right"

\* The endpoint forgets the message.  (The mutant does not clear it.)
Keep(m) == UNCHANGED msgs
Clear(m) == msgs' = msgs \ {m}

\* lz_receive_onft, _lzReceive.
Receive(m) ==
  /\ FromPeer(m)
  /\ Readable(m.dst, m)
  /\ Creditable(m.dst, DecodedId(m.dst, m))
  /\ balance' = Credited(m.dst, DecodedId(m.dst, m), m.to)
  /\ mixed' = mixed \cup Confused(m)
  /\ Clear(m)
  /\ UNCHANGED <<kind, peer, sends, lost>>

\* lz_receive on any message: it asks for the same peer, clears the message
\* and credits fungible tokens, as it should or instead of an NFT.
LzReceiveAsToken(m) ==
  /\ FromPeer(m)
  /\ Solana(m.dst)
  /\ Clear(m)
  /\ lost' = lost \cup (IF m.nft THEN {m.id} ELSE {})
  /\ UNCHANGED <<kind, balance, peer, sends, mixed>>

-----------------------------------------------------------------------------
Transfer(c, t, u, v) ==
  /\ u # v /\ balance[c][t][u] >= 1
  /\ balance' = [balance EXCEPT ![c][t][u] = @ - 1, ![c][t][v] = @ + 1]
  /\ UNCHANGED <<kind, peer, msgs, sends, lost, mixed>>

\* set_peer and setPeer, with the right address or another.
SetPeer(c, d, address) ==
  /\ c # d
  /\ peer' = [peer EXCEPT ![c][d] = address]
  /\ UNCHANGED <<kind, balance, msgs, sends, lost, mixed>>

Next ==
  \/ \E c, d \in Chain, u, r \in User, t \in Token : Send(c, d, u, r, t)
  \/ \E c, d \in Chain, r \in User, l \in {PACKED_END_OFFSET, COMPOSED_OFFSET}, n \in Token :
       FungibleSend(c, d, r, l, n)
  \/ \E m \in msgs : Receive(m)
  \/ \E m \in msgs : LzReceiveAsToken(m)
  \/ \E c \in Chain, t \in Token, u, v \in User : Transfer(c, t, u, v)
  \/ \E c, d \in Chain, a \in {"right", "wrong"} : SetPeer(c, d, a)

Spec == Init /\ [][Next]_vars

-----------------------------------------------------------------------------
TypeOK ==
  /\ kind \in Deployment
  /\ balance \in [Chain -> [Token -> [Holder -> Nat]]]
  /\ peer \in [Chain -> [Chain -> {"none", "right", "wrong"}]]
  /\ msgs \subseteq Message
  /\ sends \in 0 .. MaxSends
  /\ lost \subseteq Token
  /\ mixed \subseteq Token

(***************************************************************************)
(* A token is in one place: with one user of one chain, in one message, or *)
(* lost to the wrong instruction.  No contract sees more than its chain,   *)
(* and on Solana nothing but the exchange of messages keeps a program that *)
(* mints whatever it is told from minting a second time.  Only a token     *)
(* that has been confused with another or with an amount may have copies.  *)
(***************************************************************************)
Carrying(t) == {m \in msgs : m.nft /\ m.id = t}

Places(t) ==
  {<<"held", x[1], x[2]>> : x \in {y \in Chain \X User : balance[y[1]][t][y[2]] > 0}}
    \cup {<<"carried", m.nonce, m.src>> : m \in Carrying(t)}
    \cup (IF t \in lost THEN {<<"lost", t, Home>>} ELSE {})

OnePlace ==
  \A t \in Token \ mixed :
    /\ \E x \in Places(t) : Places(t) = {x}
    /\ \A c \in Chain, u \in User : balance[c][t][u] <= 1

(***************************************************************************)
(* On each chain the supply of a token stays at most one, whatever was     *)
(* minted on first use, locked and unlocked (lz_receive_onft.rs:148).      *)
(***************************************************************************)
NoSecondMint ==
  \A c \in Chain, t \in Token \ mixed : \A g, h \in Minted(c, t) :
    g = h /\ balance[c][t][h] = 1

(***************************************************************************)
(* What was sent as a token can be received as that token, in whatever     *)
(* order messages are received, if its address was right and its id fits   *)
(* where it arrives: it is readable, and escrow or supply allow the        *)
(* credit.  Not so for two kinds: a native program never gets past its     *)
(* metadata, and EvmOnftLockAdapter, whose comment at line 13 promises a   *)
(* payload compatible with the Solana program, can read nothing of what    *)
(* comes from there, so that a token that leaves it cannot return.         *)
(***************************************************************************)
Deliverable ==
  \A m \in msgs :
    m.reached /\ m.nft =>
      IF kind[m.dst] = "lock_adapter" THEN ~ Readable(m.dst, m)
      ELSE /\ Readable(m.dst, m)
           /\ DecodedId(m.dst, m) = m.id /\ m.id \notin mixed /\ kind[m.dst] # "native"
                => Creditable(m.dst, m.id)

-----------------------------------------------------------------------------
(***************************************************************************)
(* The NFT path keeps the promise of the older bridge (OmniToken): a token *)
(* goes from holder to holder and from chain to chain, arrives only where  *)
(* it was sent, and drops out only through a wrong address or the wrong    *)
(* instruction.  The promise about a token ends when it is confused.       *)
(***************************************************************************)
Place(t) ==
  IF \E c \in Chain, u \in User : balance[c][t][u] > 0
  THEN LET at == CHOOSE x \in Chain \X User : balance[x[1]][t][x[2]] > 0
       IN  [status |-> "held", chain |-> at[1], who |-> at[2]]
  ELSE IF \E m \in Carrying(t) : m.reached
  THEN LET m == CHOOSE x \in Carrying(t) : TRUE
       IN  [status |-> "transit", chain |-> m.dst, who |-> m.to]
  ELSE [status |-> "gone", chain |-> Home, who |-> App]

Omni == INSTANCE OmniToken
          WITH NoOne <- App, place <- [t \in Token \ mixed |-> Place(t)]

OneOmniToken == Omni!Spec

=============================================================================
