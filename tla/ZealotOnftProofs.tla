-------------------------- MODULE ZealotOnftProofs --------------------------
(***************************************************************************)
(* The NFT path for every deployment of the five kinds of contracts, any   *)
(* number of chains, users, tokens and messages.                           *)
(*                                                                         *)
(* No contract knows more than its own balances, so that a token is in one *)
(* place has no proof contract by contract.  The invariant states for each *)
(* token that was never confused which of three places it is in (HeldOnly, *)
(* CarriedOnly, LostOnly), and for each chain what its escrow may hold;    *)
(* every step moves one token from one place to another and leaves all     *)
(* others Untouched, or it confuses tokens, and the invariant lets go of   *)
(* them.  A token that is received under its own id is received by a       *)
(* contract that can read it: that is where the encodings come in.         *)
(***************************************************************************)
EXTENDS ZealotOnft, TLAPS

Balances == [Chain -> [Token -> [Holder -> Nat]]]

\* new is balance with other amounts for u and v, of token t on chain c.
Rewritten(new, c, t, u, x, v, y) ==
  /\ new \in Balances
  /\ new[c][t][u] = x
  /\ new[c][t][v] = y
  /\ \A h \in Holder \ {u, v} : new[c][t][h] = balance[c][t][h]
  /\ \A d \in Chain, s \in Token : d # c \/ s # t => new[d][s] = balance[d][s]

LEMMA TwoEntries ==
  ASSUME balance \in Balances, NEW c \in Chain, NEW t \in Token,
         NEW u \in Holder, NEW v \in Holder, u # v, NEW x \in Nat, NEW y \in Nat,
         NEW new, new = [balance EXCEPT ![c][t][u] = x, ![c][t][v] = y]
  PROVE  Rewritten(new, c, t, u, x, v, y)
BY DEF Balances, Rewritten

LEMMA DebitEffect ==
  ASSUME balance \in Balances, NEW c \in Chain, NEW t \in Token, NEW u \in User,
         balance[c][t][u] >= 1
  PROVE  Rewritten(Debit(c, t, u), c, t, u, balance[c][t][u] - 1,
                   App, balance[c][t][App] + IF Locks(c) THEN 1 ELSE 0)
<1> DEFINE p == IF Locks(c) THEN 1 ELSE 0
<1>1. App # u /\ App \in Holder /\ u \in Holder /\ p \in Nat
  BY OnftAssumption DEF Holder
<1>2. Debit(c, t, u) =
        [balance EXCEPT ![c][t][u] = balance[c][t][u] - 1, ![c][t][App] = balance[c][t][App] + p]
  BY <1>1 DEF Debit, Balances
<1> HIDE DEF p
<1>3. balance[c][t][u] \in Nat /\ balance[c][t][App] \in Nat
  BY <1>1 DEF Balances
<1>4. balance[c][t][u] - 1 \in Nat /\ balance[c][t][App] + p \in Nat
  BY <1>1, <1>3
<1>5. Rewritten(Debit(c, t, u), c, t, u, balance[c][t][u] - 1, App, balance[c][t][App] + p)
  BY <1>1, <1>2, <1>4, TwoEntries
<1> QED
  BY <1>5 DEF p

LEMMA TransferEffect ==
  ASSUME balance \in Balances, NEW c \in Chain, NEW t \in Token,
         NEW u \in User, NEW v \in User, Transfer(c, t, u, v)
  PROVE  Rewritten(balance', c, t, u, balance[c][t][u] - 1, v, balance[c][t][v] + 1)
<1>1. u # v /\ u \in Holder /\ v \in Holder /\ balance[c][t][u] >= 1
  BY DEF Holder, Transfer
<1>2. balance' = [balance EXCEPT ![c][t][u] = balance[c][t][u] - 1,
                                 ![c][t][v] = balance[c][t][v] + 1]
  BY <1>1 DEF Transfer, Balances
<1>3. balance[c][t][u] \in Nat /\ balance[c][t][v] \in Nat
  BY <1>1 DEF Balances
<1>4. balance[c][t][u] - 1 \in Nat /\ balance[c][t][v] + 1 \in Nat
  BY <1>1, <1>3
<1> QED
  BY <1>1, <1>2, <1>4, TwoEntries

\* What a credit leaves in escrow.
Left(c, t) ==
  IF kind[c] \in {"native", "onft"} THEN balance[c][t][App]
  ELSE IF kind[c] = "adapter" THEN balance[c][t][App] + FirstMint(c, t) - 1
  ELSE balance[c][t][App] - 1

LEMMA CreditEffect ==
  ASSUME balance \in Balances, kind \in Deployment,
         NEW c \in Chain, NEW t \in Token, NEW u \in User, Creditable(c, t)
  PROVE  Rewritten(Credited(c, t, u), c, t, App, Left(c, t), u, balance[c][t][u] + 1)
<1>1. App # u /\ App \in Holder /\ u \in Holder /\ kind[c] \in Kinds
  BY OnftAssumption DEF Holder
<1>2. balance[c][t][u] \in Nat /\ balance[c][t][App] \in Nat
  BY <1>1 DEF Balances
<1>3. Left(c, t) \in Nat
  BY <1>1, <1>2 DEF Left, FirstMint, Creditable, Kinds, SolanaKinds, LockKinds
<1>4. Credited(c, t, u) =
        [balance EXCEPT ![c][t][App] = Left(c, t), ![c][t][u] = balance[c][t][u] + 1]
  <2>1. CASE kind[c] \in {"native", "onft"}
    BY <1>1, <2>1 DEF Credited, Left, Balances
  <2>2. CASE kind[c] = "adapter"
    BY <1>1, <2>2 DEF Credited, Left, Balances
  <2>3. CASE kind[c] \in {"lock_adapter", "onft_adapter"}
    BY <1>1, <2>3 DEF Credited, Left, Balances
  <2> QED
    BY <1>1, <2>1, <2>2, <2>3 DEF Kinds, SolanaKinds, LockKinds
<1>5. balance[c][t][u] + 1 \in Nat
  BY <1>2
<1> QED
  BY <1>1, <1>3, <1>4, <1>5, TwoEntries

-----------------------------------------------------------------------------
Carries(m, t) == m.nft /\ m.id = t

\* Where a token is, of the three places there are for it.
HeldOnly(t, c, u) ==
  /\ \A d \in Chain, v \in User : balance[d][t][v] = IF d = c /\ v = u THEN 1 ELSE 0
  /\ \A m \in msgs : ~ Carries(m, t)
  /\ t \notin lost

CarriedOnly(t, m) ==
  /\ \A d \in Chain, v \in User : balance[d][t][v] = 0
  /\ \A n \in msgs : Carries(n, t) <=> n = m
  /\ t \notin lost

LostOnly(t) ==
  /\ \A d \in Chain, v \in User : balance[d][t][v] = 0
  /\ \A m \in msgs : ~ Carries(m, t)
  /\ t \in lost

SomeWhere(t) ==
  \/ \E c \in Chain, u \in User : HeldOnly(t, c, u)
  \/ \E m \in msgs : CarriedOnly(t, m)
  \/ LostOnly(t)

\* A program that mints and burns has no escrow.  One that locks has the token
\* or nothing, and nothing when somebody has the token on its chain; at home,
\* where nothing is minted, only then.
EscrowOf(t, c) ==
  /\ balance[c][t][App] \in {0, 1}
  /\ kind[c] \in {"native", "onft"} => balance[c][t][App] = 0
  /\ (\E u \in User : balance[c][t][u] = 1) => balance[c][t][App] = 0
  /\ c = Home /\ balance[c][t][App] = 0 => \E u \in User : balance[c][t][u] = 1

\* A message leaves one chain for another, and a token's is encoded as its
\* chain does it.
MessageOK(m) ==
  /\ m.src # m.dst
  /\ m.nft => m.length = EncodedLength(m.src)

IInv ==
  /\ TypeOK
  /\ \A m \in msgs : MessageOK(m)
  /\ \A t \in Token \ mixed : SomeWhere(t)
  /\ \A t \in Token \ mixed, c \in Chain : EscrowOf(t, c)

\* The lock adapter is at home, and what it packs is read on Solana.
LEMMA KindsHere ==
  ASSUME kind \in Deployment
  PROVE  /\ \A c \in Chain : kind[c] \in Kinds
         /\ \A c \in Chain : kind[c] \in {"lock_adapter", "onft_adapter"} <=> c = Home
         /\ \A c \in Chain : kind[Home] = "lock_adapter" /\ c # Home => Solana(c)
BY OnftAssumption DEF Solana

\* What was sent as a token is readable, except to the lock adapter.
LEMMA TokensReadable ==
  ASSUME TypeOK, NEW m \in msgs, MessageOK(m), m.nft
  PROVE  Readable(m.dst, m) <=> kind[m.dst] # "lock_adapter"
<1>1. m.src \in Chain /\ m.dst \in Chain /\ m.length = EncodedLength(m.src) /\ m.src # m.dst
  BY DEF TypeOK, Message, MessageOK
<1>2. /\ kind[m.src] = "lock_adapter" => Solana(m.dst)
      /\ kind[m.dst] = "lock_adapter" => kind[m.src] # "lock_adapter"
  BY <1>1, KindsHere DEF TypeOK
<1> QED
  BY <1>1, <1>2 DEF Readable, EncodedLength, Solana, SolanaKinds,
    ABI_END_OFFSET, PACKED_END_OFFSET

LEMMA InitIInv == Init => IInv
<1> SUFFICES ASSUME Init PROVE IInv
  OBVIOUS
<1>1. PICK o \in User :
        balance = [c \in Chain |-> [t \in Token |-> [h \in Holder |->
                     IF c = Home /\ h = o THEN 1 ELSE 0]]]
  BY DEF Init
<1>2. TypeOK
  BY <1>1, OnftAssumption DEF Init, TypeOK, Holder
<1>3. \A t \in Token : HeldOnly(t, Home, o)
  BY <1>1, OnftAssumption DEF Init, HeldOnly, Holder
<1>4. \A t \in Token, c \in Chain : EscrowOf(t, c)
  BY <1>1, OnftAssumption DEF EscrowOf, Holder
<1> QED
  BY <1>2, <1>3, <1>4, OnftAssumption DEF Init, IInv, SomeWhere

\* What a token's place depends on.
Untouched(t) ==
  /\ \A c \in Chain : balance'[c][t] = balance[c][t]
  /\ \A m : Carries(m, t) => (m \in msgs' <=> m \in msgs)
  /\ t \in lost' <=> t \in lost

LEMMA UntouchedStays ==
  ASSUME NEW t \in Token, Untouched(t)
  PROVE  /\ \A c \in Chain, u \in User : HeldOnly(t, c, u) => HeldOnly(t, c, u)'
         /\ \A m \in msgs : CarriedOnly(t, m) => m \in msgs' /\ CarriedOnly(t, m)'
         /\ LostOnly(t) => LostOnly(t)'
<1>1. \A m \in msgs : CarriedOnly(t, m) => Carries(m, t)
  BY DEF CarriedOnly
<1>2. \A m : Carries(m, t) => (m \in msgs' <=> m \in msgs)
  BY DEF Untouched
<1>3. \A c \in Chain, u \in User : HeldOnly(t, c, u) => HeldOnly(t, c, u)'
  BY <1>2 DEF HeldOnly, Untouched
<1>4. \A m \in msgs : CarriedOnly(t, m) => m \in msgs' /\ CarriedOnly(t, m)'
  BY <1>1, <1>2 DEF CarriedOnly, Untouched
<1>5. LostOnly(t) => LostOnly(t)'
  BY <1>2 DEF LostOnly, Untouched
<1> QED
  BY <1>3, <1>4, <1>5

LEMMA EscrowStays ==
  ASSUME NEW t \in Token, NEW c \in Chain, EscrowOf(t, c), UNCHANGED kind,
         balance'[c][t] = balance[c][t]
  PROVE  EscrowOf(t, c)'
BY DEF EscrowOf

-----------------------------------------------------------------------------
\* A user who has a token is where it is.
LEMMA HolderKnown ==
  ASSUME NEW t \in Token, SomeWhere(t), NEW c \in Chain, NEW u \in User,
         balance[c][t][u] > 0
  PROVE  HeldOnly(t, c, u)
BY DEF SomeWhere, HeldOnly, CarriedOnly, LostOnly

LEMMA CarrierKnown ==
  ASSUME NEW t \in Token, SomeWhere(t), NEW m \in msgs, Carries(m, t)
  PROVE  CarriedOnly(t, m)
BY DEF SomeWhere, HeldOnly, CarriedOnly, LostOnly

\* A token in a message or lost is held by nobody, and the home contract's is
\* in escrow.
LEMMA NobodyHolds ==
  ASSUME NEW t \in Token, (\E m \in msgs : CarriedOnly(t, m)) \/ LostOnly(t)
  PROVE  /\ \A c \in Chain, u \in User : balance[c][t][u] = 0
         /\ EscrowOf(t, Home) /\ Home \in Chain => balance[Home][t][App] = 1
BY DEF CarriedOnly, LostOnly, EscrowOf

-----------------------------------------------------------------------------
\* The message that File files.
Filed(c, d, r, nft, length, id) ==
  [nonce |-> sends + 1, src |-> c, dst |-> d,
   reached |-> peer[c][d] = "right", nft |-> nft, to |-> r,
   length |-> length, id |-> id]

\* The message that Send files is about the token it takes.
LEMMA SendFiles ==
  ASSUME TypeOK, NEW c \in Chain, NEW d \in Chain, NEW u \in User, NEW r \in User,
         NEW t \in Token, Send(c, d, u, r, t)
  PROVE  \E x \in Message :
           /\ msgs' = msgs \cup {x} /\ sends' \in 0 .. MaxSends
           /\ x.src = c /\ x.dst = d /\ c # d /\ x.nft /\ x.id = t
           /\ x.length = EncodedLength(c)
<1>1. EncodedId(c, t) = t
  <2>1. CASE kind[c] = "lock_adapter"
    <3>1. t \in Nat /\ t < U64Ids /\ U64Ids \in Nat \ {0}
      BY <2>1, OnftAssumption DEF Send, Sendable
    <3>2. t % U64Ids = t
      BY <3>1
    <3> QED
      BY <2>1, <3>2 DEF EncodedId
  <2>2. CASE kind[c] # "lock_adapter"
    BY <2>2 DEF EncodedId
  <2> QED
    BY <2>1, <2>2
<1>2. EncodedLength(c) \in {ABI_END_OFFSET, PACKED_END_OFFSET, COMPOSED_OFFSET}
  BY DEF EncodedLength
<1>3. File(c, d, r, TRUE, EncodedLength(c), t)
  BY <1>1 DEF Send
<1>4. /\ c # d /\ sends' \in 0 .. MaxSends
      /\ Filed(c, d, r, TRUE, EncodedLength(c), t) \in Message
      /\ msgs' = msgs \cup {Filed(c, d, r, TRUE, EncodedLength(c), t)}
  BY <1>2, <1>3, OnftAssumption DEF File, Filed, Message, TypeOK
<1> QED
  BY <1>4 DEF Filed

LEMMA SendTyped ==
  ASSUME TypeOK, NEW c \in Chain, NEW d \in Chain, NEW u \in User, NEW r \in User,
         NEW t \in Token, Send(c, d, u, r, t), \A m \in msgs : MessageOK(m)
  PROVE  TypeOK' /\ \A m \in msgs' : MessageOK(m)'
<1>1. balance \in Balances /\ UNCHANGED <<kind, peer, lost, mixed>>
  BY DEF TypeOK, Balances, Send
<1>2. PICK x \in Message :
        /\ msgs' = msgs \cup {x} /\ sends' \in 0 .. MaxSends
        /\ x.src = c /\ x.dst = d /\ c # d /\ x.length = EncodedLength(c)
  BY SendFiles
<1>3. balance' \in Balances
  BY <1>1, DebitEffect DEF Send, Rewritten
<1> QED
  BY <1>1, <1>2, <1>3 DEF TypeOK, Balances, MessageOK, EncodedLength

LEMMA SendEffect ==
  ASSUME IInv, NEW c \in Chain, NEW d \in Chain, NEW u \in User, NEW r \in User,
         NEW t \in Token, Send(c, d, u, r, t)
  PROVE  /\ t \notin mixed =>
              /\ HeldOnly(t, c, u)
              /\ \E x \in msgs' : x.dst = d /\ c # d /\ CarriedOnly(t, x)'
              /\ \A e \in Chain : EscrowOf(t, e)'
         /\ \A s \in Token \ {t} : Untouched(s)
<1>1. balance \in Balances /\ kind \in Deployment /\ kind' = kind /\ lost' = lost
  BY DEF IInv, TypeOK, Balances, Send
<1>2. Rewritten(balance', c, t, u, balance[c][t][u] - 1,
                App, balance[c][t][App] + IF Locks(c) THEN 1 ELSE 0)
  BY <1>1, DebitEffect DEF Send
<1>3. PICK x \in Message :
        /\ msgs' = msgs \cup {x}
        /\ x.src = c /\ x.dst = d /\ c # d /\ x.nft /\ x.id = t
  BY SendFiles DEF IInv
<1>4. \A s \in Token \ {t} : Untouched(s)
  BY <1>1, <1>2, <1>3 DEF Untouched, Rewritten, Carries
<1> SUFFICES ASSUME t \notin mixed
             PROVE  /\ HeldOnly(t, c, u)
                    /\ CarriedOnly(t, x)'
                    /\ \A e \in Chain : EscrowOf(t, e)'
  BY <1>3, <1>4
<1>5. HeldOnly(t, c, u)
  <2>1. balance[c][t][u] > 0
    BY <1>1 DEF Send, Balances, Holder
  <2> QED
    BY <2>1, HolderKnown DEF IInv
<1>6. \A e \in Chain, v \in User : balance'[e][t][v] = 0
  <2>1. App \notin User /\ \A v \in User : v \in Holder
    BY OnftAssumption DEF Holder
  <2>2. balance[c][t][u] = 1
    BY <1>5 DEF HeldOnly
  <2>3. \A v \in User : balance'[c][t][v] = 0
    BY <1>2, <1>5, <2>1, <2>2 DEF HeldOnly, Rewritten
  <2>4. \A e \in Chain, v \in User : e # c => balance'[e][t][v] = 0
    BY <1>2, <1>5 DEF HeldOnly, Rewritten
  <2> QED
    BY <2>3, <2>4
<1>7. CarriedOnly(t, x)'
  <2>1. \A n \in msgs' : Carries(n, t) <=> n = x
    BY <1>3, <1>5 DEF HeldOnly, Carries
  <2>2. t \notin lost'
    BY <1>1, <1>5 DEF HeldOnly
  <2> QED
    BY <1>6, <2>1, <2>2 DEF CarriedOnly, Carries
<1>8. ASSUME NEW e \in Chain PROVE EscrowOf(t, e)'
  <2>1. EscrowOf(t, e)
    BY DEF IInv
  <2>2. CASE e = c
    <3>1. balance[c][t][u] = 1
      BY <1>5 DEF HeldOnly
    <3>2. balance[c][t][App] = 0
      BY <2>1, <2>2, <3>1 DEF EscrowOf
    <3>3. balance'[c][t][App] = IF Locks(c) THEN 1 ELSE 0
      BY <1>2, <3>2 DEF Rewritten
    <3>4. c = Home => Locks(c)
      BY <1>1, KindsHere DEF Locks, LockKinds
    <3>5. kind[c] \in {"native", "onft"} => ~ Locks(c)
      BY DEF Locks, LockKinds
    <3> QED
      BY <1>1, <1>6, <2>2, <3>3, <3>4, <3>5 DEF EscrowOf
  <2>3. CASE e # c
    <3>1. balance'[e][t] = balance[e][t]
      BY <1>2, <2>3 DEF Rewritten
    <3> QED
      BY <1>1, <2>1, <3>1, EscrowStays
  <2> QED
    BY <2>2, <2>3
<1> QED
  BY <1>5, <1>7, <1>8

\* A fungible message carries no token.
LEMMA FungibleSendEffect ==
  ASSUME IInv, NEW c \in Chain, NEW d \in Chain, NEW r \in User,
         NEW length \in {PACKED_END_OFFSET, COMPOSED_OFFSET}, NEW n \in Token,
         FungibleSend(c, d, r, length, n)
  PROVE  /\ TypeOK' /\ \A m \in msgs' : MessageOK(m)'
         /\ \A s \in Token : Untouched(s)
<1>1. UNCHANGED <<kind, balance, peer, lost, mixed>>
  BY DEF FungibleSend
<1>2. /\ c # d /\ sends' \in 0 .. MaxSends
      /\ Filed(c, d, r, FALSE, length, n) \in Message
      /\ msgs' = msgs \cup {Filed(c, d, r, FALSE, length, n)}
  BY OnftAssumption DEF FungibleSend, IInv, TypeOK, File, Filed, Message
<1>3. TypeOK'
  BY <1>1, <1>2 DEF IInv, TypeOK
<1>4. \A m \in msgs' : MessageOK(m)'
  BY <1>1, <1>2 DEF IInv, MessageOK, EncodedLength, Filed
<1>5. \A s \in Token : Untouched(s)
  BY <1>1, <1>2 DEF Untouched, Carries, Filed
<1> QED
  BY <1>3, <1>4, <1>5

-----------------------------------------------------------------------------
LEMMA ReceiveTyped ==
  ASSUME TypeOK, NEW m \in msgs, Receive(m)
  PROVE  /\ TypeOK' /\ mixed \subseteq mixed'
         /\ DecodedId(m.dst, m) \in Token /\ m.dst \in Chain /\ m.to \in User
         /\ Rewritten(balance', m.dst, DecodedId(m.dst, m), App,
                      Left(m.dst, DecodedId(m.dst, m)),
                      m.to, balance[m.dst][DecodedId(m.dst, m)][m.to] + 1)
<1>1. balance \in Balances /\ kind \in Deployment
  BY DEF TypeOK, Balances
<1>2. m.dst \in Chain /\ m.to \in User /\ m.id \in Token
  BY DEF TypeOK, Message
<1>3. PICK t \in Token : t = DecodedId(m.dst, m)
  BY DEF Receive, Creditable
<1>4. Rewritten(balance', m.dst, t, App, Left(m.dst, t), m.to, balance[m.dst][t][m.to] + 1)
  BY <1>1, <1>2, <1>3, CreditEffect DEF Receive
<1>5. mixed' \in SUBSET Token /\ mixed \subseteq mixed'
  BY <1>2, <1>3 DEF Receive, Confused, TypeOK
<1>6. msgs' \subseteq msgs /\ UNCHANGED <<kind, peer, sends, lost>>
  BY DEF Receive, Clear
<1>7. TypeOK'
  BY <1>4, <1>5, <1>6 DEF TypeOK, Rewritten, Balances
<1> QED
  BY <1>2, <1>3, <1>4, <1>5, <1>7

\* Of the tokens that a receipt does not confuse, it touches only the one that
\* was sent, and under its own id.
LEMMA ReceivedAsSent ==
  ASSUME TypeOK, NEW m \in msgs, Receive(m), NEW t \in Token \ mixed'
  PROVE  \/ Carries(m, t) /\ DecodedId(m.dst, m) = t
         \/ Untouched(t)
<1>1. t \notin Confused(m)
  BY DEF Receive
<1>2. CASE t = DecodedId(m.dst, m)
  BY <1>1, <1>2 DEF Confused, Carries
<1>3. CASE t # DecodedId(m.dst, m)
  <2>1. ~ Carries(m, t)
    BY <1>1, <1>3 DEF Confused, Carries
  <2>2. \A d \in Chain : balance'[d][t] = balance[d][t]
    BY <1>3, ReceiveTyped DEF Rewritten
  <2>3. msgs' = msgs \ {m} /\ lost' = lost
    BY DEF Receive, Clear
  <2> QED
    BY <2>1, <2>2, <2>3 DEF Untouched, Carries
<1> QED
  BY <1>2, <1>3

LEMMA ReceiveEffect ==
  ASSUME IInv, NEW m \in msgs, Receive(m), NEW t \in Token \ mixed',
         Carries(m, t), DecodedId(m.dst, m) = t
  PROVE  /\ CarriedOnly(t, m) /\ HeldOnly(t, m.dst, m.to)'
         /\ \A e \in Chain : EscrowOf(t, e)'
<1>1. balance \in Balances /\ kind \in Deployment /\ kind' = kind /\ t \notin mixed
  BY DEF IInv, TypeOK, Balances, Receive
<1>2. kind[m.dst] # "lock_adapter"
  BY TokensReadable DEF IInv, Receive, Carries
<1>3. PICK c \in Chain, u \in User : c = m.dst /\ u = m.to
  BY DEF IInv, TypeOK, Message
<1>4. Rewritten(balance', c, t, App, Left(c, t), u, balance[c][t][u] + 1)
  BY <1>3, ReceiveTyped DEF IInv
<1>5. CarriedOnly(t, m)
  BY <1>1, CarrierKnown DEF IInv
<1>6. msgs' = msgs \ {m} /\ lost' = lost
  BY DEF Receive, Clear
<1>7. \A e \in Chain, v \in User : balance'[e][t][v] = IF e = c /\ v = u THEN 1 ELSE 0
  <2>1. App \notin User /\ \A v \in User : v \in Holder
    BY OnftAssumption DEF Holder
  <2>2. \A e \in Chain, v \in User : balance[e][t][v] = 0
    BY <1>5 DEF CarriedOnly
  <2>3. \A v \in User : balance'[c][t][v] = IF v = u THEN 1 ELSE 0
    BY <1>4, <2>1, <2>2 DEF Rewritten
  <2>4. \A e \in Chain, v \in User : e # c => balance'[e][t][v] = 0
    BY <1>4, <2>2 DEF Rewritten
  <2> QED
    BY <2>3, <2>4
<1>8. HeldOnly(t, c, u)'
  BY <1>5, <1>6, <1>7 DEF HeldOnly, CarriedOnly, Carries
<1>9. ASSUME NEW e \in Chain PROVE EscrowOf(t, e)'
  <2>1. EscrowOf(t, e) /\ EscrowOf(t, Home)
    BY <1>1, OnftAssumption DEF IInv
  <2>2. CASE e = c
    <3>1. balance'[c][t][App] = Left(c, t)
      BY <1>4 DEF Rewritten
    <3>2. kind[c] \in Kinds /\ (kind[c] \in {"onft_adapter", "lock_adapter"} <=> c = Home)
      BY <1>1, KindsHere
    <3>3. c = Home => balance[c][t][App] = 1
      BY <1>5, <2>1, NobodyHolds
    <3>4. Left(c, t) = 0
      BY <1>2, <1>3, <2>1, <2>2, <3>2, <3>3
        DEF EscrowOf, Left, FirstMint, Kinds, SolanaKinds, LockKinds
    <3> QED
      BY <1>7, <2>2, <3>1, <3>4 DEF EscrowOf
  <2>3. CASE e # c
    <3>1. balance'[e][t] = balance[e][t]
      BY <1>4, <2>3 DEF Rewritten
    <3> QED
      BY <1>1, <2>1, <3>1, EscrowStays
  <2> QED
    BY <2>2, <2>3
<1> QED
  BY <1>3, <1>5, <1>8, <1>9

LEMMA LzReceiveEffect ==
  ASSUME IInv, NEW m \in msgs, LzReceiveAsToken(m)
  PROVE  /\ TypeOK'
         /\ \A t \in Token \ mixed :
              Untouched(t) \/ (CarriedOnly(t, m) /\ LostOnly(t)')
<1>1. /\ msgs' = msgs \ {m}
      /\ lost' = lost \cup (IF m.nft THEN {m.id} ELSE {})
      /\ UNCHANGED <<kind, balance, peer, sends, mixed>>
  BY DEF LzReceiveAsToken, Clear
<1>2. m.id \in Token /\ m.nft \in BOOLEAN
  BY DEF IInv, TypeOK, Message
<1>3. TypeOK'
  BY <1>1, <1>2 DEF IInv, TypeOK
<1>4. ASSUME NEW t \in Token \ mixed
      PROVE  Untouched(t) \/ (CarriedOnly(t, m) /\ LostOnly(t)')
  <2>1. CASE Carries(m, t)
    <3>1. CarriedOnly(t, m)
      BY <1>4, <2>1, CarrierKnown DEF IInv
    <3>2. t \in lost'
      BY <1>1, <2>1 DEF Carries
    <3> QED
      BY <1>1, <3>1, <3>2 DEF CarriedOnly, LostOnly, Carries
  <2>2. CASE ~ Carries(m, t)
    BY <1>1, <1>2, <2>2 DEF Untouched, Carries
  <2> QED
    BY <2>1, <2>2
<1> QED
  BY <1>3, <1>4

LEMMA TransferTyped ==
  ASSUME TypeOK, NEW c \in Chain, NEW t \in Token, NEW u \in User, NEW v \in User,
         Transfer(c, t, u, v)
  PROVE  TypeOK' /\ \A s \in Token \ {t} : Untouched(s)
<1>1. balance \in Balances /\ UNCHANGED <<kind, peer, msgs, sends, lost, mixed>>
  BY DEF TypeOK, Balances, Transfer
<1>2. Rewritten(balance', c, t, u, balance[c][t][u] - 1, v, balance[c][t][v] + 1)
  BY <1>1, TransferEffect
<1> QED
  BY <1>1, <1>2 DEF TypeOK, Rewritten, Balances, Untouched

LEMMA TransferMoves ==
  ASSUME IInv, NEW c \in Chain, NEW t \in Token \ mixed, NEW u \in User, NEW v \in User,
         Transfer(c, t, u, v)
  PROVE  /\ HeldOnly(t, c, u) /\ HeldOnly(t, c, v)'
         /\ \A e \in Chain : EscrowOf(t, e)'
<1>1. balance \in Balances /\ UNCHANGED <<kind, peer, msgs, sends, lost>>
  BY DEF IInv, TypeOK, Balances, Transfer
<1>2. Rewritten(balance', c, t, u, balance[c][t][u] - 1, v, balance[c][t][v] + 1)
  BY <1>1, TransferEffect
<1>3. HeldOnly(t, c, u)
  <2>1. balance[c][t][u] > 0
    BY <1>1 DEF Transfer, Balances, Holder
  <2> QED
    BY <2>1, HolderKnown DEF IInv
<1>4. u # v /\ App \notin User /\ App \in Holder /\ \A w \in User : w \in Holder
  BY OnftAssumption DEF Transfer, Holder
<1>5. \A e \in Chain, w \in User : balance'[e][t][w] = IF e = c /\ w = v THEN 1 ELSE 0
  <2>1. balance[c][t][u] = 1 /\ balance[c][t][v] = 0
    BY <1>3, <1>4 DEF HeldOnly
  <2>2. \A w \in User : balance'[c][t][w] = IF w = v THEN 1 ELSE 0
    BY <1>2, <1>3, <1>4, <2>1 DEF HeldOnly, Rewritten
  <2>3. \A e \in Chain, w \in User : e # c => balance'[e][t][w] = 0
    BY <1>2, <1>3 DEF HeldOnly, Rewritten
  <2> QED
    BY <2>2, <2>3
<1>6. HeldOnly(t, c, v)'
  BY <1>1, <1>3, <1>5 DEF HeldOnly, Carries
<1>7. ASSUME NEW e \in Chain PROVE EscrowOf(t, e)'
  <2>1. EscrowOf(t, e)
    BY DEF IInv
  <2>2. CASE e = c
    <3>1. balance'[c][t][App] = balance[c][t][App]
      BY <1>2, <1>4 DEF Rewritten
    <3>2. balance[c][t][App] = 0
      BY <1>3, <2>1, <2>2 DEF EscrowOf, HeldOnly
    <3> QED
      BY <1>5, <2>2, <3>1, <3>2 DEF EscrowOf
  <2>3. CASE e # c
    <3>1. balance'[e][t] = balance[e][t]
      BY <1>2, <2>3 DEF Rewritten
    <3> QED
      BY <1>1, <2>1, <3>1, EscrowStays
  <2> QED
    BY <2>2, <2>3
<1> QED
  BY <1>3, <1>6, <1>7

-----------------------------------------------------------------------------
\* What one step can do to a token.
Stays(t) ==
  /\ \A c \in Chain, u \in User : HeldOnly(t, c, u) => HeldOnly(t, c, u)'
  /\ \A m \in msgs : CarriedOnly(t, m) => m \in msgs' /\ CarriedOnly(t, m)'
  /\ LostOnly(t) => LostOnly(t)'

Leaves(t) ==
  \E c, d \in Chain, u \in User, m \in msgs' :
    HeldOnly(t, c, u) /\ m.dst = d /\ c # d /\ CarriedOnly(t, m)'

Arrives(t) ==
  \E m \in msgs :
    /\ m.reached /\ m.dst \in Chain /\ m.to \in User
    /\ CarriedOnly(t, m)
    /\ HeldOnly(t, m.dst, m.to)' \/ LostOnly(t)'

ChangesHands(t) ==
  \E c \in Chain, u, v \in User : HeldOnly(t, c, u) /\ HeldOnly(t, c, v)'

LEMMA StepsSorted ==
  ASSUME IInv, [Next]_vars
  PROVE  /\ TypeOK' /\ mixed \subseteq mixed'
         /\ \A m \in msgs' : MessageOK(m)'
         /\ \A t \in Token \ mixed' :
              /\ Stays(t) \/ Leaves(t) \/ Arrives(t) \/ ChangesHands(t)
              /\ \A c \in Chain : EscrowOf(t, c)'
<1> DEFINE Moves(t) == /\ Stays(t) \/ Leaves(t) \/ Arrives(t) \/ ChangesHands(t)
                       /\ \A c \in Chain : EscrowOf(t, c)'
           Goal == /\ TypeOK' /\ mixed \subseteq mixed'
                   /\ \A m \in msgs' : MessageOK(m)'
                   /\ \A t \in Token \ mixed' : Moves(t)
<1> SUFFICES Goal
  OBVIOUS
<1>1. TypeOK /\ \A m \in msgs : MessageOK(m)
  BY DEF IInv
<1>2. kind' = kind => \A m \in msgs : MessageOK(m)'
  BY <1>1 DEF MessageOK, EncodedLength
<1>3. kind' = kind => \A t \in Token \ mixed : Untouched(t) => Moves(t)
  <2> SUFFICES ASSUME kind' = kind, NEW t \in Token \ mixed, Untouched(t) PROVE Moves(t)
    OBVIOUS
  <2>1. Stays(t)
    BY UntouchedStays DEF Stays
  <2>2. \A c \in Chain : EscrowOf(t, c)'
    BY EscrowStays DEF IInv, Untouched
  <2> QED
    BY <2>1, <2>2
<1>4. ASSUME NEW c \in Chain, NEW d \in Chain, NEW u \in User, NEW r \in User,
             NEW t \in Token, Send(c, d, u, r, t)
      PROVE  Goal
  <2>1. kind' = kind /\ mixed' = mixed
    BY <1>4 DEF Send
  <2>2. TypeOK' /\ \A m \in msgs' : MessageOK(m)'
    BY <1>1, <1>4, SendTyped
  <2>3. t \notin mixed => Moves(t)
    BY <1>4, SendEffect DEF Leaves
  <2>4. \A s \in Token \ {t} : Untouched(s)
    BY <1>4, SendEffect
  <2> QED
    BY <1>3, <2>1, <2>2, <2>3, <2>4
<1>5. ASSUME NEW c \in Chain, NEW d \in Chain, NEW r \in User,
             NEW l \in {PACKED_END_OFFSET, COMPOSED_OFFSET}, NEW n \in Token,
             FungibleSend(c, d, r, l, n)
      PROVE  Goal
  <2>1. kind' = kind /\ mixed' = mixed
    BY <1>5 DEF FungibleSend
  <2>2. /\ TypeOK' /\ \A m \in msgs' : MessageOK(m)'
        /\ \A s \in Token : Untouched(s)
    BY <1>5, FungibleSendEffect
  <2> QED
    BY <1>3, <2>1, <2>2
<1>6. ASSUME NEW m \in msgs, Receive(m) PROVE Goal
  <2>1. kind' = kind /\ msgs' \subseteq msgs
    BY <1>6 DEF Receive, Clear
  <2>2. TypeOK' /\ mixed \subseteq mixed' /\ m.dst \in Chain /\ m.to \in User
    BY <1>1, <1>6, ReceiveTyped
  <2>3. ASSUME NEW t \in Token \ mixed', Carries(m, t), DecodedId(m.dst, m) = t
        PROVE  Moves(t)
    <3>1. /\ CarriedOnly(t, m) /\ HeldOnly(t, m.dst, m.to)'
          /\ \A e \in Chain : EscrowOf(t, e)'
      BY <1>6, <2>3, ReceiveEffect
    <3>2. Arrives(t)
      BY <1>6, <2>2, <3>1 DEF Arrives, Receive, FromPeer
    <3> QED
      BY <3>1, <3>2
  <2>4. \A t \in Token \ mixed' : Moves(t)
    BY <1>1, <1>3, <1>6, <2>1, <2>2, <2>3, ReceivedAsSent
  <2> QED
    BY <1>2, <2>1, <2>2, <2>4
<1>7. ASSUME NEW m \in msgs, LzReceiveAsToken(m) PROVE Goal
  <2>1. kind' = kind /\ msgs' \subseteq msgs /\ balance' = balance /\ mixed' = mixed
    BY <1>7 DEF LzReceiveAsToken, Clear
  <2>2. /\ TypeOK'
        /\ \A t \in Token \ mixed : Untouched(t) \/ (CarriedOnly(t, m) /\ LostOnly(t)')
    BY <1>7, LzReceiveEffect
  <2>3. m.reached /\ m.dst \in Chain /\ m.to \in User
    BY <1>1, <1>7 DEF LzReceiveAsToken, FromPeer, TypeOK, Message
  <2>4. \A t \in Token \ mixed, c \in Chain : EscrowOf(t, c)'
    BY <2>1, EscrowStays DEF IInv
  <2>5. \A t \in Token \ mixed : Moves(t)
    BY <1>3, <2>1, <2>2, <2>3, <2>4 DEF Arrives
  <2> QED
    BY <1>2, <2>1, <2>2, <2>5
<1>8. ASSUME NEW c \in Chain, NEW t \in Token, NEW u \in User, NEW v \in User,
             Transfer(c, t, u, v)
      PROVE  Goal
  <2>1. kind' = kind /\ msgs' = msgs /\ mixed' = mixed
    BY <1>8 DEF Transfer
  <2>2. TypeOK' /\ \A s \in Token \ {t} : Untouched(s)
    BY <1>1, <1>8, TransferTyped
  <2>3. t \notin mixed => Moves(t)
    BY <1>8, TransferMoves DEF ChangesHands
  <2> QED
    BY <1>2, <1>3, <2>1, <2>2, <2>3
<1>9. ASSUME UNCHANGED <<kind, balance, msgs, sends, lost, mixed>>, TypeOK' PROVE Goal
  <2>1. \A s \in Token : Untouched(s)
    BY <1>9 DEF Untouched
  <2> QED
    BY <1>2, <1>3, <1>9, <2>1
<1>10. ASSUME NEW c \in Chain, NEW d \in Chain, NEW a \in {"right", "wrong"}, SetPeer(c, d, a)
       PROVE  Goal
  <2>1. TypeOK'
    BY <1>1, <1>10 DEF SetPeer, TypeOK
  <2> QED
    BY <1>9, <1>10, <2>1 DEF SetPeer
<1>11. CASE UNCHANGED vars
  <2>1. TypeOK'
    BY <1>1, <1>11 DEF vars, TypeOK
  <2> QED
    BY <1>9, <1>11, <2>1 DEF vars
<1> HIDE DEF Goal
<1>12. CASE Next
  BY <1>4, <1>5, <1>6, <1>7, <1>8, <1>10, <1>12 DEF Next
<1> QED
  BY <1>11, <1>12

LEMMA NextIInv == IInv /\ [Next]_vars => IInv'
<1> SUFFICES ASSUME IInv, [Next]_vars PROVE IInv'
  OBVIOUS
<1>1. ASSUME NEW t \in Token \ mixed' PROVE SomeWhere(t)'
  <2>1. t \notin mixed
    BY StepsSorted
  <2>2. SomeWhere(t)
    BY <2>1 DEF IInv
  <2>3. Stays(t) \/ Leaves(t) \/ Arrives(t) \/ ChangesHands(t)
    BY StepsSorted
  <2>4. \/ \E c \in Chain, u \in User : HeldOnly(t, c, u)'
        \/ \E m \in msgs' : CarriedOnly(t, m)'
        \/ LostOnly(t)'
    BY <2>2, <2>3 DEF SomeWhere, Stays, Leaves, Arrives, ChangesHands
  <2> QED
    BY <2>4 DEF SomeWhere
<1> QED
  BY <1>1, StepsSorted DEF IInv

LEMMA Inductive == Spec => []IInv
BY InitIInv, NextIInv, PTL DEF Spec

-----------------------------------------------------------------------------
\* Every reachable state is well typed: no balance is below zero, and ids in
\* messages are ids of the collection.
THEOREM TypeCorrect == Spec => []TypeOK
BY Inductive, PTL DEF IInv

\* At every moment a token that was not confused is with one user, in one
\* message or lost, whatever kinds of contracts are deployed (send_onft.rs,
\* lz_receive_onft.rs, EvmOnftLockAdapter.sol).
THEOREM TokenInOnePlace == Spec => []OnePlace
<1>1. ASSUME IInv, NEW t \in Token \ mixed
      PROVE  /\ \E x \in Places(t) : Places(t) = {x}
             /\ \A c \in Chain, u \in User : balance[c][t][u] <= 1
  <2>1. SomeWhere(t)
    BY <1>1 DEF IInv
  <2>2. ASSUME NEW c \in Chain, NEW u \in User, HeldOnly(t, c, u)
        PROVE  Places(t) = {<<"held", c, u>>}
    <3>1. {y \in Chain \X User : balance[y[1]][t][y[2]] > 0} = {<<c, u>>}
      BY <2>2 DEF HeldOnly
    <3>2. {<<"held", x[1], x[2]>> : x \in {<<c, u>>}} = {<<"held", c, u>>}
      OBVIOUS
    <3>3. Carrying(t) = {} /\ t \notin lost
      BY <2>2 DEF HeldOnly, Carrying, Carries
    <3> QED
      BY <3>1, <3>2, <3>3 DEF Places
  <2>3. ASSUME NEW m \in msgs, CarriedOnly(t, m)
        PROVE  Places(t) = {<<"carried", m.nonce, m.src>>}
    BY <2>3 DEF CarriedOnly, Places, Carrying, Carries
  <2>4. ASSUME LostOnly(t) PROVE Places(t) = {<<"lost", t, Home>>}
    BY <2>4 DEF LostOnly, Places, Carrying, Carries
  <2>5. \A c \in Chain, u \in User : balance[c][t][u] <= 1
    BY <2>1 DEF SomeWhere, HeldOnly, CarriedOnly, LostOnly
  <2> QED
    BY <2>1, <2>2, <2>3, <2>4, <2>5 DEF SomeWhere
<1>2. IInv => OnePlace
  BY <1>1 DEF OnePlace
<1> QED
  BY <1>2, Inductive, PTL

\* On no chain is a token that was not confused there twice, whether its
\* contract mints it each time or on first use only (lz_receive_onft.rs:148).
THEOREM NeverMintedTwice == Spec => []NoSecondMint
<1>1. ASSUME IInv, NEW c \in Chain, NEW t \in Token \ mixed,
             NEW g \in Minted(c, t), NEW h \in Minted(c, t)
      PROVE  g = h /\ balance[c][t][h] = 1
  <2>1. SomeWhere(t) /\ EscrowOf(t, c)
    BY <1>1 DEF IInv
  <2>2. \A u, v \in User : balance[c][t][u] > 0 /\ balance[c][t][v] > 0
          => u = v /\ balance[c][t][u] = 1
    BY <2>1 DEF SomeWhere, HeldOnly, CarriedOnly, LostOnly
  <2>3. balance[c][t][App] > 0 => balance[c][t][App] = 1
    BY <2>1 DEF EscrowOf
  <2>4. \A u \in User : balance[c][t][u] > 0 => ~ (balance[c][t][App] > 0)
    BY <2>1, <2>2 DEF EscrowOf
  <2> QED
    BY <2>2, <2>3, <2>4 DEF Minted, Holder
<1>2. IInv => NoSecondMint
  BY <1>1 DEF NoSecondMint
<1> QED
  BY <1>2, Inductive, PTL

\* What was sent as a token can be received as that token, in whatever order,
\* if its address is right and its id fits where it arrives, except by a native
\* program; what is sent to EvmOnftLockAdapter never can (lz_receive_onft.rs:21,
\* EvmOnftLockAdapter.sol:72).
THEOREM AddressedIsDeliverable == Spec => []Deliverable
<1>1. ASSUME IInv, NEW m \in msgs, m.nft PROVE
        IF kind[m.dst] = "lock_adapter" THEN ~ Readable(m.dst, m)
        ELSE /\ Readable(m.dst, m)
             /\ m.id \notin mixed /\ kind[m.dst] # "native" => Creditable(m.dst, m.id)
  <2>1. TypeOK /\ MessageOK(m) /\ m.id \in Token /\ m.dst \in Chain /\ kind \in Deployment
    BY <1>1 DEF IInv, TypeOK, Message
  <2>2. ASSUME m.id \notin mixed, kind[m.dst] # "native" PROVE Creditable(m.dst, m.id)
    <3>1. CarriedOnly(m.id, m)
      BY <1>1, <2>1, <2>2, CarrierKnown DEF IInv, Carries
    <3>2. EscrowOf(m.id, m.dst) /\ EscrowOf(m.id, Home) /\ Home \in Chain
      BY <1>1, <2>1, <2>2, OnftAssumption DEF IInv
    <3>3. \A c \in Chain, u \in User : balance[c][m.id][u] = 0
      BY <1>1, <2>1, <3>1, NobodyHolds
    <3>4. kind[m.dst] \in {"lock_adapter", "onft_adapter"} => balance[m.dst][m.id][App] = 1
      BY <1>1, <2>1, <3>1, <3>2, KindsHere, NobodyHolds
    <3>5. kind[m.dst] = "onft" => Minted(m.dst, m.id) = {}
      BY <2>1, <3>2, <3>3 DEF EscrowOf, Minted, Holder
    <3> QED
      BY <2>1, <2>2, <3>4, <3>5 DEF Creditable
  <2> QED
    BY <1>1, <2>1, <2>2, TokensReadable
<1>2. IInv => Deliverable
  BY <1>1 DEF Deliverable
<1> QED
  BY <1>2, Inductive, PTL

-----------------------------------------------------------------------------
HeldPlace(c, u) == [status |-> "held", chain |-> c, who |-> u]
TransitPlace(c, u) == [status |-> "transit", chain |-> c, who |-> u]
GonePlace == [status |-> "gone", chain |-> Home, who |-> App]

\* Place finds a token where it is, and counts what travels to a wrong address
\* as gone.
PlacedRight(t) ==
  /\ \A c \in Chain, u \in User : HeldOnly(t, c, u) => Place(t) = HeldPlace(c, u)
  /\ \A m \in msgs : CarriedOnly(t, m) =>
       Place(t) = IF m.reached THEN TransitPlace(m.dst, m.to) ELSE GonePlace
  /\ LostOnly(t) => Place(t) = GonePlace

LEMMA PlaceIsRight ==
  ASSUME NEW t \in Token
  PROVE  PlacedRight(t)
<1>1. ASSUME NEW c \in Chain, NEW u \in User, HeldOnly(t, c, u)
      PROVE  Place(t) = HeldPlace(c, u)
  <2>1. \A x \in Chain \X User : balance[x[1]][t][x[2]] > 0 <=> x = <<c, u>>
    BY <1>1 DEF HeldOnly
  <2>2. (CHOOSE x \in Chain \X User : balance[x[1]][t][x[2]] > 0) = <<c, u>>
    BY <2>1
  <2>3. \E d \in Chain, v \in User : balance[d][t][v] > 0
    BY <1>1 DEF HeldOnly
  <2>4. Place(t) = LET at == CHOOSE x \in Chain \X User : balance[x[1]][t][x[2]] > 0
                   IN  [status |-> "held", chain |-> at[1], who |-> at[2]]
    BY <2>3 DEF Place
  <2>5. <<c, u>>[1] = c /\ <<c, u>>[2] = u
    OBVIOUS
  <2> QED
    BY <2>2, <2>4, <2>5 DEF HeldPlace
<1>2. ASSUME NEW m \in msgs, CarriedOnly(t, m)
      PROVE  Place(t) = IF m.reached THEN TransitPlace(m.dst, m.to) ELSE GonePlace
  <2>1. ~ \E d \in Chain, v \in User : balance[d][t][v] > 0
    BY <1>2 DEF CarriedOnly
  <2>2. Carrying(t) = {m}
    BY <1>2 DEF CarriedOnly, Carrying, Carries
  <2>3. (CHOOSE x \in Carrying(t) : TRUE) = m
    BY <2>2
  <2> QED
    BY <2>1, <2>2, <2>3 DEF Place, TransitPlace, GonePlace
<1>3. ASSUME LostOnly(t) PROVE Place(t) = GonePlace
  <2>1. ~ \E d \in Chain, v \in User : balance[d][t][v] > 0
    BY <1>3 DEF LostOnly
  <2>2. Carrying(t) = {}
    BY <1>3 DEF LostOnly, Carrying, Carries
  <2> QED
    BY <2>1, <2>2 DEF Place, GonePlace
<1> QED
  BY <1>1, <1>2, <1>3 DEF PlacedRight

LEMMA StepMoves ==
  ASSUME IInv, IInv', [Next]_vars, NEW t \in Token, t \notin mixed'
  PROVE  Omni!MayMove(Place(t), Place(t)')
<1> DEFINE from == Place(t)
           to == Place(t)'
<1>1. /\ \A c \in Chain, u \in User : HeldOnly(t, c, u) => from = HeldPlace(c, u)
      /\ \A m \in msgs : CarriedOnly(t, m) =>
           from = IF m.reached THEN TransitPlace(m.dst, m.to) ELSE GonePlace
      /\ LostOnly(t) => from = GonePlace
  BY PlaceIsRight DEF PlacedRight
<1>2. /\ \A c \in Chain, u \in User : HeldOnly(t, c, u)' => to = HeldPlace(c, u)
      /\ \A m \in msgs' : CarriedOnly(t, m)' =>
           to = IF m.reached THEN TransitPlace(m.dst, m.to) ELSE GonePlace
      /\ LostOnly(t)' => to = GonePlace
  <2>1. PlacedRight(t)'
    BY PlaceIsRight, PTL
  <2> QED
    BY <2>1 DEF PlacedRight, HeldPlace, TransitPlace, GonePlace
<1>3. SomeWhere(t)
  BY StepsSorted DEF IInv
<1>4. \A m \in msgs' : m.dst \in Chain
  BY DEF IInv, TypeOK, Message
<1> HIDE DEF from, to
<1>5. CASE Stays(t)
  <2>1. to = from
    BY <1>1, <1>2, <1>3, <1>5 DEF SomeWhere, Stays
  <2> QED
    BY <2>1 DEF Omni!MayMove, from, to
<1>6. CASE Leaves(t)
  <2>1. PICK c \in Chain, d \in Chain, u \in User, m \in msgs' :
          HeldOnly(t, c, u) /\ m.dst = d /\ c # d /\ CarriedOnly(t, m)'
    BY <1>6 DEF Leaves
  <2>2. from = HeldPlace(c, u) /\ to \in {TransitPlace(d, m.to), GonePlace}
    BY <1>1, <1>2, <2>1
  <2> QED
    BY <2>1, <2>2 DEF Omni!MayMove, Omni!Gone, HeldPlace, TransitPlace, GonePlace, from, to
<1>7. CASE Arrives(t)
  <2>1. PICK m \in msgs :
          /\ m.reached /\ m.dst \in Chain /\ m.to \in User
          /\ CarriedOnly(t, m)
          /\ HeldOnly(t, m.dst, m.to)' \/ LostOnly(t)'
    BY <1>7 DEF Arrives
  <2>2. from = TransitPlace(m.dst, m.to) /\ to \in {HeldPlace(m.dst, m.to), GonePlace}
    BY <1>1, <1>2, <2>1
  <2> QED
    BY <2>1, <2>2 DEF Omni!MayMove, Omni!HeldBy, Omni!Gone,
      HeldPlace, TransitPlace, GonePlace, from, to
<1>8. CASE ChangesHands(t)
  <2>1. PICK c \in Chain, u \in User, v \in User : from = HeldPlace(c, u) /\ to = HeldPlace(c, v)
    BY <1>1, <1>2, <1>8 DEF ChangesHands
  <2> QED
    BY <2>1 DEF Omni!MayMove, Omni!HeldBy, HeldPlace, from, to
<1> QED
  BY <1>5, <1>6, <1>7, <1>8, StepsSorted

\* The NFT path implements OmniToken, as the older bridge does: a token goes
\* sent, and drops out only through a wrong peer address or lz_receive, as long
\* as it is not confused with another or with an amount.
THEOREM ImplementsOmniToken == Spec => OneOmniToken
<1>1. Init => Omni!Init
  <2> SUFFICES ASSUME Init, NEW t \in Token
               PROVE  \E u \in User : Place(t) = HeldPlace(Home, u)
    BY DEF Omni!Init, Omni!HeldBy, HeldPlace, Init
  <2>1. PICK o \in User :
          balance = [c \in Chain |-> [s \in Token |-> [h \in Holder |->
                       IF c = Home /\ h = o THEN 1 ELSE 0]]]
    BY DEF Init
  <2>2. HeldOnly(t, Home, o)
    BY <2>1, OnftAssumption DEF Init, HeldOnly, Holder
  <2> QED
    BY <2>2, PlaceIsRight, OnftAssumption DEF PlacedRight
<1>2. IInv /\ IInv' /\ [Next]_vars => [Omni!Next]_([t \in Token \ mixed |-> Place(t)])
  <2> SUFFICES ASSUME IInv, IInv', [Next]_vars PROVE Omni!Next
    OBVIOUS
  <2>1. \A t \in Token \ mixed' : Omni!MayMove(Place(t), Place(t)')
    BY StepMoves
  <2>2. mixed \subseteq mixed'
    BY StepsSorted
  <2> QED
    BY <2>1, <2>2 DEF Omni!Next
<1> QED
  BY <1>1, <1>2, NextIInv, Inductive, PTL DEF Spec, OneOmniToken, Omni!Spec

-----------------------------------------------------------------------------
\* A native program holds nothing.
NativeEmpty ==
  \A c \in Chain : kind[c] = "native" =>
    \A t \in Token, h \in Holder : balance[c][t][h] = 0

\* lz_receive_onft of a native program never mints anything: the call that
\* creates metadata lacks an account (lz_receive_onft.rs:109), which aborts the
\* transaction, so that what is sent there stays a message or is spent by
\* lz_receive.
THEOREM NativeMintsNothing == Spec => []NativeEmpty
<1>1. Init => NativeEmpty
  <2> SUFFICES ASSUME Init, NEW c \in Chain, kind[c] = "native",
                      NEW t \in Token, NEW h \in Holder
               PROVE  balance[c][t][h] = 0
    BY DEF NativeEmpty
  <2>1. c # Home
    BY KindsHere DEF Init
  <2> QED BY <2>1 DEF Init
<1>2. IInv /\ NativeEmpty /\ [Next]_vars => NativeEmpty'
  <2> SUFFICES ASSUME IInv, NativeEmpty, [Next]_vars,
                      NEW c \in Chain, kind'[c] = "native",
                      NEW t \in Token, NEW h \in Holder
               PROVE  balance'[c][t][h] = 0
    BY DEF NativeEmpty
  <2>1. /\ balance \in [Chain -> [Token -> [Holder -> Nat]]]
        /\ \A u \in User : u \in Holder
        /\ App \in Holder
        /\ \A m \in msgs : m.dst \in Chain
    BY DEF IInv, TypeOK, Message, Holder
  <2>2. kind' = kind
    <3>1. \A a, d, u, r, s : Send(a, d, u, r, s) \/ FungibleSend(a, d, u, r, s) => kind' = kind
      BY DEF Send, FungibleSend
    <3>2. \A m : Receive(m) \/ LzReceiveAsToken(m) => kind' = kind
      BY DEF Receive, LzReceiveAsToken
    <3>3. \A a, s, u, v : Transfer(a, s, u, v) \/ SetPeer(a, s, u) => kind' = kind
      BY DEF Transfer, SetPeer
    <3>4. CASE UNCHANGED vars
      BY <3>4 DEF vars
    <3> QED BY <3>1, <3>2, <3>3, <3>4 DEF Next
  <2>3. \A s \in Token, g \in Holder : balance[c][s][g] = 0
    BY <2>2 DEF NativeEmpty
  <2>4. ASSUME NEW a \in Chain, NEW d \in Chain, NEW u \in User, NEW r \in User,
               NEW s \in Token, Send(a, d, u, r, s)
        PROVE  balance'[c][t][h] = 0
    <3>1. a # c
      BY <2>1, <2>3, <2>4 DEF Send
    <3> QED BY <2>1, <2>3, <2>4, <3>1 DEF Send, Debit
  <2>5. ASSUME NEW m \in msgs, Receive(m) PROVE balance'[c][t][h] = 0
    <3>1. m.dst # c
      BY <2>2, <2>5 DEF Receive, Creditable
    <3>2. kind[m.dst] \in Kinds /\ m.dst \in Chain
      BY <2>1, KindsHere DEF IInv, TypeOK
    <3>3. balance' = Credited(m.dst, DecodedId(m.dst, m), m.to)
      BY <2>5 DEF Receive
    <3>4. balance'[c] = balance[c]
      <4>1. CASE kind[m.dst] \in {"native", "onft"}
        BY <2>1, <3>1, <3>2, <3>3, <4>1 DEF Credited
      <4>2. CASE kind[m.dst] = "adapter"
        BY <2>1, <3>1, <3>2, <3>3, <4>2 DEF Credited
      <4>3. CASE kind[m.dst] \in {"lock_adapter", "onft_adapter"}
        BY <2>1, <3>1, <3>2, <3>3, <4>3 DEF Credited
      <4> QED
        BY <3>2, <4>1, <4>2, <4>3 DEF Kinds, SolanaKinds, LockKinds
    <3> QED BY <2>3, <3>4
  <2>6. ASSUME NEW m \in msgs, LzReceiveAsToken(m) PROVE balance'[c][t][h] = 0
    BY <2>3, <2>6 DEF LzReceiveAsToken
  <2>7. ASSUME NEW a \in Chain, NEW s \in Token, NEW u \in User, NEW v \in User,
               Transfer(a, s, u, v)
        PROVE  balance'[c][t][h] = 0
    <3>1. a # c
      BY <2>1, <2>3, <2>7 DEF Transfer
    <3> QED BY <2>1, <2>3, <2>7, <3>1 DEF Transfer
  <2>8. ASSUME NEW a \in Chain, NEW d \in Chain, NEW x \in {"right", "wrong"},
               SetPeer(a, d, x)
        PROVE  balance'[c][t][h] = 0
    BY <2>3, <2>8 DEF SetPeer
  <2>9. CASE UNCHANGED vars
    BY <2>3, <2>9 DEF vars
  <2>10. ASSUME NEW a \in Chain, NEW d \in Chain, NEW r \in User, NEW n \in Token,
                NEW l \in {PACKED_END_OFFSET, COMPOSED_OFFSET}, FungibleSend(a, d, r, l, n)
         PROVE  balance'[c][t][h] = 0
    BY <2>3, <2>10 DEF FungibleSend
  <2> QED
    BY <2>4, <2>5, <2>6, <2>7, <2>8, <2>9, <2>10 DEF Next
<1> QED
  BY <1>1, <1>2, Inductive, PTL DEF Spec

=============================================================================
