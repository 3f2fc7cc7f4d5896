------------------------- MODULE RagnarokMintProofs -------------------------
(***************************************************************************)
(* The collection and its transform, for any collections of old tokens,    *)
(* holdings, batches and caps.                                             *)
(*                                                                         *)
(* What a batch moves is added up by id, so that an id may be named more   *)
(* than once; what is minted is added up by position.  That the two agree  *)
(* (SumByKind) is why a new token is minted for each old one burnt.        *)
(***************************************************************************)
EXTENDS RagnarokMint, SumTheorems

-----------------------------------------------------------------------------
LEMMA BatchType ==
  ASSUME NEW S, NEW b \in Batch(S)
  PROVE  IsFiniteSet(DOMAIN b) /\ DOMAIN b \subseteq Nat /\ \A i \in DOMAIN b : b[i] \in S
<1>1. PICK n \in 0 .. MaxBatch : b \in [1 .. n -> S]
  BY DEF Batch
<1>2. IsFiniteSet(1 .. n)
  BY FS_Interval
<1> QED
  BY <1>1, <1>2

LEMMA AmountType ==
  ASSUME NEW ids, NEW amounts, IsFiniteSet(DOMAIN ids),
         \A i \in DOMAIN ids : amounts[i] \in Nat, NEW id
  PROVE  /\ AmountOf(ids, amounts, id) \in Nat
         /\ (\A i \in DOMAIN ids : ids[i] # id) => AmountOf(ids, amounts, id) = 0
<1> DEFINE I == {i \in DOMAIN ids : ids[i] = id}
<1>1. IsFiniteSet(I) /\ \A i \in I : amounts[i] \in Nat
  BY FS_Subset
<1>2. SumFunctionOnSet(amounts, I) \in Nat
  BY <1>1, SumOfNaturals
<1>3. (\A i \in DOMAIN ids : ids[i] # id) => I = {}
  OBVIOUS
<1> QED
  BY <1>2, <1>3, SumEmpty DEF AmountOf

\* A batch that is covered overdraws nobody and moves what it says.
Payable(K, ledger, from, to, ids, amounts) ==
  /\ ledger \in [Holder -> [K -> Nat]]
  /\ from \in Holder /\ to \in Holder /\ from # to
  /\ IsFiniteSet(DOMAIN ids)
  /\ \A i \in DOMAIN ids : ids[i] \in K /\ amounts[i] \in Nat
  /\ BatchCovered(ledger, from, to, ids, amounts)

Paid(K, ledger, from, to, ids, amounts, moved) ==
  /\ moved \in [Holder -> [K -> Nat]]
  /\ \A k \in K : /\ moved[from][k] = ledger[from][k] - AmountOf(ids, amounts, k)
                  /\ moved[to][k] = ledger[to][k] + AmountOf(ids, amounts, k)
  /\ \A h \in Holder \ {from, to} : moved[h] = ledger[h]

LEMMA MovedEffect ==
  ASSUME NEW K, NEW ledger, NEW from, NEW to, NEW ids, NEW amounts,
         Payable(K, ledger, from, to, ids, amounts)
  PROVE  Paid(K, ledger, from, to, ids, amounts, BatchMoved(ledger, from, to, ids, amounts))
<1> DEFINE moved == BatchMoved(ledger, from, to, ids, amounts)
            less == [k \in K |-> ledger[from][k] - AmountOf(ids, amounts, k)]
           more == [k \in K |-> ledger[to][k] + AmountOf(ids, amounts, k)]
<1> USE DEF Payable
<1>1. moved = [ledger EXCEPT ![from] = less, ![to] = more]
  BY DEF BatchMoved
<1>2. ASSUME NEW k \in K
      PROVE  less[k] \in Nat /\ more[k] \in Nat
  <2>1. AmountOf(ids, amounts, k) \in Nat
    BY AmountType
  <2>2. AmountOf(ids, amounts, k) <= ledger[from][k]
    <3>1. CASE \E i \in DOMAIN ids : ids[i] = k
      BY <3>1 DEF BatchCovered
    <3>2. CASE \A i \in DOMAIN ids : ids[i] # k
      <4>1. AmountOf(ids, amounts, k) = 0
        BY <3>2, AmountType
      <4> QED
        BY <4>1
    <3> QED
      BY <3>1, <3>2
  <2> QED
    BY <2>1, <2>2
<1>3. less \in [K -> Nat] /\ more \in [K -> Nat]
  BY <1>2
<1>4. \A k \in K : /\ less[k] = ledger[from][k] - AmountOf(ids, amounts, k)
                   /\ more[k] = ledger[to][k] + AmountOf(ids, amounts, k)
  OBVIOUS
<1> HIDE DEF less, more, moved
<1> QED
  BY <1>1, <1>3, <1>4 DEF Paid, moved

-----------------------------------------------------------------------------
LEMMA HoldersDiffer ==
  /\ \A u \in User : u \in Holder /\ u # Dead /\ u # Transform
  /\ Dead \in Holder /\ Transform \in Holder
  /\ IsFiniteSet(Token) /\ MaxMinted \in Nat
<1>1. IsFiniteSet(1 .. MaxMinted)
  BY MintAssumption, FS_Interval
<1> QED
  BY <1>1, MintAssumption DEF Holder, Token

\* What artUpgrade burns, by position and by id.
LEMMA BurntType ==
  ASSUME TypeOK, NEW u \in User, NEW ids \in Batch(OldId)
  PROVE  /\ IsFiniteSet(DOMAIN ids)
         /\ \A i \in DOMAIN ids : ids[i] \in OldId
         /\ Balances(u, ids) = Burnt(u, ids) /\ DOMAIN Burnt(u, ids) = DOMAIN ids
         /\ \A i \in DOMAIN ids : Burnt(u, ids)[i] \in Nat
         /\ Total(Burnt(u, ids)) = SumFunctionOnSet(Burnt(u, ids), DOMAIN ids)
         /\ Total(Burnt(u, ids)) \in Nat
<1>1. IsFiniteSet(DOMAIN ids) /\ \A i \in DOMAIN ids : ids[i] \in OldId
  BY BatchType
<1>2. /\ Balances(u, ids) = Burnt(u, ids) /\ DOMAIN Burnt(u, ids) = DOMAIN ids
      /\ \A i \in DOMAIN ids : Burnt(u, ids)[i] \in Nat
  BY <1>1, HoldersDiffer DEF Balances, Burnt, TypeOK
<1>3. Total(Burnt(u, ids)) = SumFunctionOnSet(Burnt(u, ids), DOMAIN ids)
  BY <1>2 DEF Total, SumFunction
<1>4. SumFunctionOnSet(Burnt(u, ids), DOMAIN ids) \in Nat
  BY <1>1, <1>2, SumOfNaturals
<1> QED
  BY <1>1, <1>2, <1>3, <1>4

\* Each old token that is paid for arrives at the burn address.
LEMMA UpgradeBurns ==
  ASSUME TypeOK, NEW u \in User, NEW ids \in Batch(OldId), ArtUpgrade(u, ids)
  PROVE  /\ ronin' \in [Ronin -> [Holder -> [OldId -> Nat]]]
         /\ BurntTokens' = BurntTokens + Total(Burnt(u, ids))
<1> DEFINE a == Burnt(u, ids)
           ledger == ronin[roninContract]
           moved == BatchMoved(ledger, u, Dead, ids, a)
<1>1. /\ IsFiniteSet(DOMAIN ids) /\ \A i \in DOMAIN ids : ids[i] \in OldId /\ a[i] \in Nat
      /\ Total(a) = SumFunctionOnSet(a, DOMAIN ids)
  BY BurntType
<1>2. /\ roninContract \in Ronin /\ ledger \in [Holder -> [OldId -> Nat]]
      /\ ronin \in [Ronin -> [Holder -> [OldId -> Nat]]]
      /\ u \in Holder /\ Dead \in Holder /\ u # Dead
  BY HoldersDiffer DEF TypeOK
<1>3. BatchCovered(ledger, u, Dead, ids, a) /\ ronin' = [ronin EXCEPT ![roninContract] = moved]
  BY DEF ArtUpgrade
<1> HIDE DEF a, ledger, moved
<1>4. /\ moved \in [Holder -> [OldId -> Nat]]
      /\ \A k \in OldId : moved[Dead][k] = ledger[Dead][k] + AmountOf(ids, a, k)
  <2>1. Payable(OldId, ledger, u, Dead, ids, a)
    BY <1>1, <1>2, <1>3 DEF Payable
  <2>2. Paid(OldId, ledger, u, Dead, ids, a, moved)
    BY <2>1, MovedEffect DEF moved
  <2> QED
    BY <2>2 DEF Paid
<1>5. ronin' \in [Ronin -> [Holder -> [OldId -> Nat]]]
  BY <1>2, <1>3, <1>4
<1> DEFINE K == Ronin \X OldId
           kind == [i \in DOMAIN ids |-> <<roninContract, ids[i]>>]
           f == [x \in K |-> ronin[x[1]][Dead][x[2]]]
           g == [x \in K |-> ronin'[x[1]][Dead][x[2]]]
           h == [x \in K |-> SumFunctionOnSet(a, {i \in DOMAIN ids : kind[i] = x})]
<1>6. IsFiniteSet(K)
  BY MintAssumption, FS_Product
<1>7. ASSUME NEW x \in K PROVE f[x] \in Int /\ h[x] \in Int /\ g[x] = f[x] + h[x]
  <2>1. PICK r \in Ronin, k \in OldId : x = <<r, k>>
    OBVIOUS
  <2>2. f[x] = ronin[r][Dead][k] /\ g[x] = ronin'[r][Dead][k] /\ f[x] \in Int
    BY <1>2, <2>1
  <2>3. AmountOf(ids, a, k) \in Nat
    BY <1>1, AmountType
  <2>4. CASE r = roninContract
    <3>1. {i \in DOMAIN ids : kind[i] = x} = {i \in DOMAIN ids : ids[i] = k}
      BY <2>1, <2>4
    <3>2. h[x] = AmountOf(ids, a, k)
      BY <3>1 DEF AmountOf
    <3>3. g[x] = moved[Dead][k] /\ f[x] = ledger[Dead][k]
      BY <1>2, <1>3, <2>2, <2>4 DEF ledger
    <3> QED
      BY <1>4, <2>2, <2>3, <3>2, <3>3
  <2>5. CASE r # roninContract
    <3>1. {i \in DOMAIN ids : kind[i] = x} = {}
      BY <2>1, <2>5
    <3>2. h[x] = 0
      BY <3>1, SumEmpty
    <3>3. g[x] = f[x]
      BY <1>2, <1>3, <2>2, <2>5
    <3> QED
      BY <2>2, <3>2, <3>3
  <2> QED
    BY <2>4, <2>5
<1>8. SumFunctionOnSet(g, K) = SumFunctionOnSet(f, K) + SumFunctionOnSet(h, K)
  <2> HIDE DEF f, g, h, K
  <2> QED
    BY <1>6, <1>7, SumPlus
<1>9. SumFunctionOnSet(h, K) = SumFunctionOnSet(a, DOMAIN ids)
  <2>1. \A i \in DOMAIN ids : kind[i] \in K
    BY <1>1, <1>2
  <2>2. \A x \in K : h[x] = SumFunctionOnSet(a, {i \in DOMAIN ids : kind[i] = x})
    OBVIOUS
  <2>3. \A i \in DOMAIN ids : a[i] \in Int
    BY <1>1
  <2> HIDE DEF h, K, kind
  <2> QED
    BY <1>1, <1>6, <2>1, <2>2, <2>3, SumByKind
<1>10. BurntTokens = SumFunctionOnSet(f, K) /\ BurntTokens' = SumFunctionOnSet(g, K)
  BY DEF BurntTokens, SumFunction
<1> QED
  BY <1>1, <1>5, <1>8, <1>9, <1>10 DEF a

\* Nothing else reaches the burn address.
LEMMA BurntStay ==
  ASSUME \A r \in Ronin, k \in OldId : ronin'[r][Dead][k] = ronin[r][Dead][k]
  PROVE  BurntTokens' = BurntTokens
<1>1. [x \in Ronin \X OldId |-> ronin'[x[1]][Dead][x[2]]] =
        [x \in Ronin \X OldId |-> ronin[x[1]][Dead][x[2]]]
  OBVIOUS
<1> QED
  BY <1>1 DEF BurntTokens

-----------------------------------------------------------------------------
Supply(o) == {t \in Token : o[t] \in User}

LEMMA SupplyType ==
  ASSUME NEW o
  PROVE  IsFiniteSet(Supply(o)) /\ Cardinality(Supply(o)) \in Nat
<1>1. IsFiniteSet(Supply(o))
  BY HoldersDiffer, FS_Subset DEF Supply
<1> QED
  BY <1>1, FS_CardinalityType

LEMMA MintEffect ==
  ASSUME TypeOK, NEW minter, NEW to \in User, NEW q \in Nat, SafeMint(minter, to, q)
  PROVE  /\ ownerOf' \in [Token -> User \cup {Dead, NoOne}]
         /\ nextId' \in 1 .. MaxMinted + 1 /\ nextId' = nextId + q
         /\ minters' = minters
         /\ totalSupply' <= MAX_SUPPLY
<1>1. /\ ownerOf' \in [Token -> User \cup {Dead, NoOne}]
      /\ nextId' \in 1 .. MaxMinted + 1 /\ nextId' = nextId + q
      /\ minters' = minters
  BY MintAssumption DEF TypeOK, SafeMint
<1>2. IsFiniteSet(NewTokens(q)) /\ Cardinality(NewTokens(q)) = q
  <2>1. nextId \in Int /\ nextId + q - 1 \in Int /\ q > 0
    BY DEF SafeMint, TypeOK
  <2> QED
    BY <2>1, FS_Interval DEF NewTokens
<1>3. Supply(ownerOf') \subseteq Supply(ownerOf) \cup NewTokens(q)
  BY DEF SafeMint, Supply
<1>4. /\ IsFiniteSet(Supply(ownerOf) \cup NewTokens(q))
      /\ Cardinality(Supply(ownerOf) \cup NewTokens(q)) <= Cardinality(Supply(ownerOf)) + q
  <2>1. /\ IsFiniteSet(Supply(ownerOf) \cup NewTokens(q))
        /\ IsFiniteSet(Supply(ownerOf) \cap NewTokens(q))
        /\ Cardinality(Supply(ownerOf) \cup NewTokens(q)) =
             Cardinality(Supply(ownerOf)) + Cardinality(NewTokens(q))
               - Cardinality(Supply(ownerOf) \cap NewTokens(q))
    BY <1>2, SupplyType, FS_Union, FS_Intersection
  <2>2. Cardinality(Supply(ownerOf) \cap NewTokens(q)) \in Nat
    BY <2>1, FS_CardinalityType
  <2> QED
    BY <1>2, <2>1, <2>2, SupplyType
<1>5. Cardinality(Supply(ownerOf')) <= Cardinality(Supply(ownerOf) \cup NewTokens(q))
  BY <1>3, <1>4, FS_Subset
<1>6. Cardinality(Supply(ownerOf)) + q <= MAX_SUPPLY
  BY DEF SafeMint, UnderCap, totalSupply, Supply
<1>7. /\ Cardinality(Supply(ownerOf')) \in Nat /\ Cardinality(Supply(ownerOf)) \in Nat
      /\ Cardinality(Supply(ownerOf) \cup NewTokens(q)) \in Nat /\ MAX_SUPPLY \in Nat
  BY <1>4, SupplyType, FS_CardinalityType, MintAssumption
<1>8. totalSupply' = Cardinality(Supply(ownerOf'))
  BY DEF totalSupply, Supply
<1> QED
  BY <1>1, <1>4, <1>5, <1>6, <1>7, <1>8

LEMMA MoveEffect ==
  ASSUME TypeOK, NEW u \in User, NEW t \in Token, NEW to \in User \cup {Dead}, Move(u, t, to)
  PROVE  /\ ownerOf' \in [Token -> User \cup {Dead, NoOne}]
         /\ totalSupply' <= totalSupply
<1>1. ownerOf' \in [Token -> User \cup {Dead, NoOne}]
  BY DEF TypeOK, Move
<1>2. Supply(ownerOf') \subseteq Supply(ownerOf)
  BY DEF TypeOK, Move, Supply
<1>3. Cardinality(Supply(ownerOf')) <= Cardinality(Supply(ownerOf))
  BY <1>2, SupplyType, FS_Subset
<1> QED
  BY <1>1, <1>3 DEF totalSupply, Supply

-----------------------------------------------------------------------------
\* What reRoll takes: each chip that is named, once for each time.
LEMMA TakenType ==
  ASSUME NEW named \in Batch(Chip \cup {0}), NEW taken, taken = ChipsToBurn(named)
  PROVE  /\ IsFiniteSet(DOMAIN taken)
         /\ \A i \in DOMAIN taken : taken[i] \in Chip /\ Ones(taken)[i] \in Nat
         /\ \A c \in Chip : AmountOf(taken, Ones(taken), c) = NamedTimes(named, c)
<1>1. IsFiniteSet(DOMAIN named) /\ \A i \in DOMAIN named : named[i] \in Chip \cup {0}
  BY BatchType
<1>2. /\ DOMAIN taken = {i \in DOMAIN named : named[i] # 0}
      /\ \A i \in DOMAIN taken : taken[i] = named[i] /\ Ones(taken)[i] = 1
  BY DEF ChipsToBurn, Ones
<1>3. IsFiniteSet(DOMAIN taken)
  BY <1>1, <1>2, FS_Subset
<1>4. ASSUME NEW c \in Chip PROVE AmountOf(taken, Ones(taken), c) = NamedTimes(named, c)
  <2> DEFINE I == {i \in DOMAIN taken : taken[i] = c}
  <2>1. I = {i \in DOMAIN named : named[i] = c}
    BY <1>2, MintAssumption
  <2>2. IsFiniteSet(I) /\ \A i \in I : Ones(taken)[i] = 1
    BY <1>2, <1>3, FS_Subset
  <2>3. Cardinality(I) \in Nat
    BY <2>2, FS_CardinalityType
  <2>4. SumFunctionOnSet(Ones(taken), I) = Cardinality(I) * 1
    <3> HIDE DEF I
    <3> QED
      BY <2>2, SumConstant
  <2>5. AmountOf(taken, Ones(taken), c) = Cardinality(I)
    BY <2>3, <2>4 DEF AmountOf
  <2> QED
    BY <2>1, <2>5 DEF NamedTimes
<1> QED
  BY <1>1, <1>2, <1>3, <1>4

LEMMA ReRollEffect ==
  ASSUME TypeOK, NEW u \in User, NEW tokens, NEW named \in Batch(Chip \cup {0}),
         ReRoll(u, tokens, named)
  PROVE  /\ chips' \in [Holder -> [Chip -> Nat]]
         /\ chips' # chips =>
              /\ \A c \in Chip : /\ chips[u][c] - chips'[u][c] = NamedTimes(named, c)
                                 /\ chips'[owner][c] - chips[owner][c] = NamedTimes(named, c)
              /\ chips'[Transform] = chips[Transform]
<1> DEFINE taken == ChipsToBurn(named)
           moved == BatchMoved(chips, u, owner, taken, Ones(taken))
<1>1. chips \in [Holder -> [Chip -> Nat]] /\ owner \in User \cup {NoOne}
  BY DEF TypeOK
<1>2. /\ chips' # chips => chips' = moved
      /\ chips' # chips => /\ owner # NoOne
                           /\ BatchCovered(chips, u, owner, taken, Ones(taken))
  BY DEF ReRoll
<1>3. u = owner => moved = chips
  BY DEF BatchMoved
<1>4. ASSUME chips' # chips
      PROVE  /\ chips' \in [Holder -> [Chip -> Nat]]
             /\ \A c \in Chip : /\ chips[u][c] - chips'[u][c] = NamedTimes(named, c)
                                /\ chips'[owner][c] - chips[owner][c] = NamedTimes(named, c)
             /\ chips'[Transform] = chips[Transform]
  <2>1. /\ u # owner /\ owner \in User /\ chips' = moved
        /\ BatchCovered(chips, u, owner, taken, Ones(taken))
    BY <1>1, <1>2, <1>3, <1>4
  <2>2. u \in Holder /\ owner \in Holder /\ Transform \in Holder \ {u, owner}
    BY <2>1, HoldersDiffer
  <2>3. /\ IsFiniteSet(DOMAIN taken)
        /\ \A i \in DOMAIN taken : taken[i] \in Chip /\ Ones(taken)[i] \in Nat
        /\ \A c \in Chip : AmountOf(taken, Ones(taken), c) = NamedTimes(named, c)
    <3>1. taken = ChipsToBurn(named)
      OBVIOUS
    <3> QED
      BY <3>1, TakenType
  <2>4. \A c \in Chip : AmountOf(taken, Ones(taken), c) \in Nat
    BY <2>3, AmountType
  <2> HIDE DEF taken
  <2>5. Payable(Chip, chips, u, owner, taken, Ones(taken))
    BY <1>1, <2>1, <2>2, <2>3 DEF Payable
  <2> HIDE DEF moved
  <2>6. /\ moved \in [Holder -> [Chip -> Nat]]
        /\ \A c \in Chip :
             /\ moved[u][c] = chips[u][c] - AmountOf(taken, Ones(taken), c)
             /\ moved[owner][c] = chips[owner][c] + AmountOf(taken, Ones(taken), c)
        /\ \A h \in Holder \ {u, owner} : moved[h] = chips[h]
    <3>1. Paid(Chip, chips, u, owner, taken, Ones(taken), moved)
      BY <2>5, MovedEffect DEF moved
    <3> QED
      BY <3>1 DEF Paid
  <2>7. \A c \in Chip : chips[u][c] \in Nat /\ chips[owner][c] \in Nat
    BY <1>1, <2>2
  <2> QED
    BY <2>1, <2>2, <2>3, <2>4, <2>6, <2>7
<1> QED
  BY <1>1, <1>4

-----------------------------------------------------------------------------
IInv == TypeOK /\ UpgradeConserves /\ SupplyCapped

LEMMA InitIInv == Init => IInv
<1> SUFFICES ASSUME Init PROVE IInv
  OBVIOUS
<1>1. PICK held \in Holdings :
        /\ ronin = [r \in Ronin |-> [h \in Holder |->
                      IF h \in User THEN held.old[r][h] ELSE [id \in OldId |-> 0]]]
        /\ chips = [h \in Holder |->
                      IF h \in User THEN held.chips[h] ELSE [c \in Chip |-> 0]]
  BY DEF Init
<1>2. /\ held.old \in [Ronin -> [User -> [OldId -> Nat]]]
      /\ held.chips \in [User -> [Chip -> Nat]]
  BY MintAssumption
<1>3. /\ ronin \in [Ronin -> [Holder -> [OldId -> Nat]]]
      /\ chips \in [Holder -> [Chip -> Nat]]
  BY <1>1, <1>2
<1>4. TypeOK
  BY <1>3, MintAssumption DEF Init, TypeOK
<1>5. BurntTokens = 0
  <2> DEFINE K == Ronin \X OldId
             f == [x \in K |-> ronin[x[1]][Dead][x[2]]]
  <2>1. IsFiniteSet(K)
    BY MintAssumption, FS_Product
  <2>2. \A x \in K : f[x] = 0
    BY <1>1, HoldersDiffer
  <2>3. SumFunctionOnSet(f, K) = Cardinality(K) * 0
    <3> HIDE DEF f, K
    <3> QED
      BY <2>1, <2>2, SumConstant
  <2>4. Cardinality(K) \in Nat
    BY <2>1, FS_CardinalityType
  <2>5. SumFunctionOnSet(f, K) = 0
    BY <2>3, <2>4
  <2> QED
    BY <2>5 DEF BurntTokens, SumFunction
<1>6. Supply(ownerOf) = {}
  BY MintAssumption DEF Init, Supply, Holder
<1>7. totalSupply = 0
  BY <1>6, FS_EmptySet DEF totalSupply, Supply
<1> QED
  BY <1>4, <1>5, <1>7, MintAssumption DEF Init, IInv, UpgradeConserves, SupplyCapped

LEMMA BurntTokensType == ASSUME TypeOK PROVE BurntTokens \in Nat
<1> DEFINE K == Ronin \X OldId
           f == [x \in K |-> ronin[x[1]][Dead][x[2]]]
<1>1. IsFiniteSet(K)
  BY MintAssumption, FS_Product
<1>2. \A x \in K : f[x] \in Nat
  BY HoldersDiffer DEF TypeOK
<1>3. SumFunctionOnSet(f, K) \in Nat
  <2> HIDE DEF f, K
  <2> QED
    BY <1>1, <1>2, SumOfNaturals
<1> QED
  BY <1>3 DEF BurntTokens, SumFunction

LEMMA NextIInv == IInv /\ [Next]_vars => IInv'
<1> SUFFICES ASSUME IInv, [Next]_vars PROVE IInv'
  OBVIOUS
<1>1. TypeOK /\ UpgradeConserves /\ SupplyCapped
  BY DEF IInv
<1>2. BurntTokens \in Nat /\ totalSupply \in Nat /\ MAX_SUPPLY \in Nat
  BY <1>1, BurntTokensType, SupplyType, MintAssumption DEF totalSupply, Supply
<1>3. UNCHANGED ronin => BurntTokens' = BurntTokens
  BY BurntStay
<1>4. UNCHANGED ownerOf => totalSupply' = totalSupply
  BY DEF totalSupply
<1>5. ASSUME TypeOK', UNCHANGED <<ownerOf, nextId, ordered>>, BurntTokens' = BurntTokens
      PROVE  IInv'
  BY <1>1, <1>4, <1>5 DEF IInv, UpgradeConserves, SupplyCapped
<1>6. ASSUME NEW m \in User, NEW to \in User, NEW q \in 1 .. MaxBatch, Order(m, to, q)
      PROVE  IInv'
  <2>1. q \in Nat
    BY MintAssumption
  <2>2. /\ ownerOf' \in [Token -> User \cup {Dead, NoOne}]
        /\ nextId' \in 1 .. MaxMinted + 1 /\ nextId' = nextId + q
        /\ minters' = minters
        /\ totalSupply' <= MAX_SUPPLY
    BY <1>1, <1>6, <2>1, MintEffect DEF Order
  <2>3. ordered' = ordered + q /\ UNCHANGED <<ronin, chips, approved, roninContract, owner>>
    BY <1>6 DEF Order
  <2>4. TypeOK'
    BY <1>1, <2>1, <2>2, <2>3 DEF TypeOK
  <2>5. UpgradeConserves'
    BY <1>1, <1>2, <1>3, <2>1, <2>2, <2>3 DEF TypeOK, UpgradeConserves
  <2> QED
    BY <2>2, <2>4, <2>5 DEF IInv, SupplyCapped
<1>7. ASSUME NEW u \in User, NEW ids \in Batch(OldId), ArtUpgrade(u, ids) PROVE IInv'
  <2> DEFINE q == Total(Burnt(u, ids))
  <2>1. q \in Nat /\ q = Total(Balances(u, ids))
    BY <1>1, BurntType
  <2>2. /\ SafeMint(Transform, u, q)
        /\ UNCHANGED <<ordered, chips, approved, roninContract, owner>>
    BY <1>7, <2>1 DEF ArtUpgrade
  <2>3. /\ ronin' \in [Ronin -> [Holder -> [OldId -> Nat]]]
        /\ BurntTokens' = BurntTokens + q
    BY <1>1, <1>7, UpgradeBurns
  <2> HIDE DEF q
  <2>4. /\ ownerOf' \in [Token -> User \cup {Dead, NoOne}]
        /\ nextId' \in 1 .. MaxMinted + 1 /\ nextId' = nextId + q
        /\ minters' = minters
        /\ totalSupply' <= MAX_SUPPLY
    BY <1>1, <2>1, <2>2, MintEffect
  <2>5. TypeOK'
    BY <1>1, <2>2, <2>3, <2>4 DEF TypeOK
  <2>6. UpgradeConserves'
    BY <1>1, <1>2, <2>1, <2>2, <2>3, <2>4 DEF TypeOK, UpgradeConserves
  <2> QED
    BY <2>4, <2>5, <2>6 DEF IInv, SupplyCapped
<1>8. ASSUME NEW u \in User, NEW t \in Token, NEW to \in User \cup {Dead}, Move(u, t, to)
      PROVE  IInv'
  <2>1. /\ ownerOf' \in [Token -> User \cup {Dead, NoOne}]
        /\ totalSupply' <= totalSupply
    BY <1>1, <1>8, MoveEffect
  <2>2. UNCHANGED <<minters, nextId, ordered, ronin, chips, approved, roninContract, owner>>
    BY <1>8 DEF Move
  <2>3. TypeOK'
    BY <1>1, <2>1, <2>2 DEF TypeOK
  <2>4. totalSupply' \in Nat
    BY SupplyType DEF totalSupply, Supply
  <2> QED
    BY <1>1, <1>2, <1>3, <2>1, <2>2, <2>3, <2>4 DEF IInv, UpgradeConserves, SupplyCapped
<1>9. ASSUME NEW u \in User, NEW tokens, NEW named \in Batch(Chip \cup {0}),
             ReRoll(u, tokens, named)
      PROVE  IInv'
  <2>1. chips' \in [Holder -> [Chip -> Nat]]
    BY <1>1, <1>9, ReRollEffect
  <2>2. UNCHANGED <<collection, ronin, approved, roninContract, owner>>
    BY <1>9 DEF ReRoll
  <2> QED
    BY <1>1, <1>3, <1>5, <2>1, <2>2 DEF TypeOK, collection
<1>10. ASSUME NEW r \in Ronin, NEW u \in User, NEW v \in User, NEW id \in OldId,
              GiveRonin(r, u, v, id)
       PROVE  IInv'
  <2>1. u \in Holder /\ v \in Holder /\ u # Dead /\ v # Dead /\ Dead \in Holder
    BY HoldersDiffer
  <2>2. /\ ronin \in [Ronin -> [Holder -> [OldId -> Nat]]]
        /\ u # v /\ ronin[r][u][id] >= 1
        /\ ronin' = [ronin EXCEPT ![r][u][id] = @ - 1, ![r][v][id] = @ + 1]
    BY <1>1, <1>10 DEF GiveRonin, TypeOK
  <2>3. ronin' \in [Ronin -> [Holder -> [OldId -> Nat]]]
    BY <2>1, <2>2
  <2>4. \A s \in Ronin, k \in OldId : ronin'[s][Dead][k] = ronin[s][Dead][k]
    BY <2>1, <2>2
  <2>5. BurntTokens' = BurntTokens
    BY <2>4, BurntStay
  <2> QED
    BY <1>1, <1>5, <1>10, <2>3, <2>5 DEF TypeOK, GiveRonin, collection
<1>11. ASSUME NEW u \in User, NEW v \in User, NEW c \in Chip, GiveChip(u, v, c)
       PROVE  IInv'
  <2>1. u \in Holder /\ v \in Holder
    BY HoldersDiffer
  <2>2. /\ chips \in [Holder -> [Chip -> Nat]]
        /\ u # v /\ chips[u][c] >= 1
        /\ chips' = [chips EXCEPT ![u][c] = @ - 1, ![v][c] = @ + 1]
    BY <1>1, <1>11 DEF GiveChip, TypeOK
  <2>3. chips' \in [Holder -> [Chip -> Nat]]
    <3>1. chips[u][c] - 1 \in Nat /\ chips[v][c] + 1 \in Nat
      BY <2>1, <2>2
    <3>2. PICK a, b : /\ a = [chips[u] EXCEPT ![c] = chips[u][c] - 1]
                      /\ b = [chips[v] EXCEPT ![c] = chips[v][c] + 1]
      OBVIOUS
    <3>3. a \in [Chip -> Nat] /\ b \in [Chip -> Nat]
      BY <2>1, <2>2, <3>1, <3>2
    <3>4. chips' = [chips EXCEPT ![u] = a, ![v] = b]
      BY <2>1, <2>2, <3>2
    <3> QED
      BY <2>1, <2>2, <3>3, <3>4
  <2> QED
    BY <1>1, <1>3, <1>5, <1>11, <2>3 DEF TypeOK, GiveChip, collection
<1>12. ASSUME NEW m \in User \cup {Transform}, AddMinter(m) \/ RemoveMinter(m) PROVE IInv'
  BY <1>1, <1>3, <1>5, <1>12 DEF TypeOK, AddMinter, RemoveMinter
<1>13. ASSUME NEW r \in Ronin, SetRagnarokAddress(r) PROVE IInv'
  BY <1>1, <1>3, <1>5, <1>13 DEF TypeOK, SetRagnarokAddress, collection
<1>14. ASSUME NEW u \in User \cup {NoOne}, SetOwner(u) PROVE IInv'
  BY <1>1, <1>3, <1>5, <1>14 DEF TypeOK, SetOwner, collection
<1>15. ASSUME NEW u \in User, NEW given \in BOOLEAN, SetApproval(u, given) PROVE IInv'
  BY <1>1, <1>3, <1>5, <1>15 DEF TypeOK, SetApproval, collection
<1>16. CASE UNCHANGED vars
  BY <1>1, <1>3, <1>5, <1>16 DEF TypeOK, vars, collection
<1> QED
  BY <1>6, <1>7, <1>8, <1>9, <1>10, <1>11, <1>12, <1>13, <1>14, <1>15, <1>16 DEF Next

LEMMA Inductive == Spec => []IInv
BY InitIInv, NextIInv, PTL DEF Spec

-----------------------------------------------------------------------------
\* Every state is well typed: no ledger of old tokens or chips is overdrawn,
\* whatever ids a batch names twice.
THEOREM TypeCorrect == Spec => []TypeOK
BY Inductive, PTL DEF IInv

\* As many new tokens are minted as were ordered by other minters and paid for
\* with old tokens at the burn address (RagnarokTransform.sol, artUpgrade).
THEOREM MintedIsPaidFor == Spec => []UpgradeConserves
BY Inductive, PTL DEF IInv

\* No order, upgrade, transfer or burn takes the supply over MAX_SUPPLY
\* (SevenSevenBit.sol:66), whoever the minters are.
THEOREM SupplyStaysCapped == Spec => []SupplyCapped
BY Inductive, PTL DEF IInv

\* A re-roll takes each chip it names from its sender, once for each time it
\* is named, and gives it to the owner of the transform.
THEOREM ChipsArePaid == Spec => ReRollPaysChips
<1> DEFINE
  Pays == \A u \in User, tokens \in Batch(Token), named \in Batch(Chip \cup {0}) :
            ReRoll(u, tokens, named) =>
              \A c \in Chip :
                /\ chips[u][c] - chips'[u][c] = NamedTimes(named, c)
                /\ chips'[owner][c] - chips[owner][c] = NamedTimes(named, c)
<1>1. ASSUME IInv, [Next]_vars, chips' # chips
      PROVE  Pays /\ chips'[Transform] = chips[Transform]
  <2>1. TypeOK
    BY <1>1 DEF IInv
  <2>2. Pays
    BY <1>1, <2>1, ReRollEffect
  <2>3. ASSUME NEW u \in User, NEW v \in User, NEW c \in Chip, GiveChip(u, v, c)
        PROVE  chips'[Transform] = chips[Transform]
    <3>1. u # Transform /\ v # Transform /\ Transform \in Holder
      BY HoldersDiffer
    <3>2. chips \in [Holder -> [Chip -> Nat]]
      BY <2>1 DEF TypeOK
    <3> QED
      BY <2>3, <3>1, <3>2 DEF GiveChip
  <2>4. ASSUME NEW u \in User, NEW tokens, NEW named \in Batch(Chip \cup {0}),
               ReRoll(u, tokens, named)
        PROVE  chips'[Transform] = chips[Transform]
    BY <1>1, <2>1, <2>4, ReRollEffect
  <2>5. \/ \E u, v \in User, c \in Chip : GiveChip(u, v, c)
        \/ \E u \in User, tokens \in Batch(Token), named \in Batch(Chip \cup {0}) :
             ReRoll(u, tokens, named)
    <3>1. \A m, to, q : Order(m, to, q) \/ Move(m, to, q) => chips' = chips
      BY DEF Order, Move
    <3>2. \A m : AddMinter(m) \/ RemoveMinter(m) => chips' = chips
      BY DEF AddMinter, RemoveMinter
    <3>3. \A u, ids : ArtUpgrade(u, ids) \/ SetApproval(u, ids) => chips' = chips
      BY DEF ArtUpgrade, SetApproval
    <3>4. \A r : SetRagnarokAddress(r) \/ SetOwner(r) => chips' = chips
      BY DEF SetRagnarokAddress, SetOwner
    <3>5. \A r, u, v, id : GiveRonin(r, u, v, id) => chips' = chips
      BY DEF GiveRonin
    <3>6. ~ UNCHANGED vars
      BY <1>1 DEF vars
    <3> QED BY <1>1, <3>1, <3>2, <3>3, <3>4, <3>5, <3>6 DEF Next
  <2> HIDE DEF Pays
  <2> QED
    BY <2>2, <2>3, <2>4, <2>5
<1>2. IInv /\ [Next]_vars => [chips' # chips => Pays /\ chips'[Transform] = chips[Transform]]_vars
  BY <1>1
<1> QED
  BY <1>2, Inductive, PTL DEF Spec, ReRollPaysChips

=============================================================================
