---------------------------- MODULE RagnarokMint ----------------------------
(***************************************************************************)
(* RagnarokTransform and the collection it mints, SevenSevenBit: old       *)
(* tokens are upgraded to new ones, new ones are re-rolled with chips.     *)
(* An action is one transaction.                                           *)
(*                                                                         *)
(* External: the ERC1155 ledgers of old tokens and chips, ERC721A.  Left   *)
(* out are setSevenSevenBitAddress, setSldChipAddress, upgrades, transfers *)
(* straight to the burn address and recipients that are contracts.         *)
(***************************************************************************)
EXTENDS Integers, FiniteSets, Sequences, Functions

CONSTANTS
  User,
  Dead,            \* BURN_ADDRESS
  Transform,       \* the address of RagnarokTransform
  NoOne,           \* the zero address
  CollectionOwner, \* owner of SevenSevenBit
  Ronin,           \* collections of old tokens
  OldId,           \* their ids
  FirstRonin,
  Chip,            \* ids of chips; 0 stands for no chip
  Holdings,        \* what users may own of old tokens and chips at first
  MAX_SUPPLY,
  MaxBatch,        \* bound: ids in a call, tokens in an order
  MaxMinted        \* bound: tokens minted in all

Holder == User \cup {Dead, Transform}
Token == 1 .. MaxMinted

ASSUME MintAssumption ==
  /\ CollectionOwner \in User
  /\ FirstRonin \in Ronin
  /\ NoOne \notin Holder /\ Dead \notin User /\ Transform \notin User
  /\ Dead # Transform
  /\ Holdings \subseteq [old : [Ronin -> [User -> [OldId -> Nat]]],
                         chips : [User -> [Chip -> Nat]]]
  /\ 0 \notin Chip
  /\ IsFiniteSet(Ronin) /\ IsFiniteSet(OldId)
  /\ MAX_SUPPLY \in Nat /\ MaxBatch \in Nat /\ MaxMinted \in Nat

VARIABLES
  minters,        \* SevenSevenBit.minters
  ownerOf,        \* holder of each new token; NoOne before mint, Dead once burnt
  nextId,         \* ERC721A's next id
  ronin,          \* [Ronin -> [Holder -> [OldId -> Nat]]]
  chips,          \* [Holder -> [Chip -> Nat]]
  approved,       \* users that let the transform move their old tokens and chips
  roninContract,
  owner,          \* owner of the transform; NoOne after renounceOwnership
  ordered         \* history: tokens minted by other minters

collection == <<minters, ownerOf, nextId, ordered>>
vars == <<collection, ronin, chips, approved, roninContract, owner>>

-----------------------------------------------------------------------------
\* safeBatchTransferFrom of the ids and amounts at some indices, id after id: a
\* transfer to oneself gives back what it takes before the next id is looked at.
NamedTimes(ids, id) == Cardinality({i \in DOMAIN ids : ids[i] = id})
AmountOf(ids, amounts, id) ==
  SumFunctionOnSet(amounts, {i \in DOMAIN ids : ids[i] = id})

BatchCovered(ledger, from, to, ids, amounts) ==
  \A i \in DOMAIN ids :
    IF from = to THEN amounts[i] <= ledger[from][ids[i]]
    ELSE AmountOf(ids, amounts, ids[i]) <= ledger[from][ids[i]]

BatchMoved(ledger, from, to, ids, amounts) ==
  IF from = to THEN ledger
  ELSE [ledger EXCEPT
         ![from] = [id \in DOMAIN @ |-> @[id] - AmountOf(ids, amounts, id)],
         ![to] = [id \in DOMAIN @ |-> @[id] + AmountOf(ids, amounts, id)]]

-----------------------------------------------------------------------------
totalSupply == Cardinality({t \in Token : ownerOf[t] \in User})

\* (The mutant compares before it adds.)
BelowCap(quantity) == totalSupply < MAX_SUPPLY
UnderCap(quantity) == totalSupply + quantity <= MAX_SUPPLY

\* ERC721A mints consecutive ids, at least one.
NewTokens(quantity) == nextId .. nextId + quantity - 1

SafeMint(minter, to, quantity) ==
  /\ minter \in minters
  /\ UnderCap(quantity)
  /\ quantity > 0
  /\ nextId + quantity - 1 <= MaxMinted
  /\ ownerOf' = [t \in Token |-> IF t \in NewTokens(quantity) THEN to ELSE ownerOf[t]]
  /\ nextId' = nextId + quantity
  /\ UNCHANGED minters

\* safeMint by a minter that is not the transform.
Order(minter, to, quantity) ==
  /\ SafeMint(minter, to, quantity)
  /\ ordered' = ordered + quantity
  /\ UNCHANGED <<ronin, chips, approved, roninContract, owner>>

AddMinter(m) ==
  /\ minters' = minters \cup {m}
  /\ UNCHANGED <<ownerOf, nextId, ordered, ronin, chips, approved, roninContract,
                 owner>>

RemoveMinter(m) ==
  /\ minters' = minters \ {m}
  /\ UNCHANGED <<ownerOf, nextId, ordered, ronin, chips, approved, roninContract,
                 owner>>

\* transferFrom and, to Dead, burn.
Move(u, t, to) ==
  /\ ownerOf[t] = u
  /\ ownerOf' = [ownerOf EXCEPT ![t] = to]
  /\ UNCHANGED <<minters, nextId, ordered, ronin, chips, approved, roninContract,
                 owner>>

-----------------------------------------------------------------------------
Balances(u, ids) == [i \in DOMAIN ids |-> ronin[roninContract][u][ids[i]]]

\* The whole balance of each id is burnt.  (The mutant burns one of each.)
OneOfEach(u, ids) == [i \in DOMAIN ids |-> 1]
Burnt(u, ids) == Balances(u, ids)

Total(amounts) == SumFunction(amounts)

ArtUpgrade(u, ids) ==
  /\ \A i \in DOMAIN ids : Balances(u, ids)[i] > 0
  /\ u \in approved
  /\ BatchCovered(ronin[roninContract], u, Dead, ids, Burnt(u, ids))
  /\ ronin' = [ronin EXCEPT
       ![roninContract] = BatchMoved(@, u, Dead, ids, Burnt(u, ids))]
  /\ SafeMint(Transform, u, Total(Balances(u, ids)))
  /\ UNCHANGED <<ordered, chips, approved, roninContract, owner>>

\* The chips named, those that are 0 left out.  (The mutant takes an id that is
\* named twice once.)
OnceEach(named) ==
  [i \in {j \in DOMAIN named : named[j] # 0 /\ \A k \in 1 .. j - 1 : named[k] # named[j]}
     |-> named[i]]
ChipsToBurn(named) == [i \in {j \in DOMAIN named : named[j] # 0} |-> named[i]]
Ones(ids) == [i \in DOMAIN ids |-> 1]

\* The loop checks each chip alone; the transfer checks them together.
ReRoll(u, tokens, named) ==
  LET taken == ChipsToBurn(named)
  IN  /\ Len(tokens) = Len(named)
      /\ \A i \in DOMAIN tokens : ownerOf[tokens[i]] = u
      /\ \A i \in DOMAIN named : named[i] # 0 => chips[u][named[i]] >= 1
      /\ DOMAIN taken # {} =>
           /\ u \in approved
           /\ owner # NoOne
           /\ BatchCovered(chips, u, owner, taken, Ones(taken))
      /\ chips' = IF DOMAIN taken = {} THEN chips
                  ELSE BatchMoved(chips, u, owner, taken, Ones(taken))
      /\ UNCHANGED <<collection, ronin, approved, roninContract, owner>>

-----------------------------------------------------------------------------
SetRagnarokAddress(r) ==
  /\ owner # NoOne
  /\ roninContract' = r
  /\ UNCHANGED <<collection, ronin, chips, approved, owner>>

\* transferOwnership, renounceOwnership.
SetOwner(u) ==
  /\ owner # NoOne
  /\ owner' = u
  /\ UNCHANGED <<collection, ronin, chips, approved, roninContract>>

\* External: setApprovalForAll and transfers of old tokens and chips.
SetApproval(u, given) ==
  /\ approved' = IF given THEN approved \cup {u} ELSE approved \ {u}
  /\ UNCHANGED <<collection, ronin, chips, roninContract, owner>>

GiveRonin(r, u, v, id) ==
  /\ u # v /\ ronin[r][u][id] >= 1
  /\ ronin' = [ronin EXCEPT ![r][u][id] = @ - 1, ![r][v][id] = @ + 1]
  /\ UNCHANGED <<collection, chips, approved, roninContract, owner>>

GiveChip(u, v, c) ==
  /\ u # v /\ chips[u][c] >= 1
  /\ chips' = [chips EXCEPT ![u][c] = @ - 1, ![v][c] = @ + 1]
  /\ UNCHANGED <<collection, ronin, approved, roninContract, owner>>

Init ==
  /\ minters = {CollectionOwner}
  /\ ownerOf = [t \in Token |-> NoOne]
  /\ nextId = 1
  /\ \E held \in Holdings :
       /\ ronin = [r \in Ronin |-> [h \in Holder |->
                     IF h \in User THEN held.old[r][h] ELSE [id \in OldId |-> 0]]]
       /\ chips = [h \in Holder |->
                     IF h \in User THEN held.chips[h] ELSE [c \in Chip |-> 0]]
  /\ approved = {}
  /\ roninContract = FirstRonin
  /\ owner \in User
  /\ ordered = 0

Batch(S) == UNION {[1 .. n -> S] : n \in 0 .. MaxBatch}

Next ==
  \/ \E m, to \in User, q \in 1 .. MaxBatch : Order(m, to, q)
  \/ \E m \in User \cup {Transform} : AddMinter(m) \/ RemoveMinter(m)
  \/ \E u \in User, t \in Token, to \in User \cup {Dead} : Move(u, t, to)
  \/ \E u \in User, ids \in Batch(OldId) : ArtUpgrade(u, ids)
  \/ \E u \in User, tokens \in Batch(Token), named \in Batch(Chip \cup {0}) :
       ReRoll(u, tokens, named)
  \/ \E r \in Ronin : SetRagnarokAddress(r)
  \/ \E u \in User \cup {NoOne} : SetOwner(u)
  \/ \E u \in User, given \in BOOLEAN : SetApproval(u, given)
  \/ \E r \in Ronin, u, v \in User, id \in OldId : GiveRonin(r, u, v, id)
  \/ \E u, v \in User, c \in Chip : GiveChip(u, v, c)

Spec == Init /\ [][Next]_vars

-----------------------------------------------------------------------------
(***************************************************************************)
(* Types; among them that no ledger is overdrawn, whatever ids a batch     *)
(* names twice.                                                            *)
(***************************************************************************)
TypeOK ==
  /\ minters \subseteq User \cup {Transform}
  /\ ownerOf \in [Token -> User \cup {Dead, NoOne}]
  /\ nextId \in 1 .. MaxMinted + 1
  /\ ronin \in [Ronin -> [Holder -> [OldId -> Nat]]]
  /\ chips \in [Holder -> [Chip -> Nat]]
  /\ approved \subseteq User
  /\ roninContract \in Ronin
  /\ owner \in User \cup {NoOne}
  /\ ordered \in Nat

(***************************************************************************)
(* Every new token was ordered by a minter or paid for with one old token  *)
(* at the burn address (README: the amount minted is equal to the amount   *)
(* burnt), whatever ids are named twice and however often the owner        *)
(* exchanges the old collection.                                           *)
(***************************************************************************)
BurntTokens ==
  SumFunction([x \in Ronin \X OldId |-> ronin[x[1]][Dead][x[2]]])

UpgradeConserves == nextId - 1 = ordered + BurntTokens

(***************************************************************************)
(* The supply is capped (SevenSevenBit.sol:66), whoever mints: a batch or  *)
(* an upgrade cannot jump over the cap, and a burn makes room for exactly  *)
(* one token under a new id.                                               *)
(***************************************************************************)
SupplyCapped == totalSupply <= MAX_SUPPLY

(***************************************************************************)
(* Each chip that a ReRoll event names was paid by its sender, one for     *)
(* each time it is named (RagnarokTransform.sol:95 asks for each alone).   *)
(* The chips go to the owner (line 123), who may use them again and does   *)
(* not pay for himself; README.md:28 of the contracts says that they are   *)
(* locked on the transform contract's address, which never gets any.       *)
(***************************************************************************)
ReRollPaysChips ==
  [][chips' # chips =>
       /\ \A u \in User, tokens \in Batch(Token), named \in Batch(Chip \cup {0}) :
            ReRoll(u, tokens, named) =>
              \A c \in Chip :
                /\ chips[u][c] - chips'[u][c] = NamedTimes(named, c)
                /\ chips'[owner][c] - chips[owner][c] = NamedTimes(named, c)
       /\ chips'[Transform] = chips[Transform]]_vars

=============================================================================
