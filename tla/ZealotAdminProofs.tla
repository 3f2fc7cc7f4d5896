------------------------- MODULE ZealotAdminProofs --------------------------
(***************************************************************************)
(* Who may configure zealot_nft, for any accounts, mints and widths: the   *)
(* types, the exact conversion rate, and what no sequence of instructions  *)
(* changes.                                                                *)
(***************************************************************************)
EXTENDS ZealotAdmin, SumTheorems

-----------------------------------------------------------------------------
(***************************************************************************)
(* Powers of ten.  The recursive function is shown to exist by following   *)
(* the recursion up to every n, by induction (see SumTheorems).            *)
(***************************************************************************)
PowersUpTo(h, n) ==
  /\ h \in [0 .. n -> Nat \ {0}]
  /\ h[0] = 1
  /\ \A k \in 1 .. n : h[k] = 10 * h[k - 1]

LEMMA PowersExist == \A n \in Nat : \E h : PowersUpTo(h, n)
  <1> DEFINE T == {n \in Nat : ~ \E h : PowersUpTo(h, n)}
  <1>1. SUFFICES ASSUME T # {} PROVE FALSE
    OBVIOUS
  <1>2. PICK n \in T : \A m \in T : n <= m
    BY <1>1, LeastNatural
  <1>3. n # 0
    <2>1. PowersUpTo([k \in 0 .. 0 |-> 1], 0)
      BY DEF PowersUpTo
    <2> QED BY <1>2, <2>1
  <1>4. PICK h : PowersUpTo(h, n - 1)
    BY <1>2, <1>3
  <1> DEFINE g == [k \in 0 .. n |-> IF k = n THEN 10 * h[n - 1] ELSE h[k]]
  <1>5. PowersUpTo(g, n)
    <2>1. n \in Nat
      OBVIOUS
    <2> HIDE DEF T
    <2>2. h[n - 1] \in Nat \ {0}
      BY <1>3, <1>4, <2>1 DEF PowersUpTo
    <2>3. g \in [0 .. n -> Nat \ {0}]
      BY <1>4, <2>1, <2>2 DEF PowersUpTo
    <2>4. g[0] = 1
      BY <1>3, <1>4, <2>1 DEF PowersUpTo
    <2>5. \A k \in 1 .. n : g[k] = 10 * g[k - 1]
      BY <1>3, <1>4, <2>1 DEF PowersUpTo
    <2> QED BY <2>3, <2>4, <2>5 DEF PowersUpTo
  <1> QED BY <1>5

LEMMA PowersAgree ==
  ASSUME NEW m \in Nat, NEW n \in Nat, NEW h, NEW g, PowersUpTo(h, m), PowersUpTo(g, n)
  PROVE  \A k \in 0 .. m : k <= n => h[k] = g[k]
  <1> DEFINE T == {k \in 0 .. m : k <= n /\ h[k] # g[k]}
  <1>1. SUFFICES ASSUME T # {} PROVE FALSE
    OBVIOUS
  <1>2. T \subseteq Nat
    OBVIOUS
  <1>3. PICK k \in T : \A j \in T : k <= j
    <2> HIDE DEF T
    <2> QED BY <1>1, <1>2, LeastNatural
  <1>4. k \in 0 .. m /\ k <= n /\ h[k] # g[k] /\ k \in Nat
    OBVIOUS
  <1>5. k # 0
    BY <1>4 DEF PowersUpTo
  <1>6. k - 1 \notin T /\ k - 1 \in 0 .. m /\ k - 1 <= n
    BY <1>3, <1>4, <1>5
  <1>7. h[k - 1] = g[k - 1]
    BY <1>6
  <1> HIDE DEF T
  <1> QED BY <1>4, <1>5, <1>7 DEF PowersUpTo

LEMMA PowerOfTenIs ==
  /\ PowerOfTen \in [Nat -> Nat \ {0}]
  /\ PowerOfTen[0] = 1
  /\ \A n \in Nat : PowerOfTen[n + 1] = 10 * PowerOfTen[n]
  <1> DEFINE H(n) == CHOOSE h : PowersUpTo(h, n)
             P == [n \in Nat |-> H(n)[n]]
  <1>1. \A n \in Nat : PowersUpTo(H(n), n)
    BY PowersExist
  <1> HIDE DEF H
  <1>2. \A n \in Nat : P[n] \in Nat \ {0}
    BY <1>1 DEF PowersUpTo
  <1>3. P[0] = 1
    BY <1>1 DEF PowersUpTo
  <1>4. ASSUME NEW n \in Nat PROVE P[n + 1] = 10 * P[n]
    <2>1. PowersUpTo(H(n), n) /\ PowersUpTo(H(n + 1), n + 1)
      BY <1>1
    <2>2. H(n)[n] = H(n + 1)[n]
      BY <2>1, PowersAgree
    <2>3. H(n + 1)[n + 1] = 10 * H(n + 1)[n]
      BY <2>1 DEF PowersUpTo
    <2> QED BY <2>2, <2>3
  <1>5. P = [n \in Nat |-> IF n = 0 THEN 1 ELSE 10 * P[n - 1]]
    <2>1. ASSUME NEW n \in Nat PROVE P[n] = IF n = 0 THEN 1 ELSE 10 * P[n - 1]
      <3>1. CASE n = 0
        BY <1>3, <3>1
      <3>2. CASE n # 0
        <4>1. n - 1 \in Nat /\ (n - 1) + 1 = n
          BY <3>2
        <4> HIDE DEF P
        <4> QED BY <1>4, <3>2, <4>1
      <3> QED BY <3>1, <3>2
    <2> QED BY <2>1
  <1> HIDE DEF P
  <1>6. PowerOfTen = [n \in Nat |-> IF n = 0 THEN 1 ELSE 10 * PowerOfTen[n - 1]]
    BY <1>5 DEF PowerOfTen
  <1> HIDE DEF PowerOfTen
  <1>7. PowerOfTen[0] = 1
    BY <1>6
  <1>8. \A n \in Nat : PowerOfTen[n + 1] = 10 * PowerOfTen[n]
    BY <1>6
  <1>9. \A n \in Nat : PowerOfTen[n] \in Nat \ {0}
    <2> DEFINE T == {n \in Nat : PowerOfTen[n] \notin Nat \ {0}}
    <2>1. SUFFICES ASSUME T # {} PROVE FALSE
      OBVIOUS
    <2>2. PICK n \in T : \A m \in T : n <= m
      BY <2>1, LeastNatural
    <2>3. n # 0
      BY <1>7, <2>2
    <2>4. PowerOfTen[n - 1] \in Nat \ {0}
      BY <2>2, <2>3
    <2> QED BY <1>6, <2>2, <2>3, <2>4
  <1> QED BY <1>6, <1>7, <1>8, <1>9

LEMMA PowerOfSum ==
  ASSUME NEW a \in Nat, NEW b \in Nat
  PROVE  PowerOfTen[a + b] = PowerOfTen[a] * PowerOfTen[b]
  <1> DEFINE T == {n \in Nat : PowerOfTen[a + n] # PowerOfTen[a] * PowerOfTen[n]}
  <1>1. SUFFICES ASSUME T # {} PROVE FALSE
    OBVIOUS
  <1>2. PICK n \in T : \A m \in T : n <= m
    BY <1>1, LeastNatural
  <1>3. \A m \in Nat : PowerOfTen[m] \in Nat
    BY PowerOfTenIs
  <1>4. n # 0
    BY <1>2, <1>3, PowerOfTenIs
  <1>5. n - 1 \in Nat /\ n - 1 \notin T /\ n \in Nat
    BY <1>2, <1>4
  <1> DEFINE p == PowerOfTen[a]
             q == PowerOfTen[n - 1]
  <1>6. PowerOfTen[a + (n - 1)] = p * q
    BY <1>5
  <1>7. PowerOfTen[a + n] = 10 * PowerOfTen[a + (n - 1)] /\ PowerOfTen[n] = 10 * q
    <2>1. a + (n - 1) \in Nat /\ (a + (n - 1)) + 1 = a + n /\ (n - 1) + 1 = n
      BY <1>5
    <2> QED BY <1>5, <2>1, PowerOfTenIs
  <1>8. p \in Nat /\ q \in Nat
    BY <1>3, <1>5
  <1> HIDE DEF p, q
  <1>9. 10 * (p * q) = p * (10 * q)
    BY <1>8
  <1> QED BY <1>2, <1>6, <1>7, <1>9 DEF p

-----------------------------------------------------------------------------
(***************************************************************************)
(* The inductive invariant: the types, the exact rate, and that an adapter *)
(* has no mint authority, which only its initialisation decides.           *)
(***************************************************************************)
AdapterHasNoAuthority ==
  \A e \in Escrow : Exists(e) => config[e].mint_authority = NoKey

IInv == TypeOK /\ RateIsExact /\ AdapterHasNoAuthority

LEMMA InitIInv == Init => IInv
  BY AdminAssumption
  DEF Init, IInv, TypeOK, RateIsExact, AdapterHasNoAuthority, Exists, Config

\* What no instruction but an initialisation changes of a configuration.
Settled(old, new) ==
  /\ new.shared = old.shared
  /\ new.ld2sd_rate = old.ld2sd_rate

\* The instructions that write a configuration that exists write one field.
LEMMA EditKeeps ==
  ASSUME IInv, NEW c \in Config, Exists(c), NEW new \in ConfigType,
         Settled(config[c], new),
         c # Native => new.mint_authority = config[c].mint_authority,
         config' = [config EXCEPT ![c] = new],
         UNCHANGED <<mint, handedOver, delegate>>,
         issued' \in 0 .. MaxIssued, signers' \subseteq Key
  PROVE  IInv'
  <1>1. config' \in [Config -> ConfigType \cup {NoConfig}] /\ config[c] \in ConfigType
    BY DEF IInv, TypeOK, Exists
  <1>2. TypeOK'
    BY <1>1 DEF IInv, TypeOK
  <1>3. \A d \in Config : config'[d] = IF d = c THEN new ELSE config[d]
    BY DEF IInv, TypeOK
  <1>4. RateIsExact'
    BY <1>3 DEF IInv, RateIsExact, Exists, Settled
  <1>5. AdapterHasNoAuthority'
    <2>1. ASSUME NEW e \in Escrow, Exists(e)' PROVE config'[e].mint_authority = NoKey
      <3>1. e \in Config /\ e # Native
        BY AdminAssumption DEF Config
      <3>2. CASE e = c
        BY <1>3, <3>1, <3>2 DEF IInv, AdapterHasNoAuthority
      <3>3. CASE e # c
        BY <1>3, <2>1, <3>1, <3>3 DEF IInv, AdapterHasNoAuthority, Exists
      <3> QED BY <3>2, <3>3
    <2> QED BY <2>1 DEF AdapterHasNoAuthority
  <1> QED BY <1>2, <1>4, <1>5 DEF IInv

\* A rate that fits is a power of ten, and with the shared decimals it makes
\* up the decimals of the mint.
LEMMA NewConfigExact ==
  ASSUME TypeOK, NEW admin \in Key, NEW shared \in SharedDecimals,
         NEW authority \in Key \cup {NoKey}, RateFits(shared)
  PROVE  LET new == NewConfig(admin, shared, authority)
         IN  /\ new \in ConfigType
             /\ new.ld2sd_rate * PowerOfTen[new.shared] = PowerOfTen[mint.decimals]
             /\ new.mint_authority = authority
  <1>1. mint.decimals \in Nat /\ shared \in Nat
    BY AdminAssumption DEF TypeOK
  <1> DEFINE digits == mint.decimals - shared
  <1>2. digits \in Nat /\ PowerOfTen[digits] <= MaxRate
    BY <1>1 DEF RateFits, LostDigits, RateFor
  <1>3. PowerOfTen[digits] \in 1 .. MaxRate
    BY <1>2, PowerOfTenIs, AdminAssumption
  <1>4. PowerOfTen[digits] * PowerOfTen[shared] = PowerOfTen[mint.decimals]
    <2>1. digits + shared = mint.decimals
      BY <1>1
    <2> HIDE DEF digits
    <2> QED BY <1>1, <1>2, <2>1, PowerOfSum
  <1>5. RateFor(shared) = PowerOfTen[digits]
    BY DEF RateFor, LostDigits
  <1> HIDE DEF digits
  <1> QED BY <1>3, <1>4, <1>5 DEF NewConfig, ConfigType

LEMMA RegisterKeeps ==
  ASSUME IInv, NEW c \in Config, NEW payer \in Key, NEW admin \in Key,
         NEW shared \in SharedDecimals, NEW authority \in Key \cup {NoKey},
         c # Native => authority = NoKey,
         Register(c, payer, admin, shared, authority)
  PROVE  IInv'
  <1> DEFINE new == NewConfig(admin, shared, authority)
  <1>1. /\ new \in ConfigType
        /\ new.ld2sd_rate * PowerOfTen[new.shared] = PowerOfTen[mint.decimals]
        /\ new.mint_authority = authority
    BY NewConfigExact DEF IInv, Register
  <1>2. config' = [config EXCEPT ![c] = new] /\ delegate' = [delegate EXCEPT ![c] = admin]
        /\ signers' = {payer} /\ UNCHANGED <<mint, handedOver, issued>>
    BY DEF Register
  <1> HIDE DEF new
  <1>3. TypeOK'
    BY <1>1, <1>2 DEF IInv, TypeOK
  <1>4. \A d \in Config : config'[d] = IF d = c THEN new ELSE config[d]
    BY <1>2 DEF IInv, TypeOK
  <1>5. RateIsExact'
    BY <1>1, <1>2, <1>4 DEF IInv, RateIsExact, Exists
  <1>6. AdapterHasNoAuthority'
    <2>1. ASSUME NEW e \in Escrow, Exists(e)' PROVE config'[e].mint_authority = NoKey
      <3>1. e \in Config /\ e # Native
        BY AdminAssumption DEF Config
      <3>2. CASE e = c
        BY <1>1, <1>4, <3>1, <3>2
      <3>3. CASE e # c
        BY <1>4, <2>1, <3>1, <3>3 DEF IInv, AdapterHasNoAuthority, Exists
      <3> QED BY <3>2, <3>3
    <2> QED BY <2>1 DEF AdapterHasNoAuthority
  <1> QED BY <1>3, <1>5, <1>6 DEF IInv

-----------------------------------------------------------------------------
LEMMA StepIInv == ASSUME IInv, [Next]_vars PROVE IInv'
  <1> USE DEF Settled
  <1>0. Native \in Config
    BY DEF Config
  <1>1. CASE HandOver
    BY <1>1 DEF HandOver, IInv, TypeOK, RateIsExact, AdapterHasNoAuthority, Exists
  <1>2. ASSUME NEW p \in Key, NEW a \in Key, NEW s \in SharedDecimals,
               NEW m \in Key \cup {NoKey}, InitONft(p, a, s, m)
        PROVE  IInv'
    BY <1>0, <1>2, RegisterKeeps DEF InitONft
  <1>3. ASSUME NEW p \in Key, NEW a \in Key, NEW s \in SharedDecimals,
               NEW e \in Escrow, InitAdapterONft(p, e, a, s)
        PROVE  IInv'
    BY <1>3, RegisterKeeps DEF InitAdapterONft, Config
  <1>4. ASSUME NEW c \in Config, NEW k \in Key, NEW n \in Key, NEW a \in Key,
               TransferAdmin(c, k, n, a)
        PROVE  IInv'
    <2> DEFINE new == [config[c] EXCEPT !.admin = a]
    <2>1. Exists(c) /\ config[c] \in ConfigType
      BY <1>4 DEF TransferAdmin, IsAdmin, Exists, IInv, TypeOK
    <2>2. new \in ConfigType /\ Settled(config[c], new)
          /\ new.mint_authority = config[c].mint_authority
      BY <2>1 DEF ConfigType
    <2>3. /\ config' = [config EXCEPT ![c] = new]
          /\ UNCHANGED <<mint, handedOver, delegate, issued>>
          /\ signers' \subseteq Key
      BY <1>4 DEF TransferAdmin
    <2>4. issued' \in 0 .. MaxIssued
      BY <2>3 DEF IInv, TypeOK
    <2> HIDE DEF new
    <2> QED BY <2>1, <2>2, <2>3, <2>4, EditKeeps
  <1>5. ASSUME NEW c \in Config, NEW k \in Key, NEW p \in PeerAddress, SetPeer(c, k, p)
        PROVE  IInv'
    <2> DEFINE new == [config[c] EXCEPT !.peer = p]
    <2>1. Exists(c) /\ config[c] \in ConfigType
      BY <1>5 DEF SetPeer, IsAdmin, Exists, IInv, TypeOK
    <2>2. new \in ConfigType /\ Settled(config[c], new)
          /\ new.mint_authority = config[c].mint_authority
      BY <2>1 DEF ConfigType
    <2>3. /\ config' = [config EXCEPT ![c] = new]
          /\ UNCHANGED <<mint, handedOver, delegate, issued>>
          /\ signers' \subseteq Key
      BY <1>5 DEF SetPeer
    <2>4. issued' \in 0 .. MaxIssued
      BY <2>3 DEF IInv, TypeOK
    <2> HIDE DEF new
    <2> QED BY <2>1, <2>2, <2>3, <2>4, EditKeeps
  <1>6. ASSUME NEW c \in Config, NEW k \in Key, NEW o \in Options,
               SetEnforcedOptions(c, k, o)
        PROVE  IInv'
    <2> DEFINE new == [config[c] EXCEPT !.enforced_options = o]
    <2>1. Exists(c) /\ config[c] \in ConfigType
      BY <1>6 DEF SetEnforcedOptions, IsAdmin, Exists, IInv, TypeOK
    <2>2. new \in ConfigType /\ Settled(config[c], new)
          /\ new.mint_authority = config[c].mint_authority
      BY <2>1 DEF ConfigType
    <2>3. /\ config' = [config EXCEPT ![c] = new]
          /\ UNCHANGED <<mint, handedOver, delegate, issued>>
          /\ signers' \subseteq Key
      BY <1>6 DEF SetEnforcedOptions
    <2>4. issued' \in 0 .. MaxIssued
      BY <2>3 DEF IInv, TypeOK
    <2> HIDE DEF new
    <2> QED BY <2>1, <2>2, <2>3, <2>4, EditKeeps
  <1>7. ASSUME NEW c \in Config, NEW k \in Key, NEW on \in BOOLEAN, SetRateLimit(c, k, on)
        PROVE  IInv'
    <2> DEFINE new == [config[c] EXCEPT !.rate_limited = on]
    <2>1. Exists(c) /\ config[c] \in ConfigType
      BY <1>7 DEF SetRateLimit, IsAdmin, Exists, IInv, TypeOK
    <2>2. new \in ConfigType /\ Settled(config[c], new)
          /\ new.mint_authority = config[c].mint_authority
      BY <2>1 DEF ConfigType
    <2>3. /\ config' = [config EXCEPT ![c] = new]
          /\ UNCHANGED <<mint, handedOver, delegate, issued>>
          /\ signers' \subseteq Key
      BY <1>7 DEF SetRateLimit
    <2>4. issued' \in 0 .. MaxIssued
      BY <2>3 DEF IInv, TypeOK
    <2> HIDE DEF new
    <2> QED BY <2>1, <2>2, <2>3, <2>4, EditKeeps
  <1>8. ASSUME NEW c \in Config, NEW k \in Key, NEW d \in Key, SetDelegate(c, k, d)
        PROVE  IInv'
    BY <1>8
    DEF SetDelegate, IInv, TypeOK, RateIsExact, AdapterHasNoAuthority, Exists
  <1>9. ASSUME NEW k \in Key, NEW m \in Key \cup {NoKey}, SetMintAuthority(k, m)
        PROVE  IInv'
    <2> DEFINE new == [config[Native] EXCEPT !.mint_authority = m]
    <2>1. Exists(Native) /\ config[Native] \in ConfigType
      BY <1>0, <1>9 DEF SetMintAuthority, IsValidSigner, Exists, IInv, TypeOK
    <2>2. new \in ConfigType /\ Settled(config[Native], new)
      BY <2>1 DEF ConfigType
    <2>3. /\ config' = [config EXCEPT ![Native] = new]
          /\ UNCHANGED <<mint, handedOver, delegate, issued>>
          /\ signers' \subseteq Key
      BY <1>9 DEF SetMintAuthority
    <2>4. issued' \in 0 .. MaxIssued
      BY <2>3 DEF IInv, TypeOK
    <2> HIDE DEF new
    <2> QED BY <1>0, <2>1, <2>2, <2>3, <2>4, EditKeeps
  <1>10. ASSUME NEW k \in Key, MintTo(k) PROVE IInv'
    BY <1>10, AdminAssumption
    DEF MintTo, IInv, TypeOK, RateIsExact, AdapterHasNoAuthority, Exists
  <1>11. CASE UNCHANGED vars
    BY <1>11 DEF vars, IInv, TypeOK, RateIsExact, AdapterHasNoAuthority, Exists
  <1> QED
    BY <1>1, <1>2, <1>3, <1>4, <1>5, <1>6, <1>7, <1>8, <1>9, <1>10, <1>11 DEF Next

LEMMA Invariance == Spec => []IInv
  <1>1. Init => IInv
    BY InitIInv
  <1>2. IInv /\ [Next]_vars => IInv'
    BY StepIInv
  <1> QED BY <1>1, <1>2, PTL DEF Spec

-----------------------------------------------------------------------------
\* What each kind of step does to a configuration that exists.
LEMMA StepOnConfig ==
  ASSUME IInv, [Next]_vars, NEW c \in Config, Exists(c)
  PROVE  /\ Settled(config[c], config'[c])
         /\ \/ /\ config'[c] = config[c]
               /\ delegate'[c] = delegate[c]
            \/ /\ config[c].admin \in signers'
               /\ config'[c].mint_authority = config[c].mint_authority
            \/ /\ c = Native
               /\ config[c].mint_authority # NoKey
               /\ config[c].admin \in signers' \/ config[c].mint_authority \in signers'
               /\ config'[c] = [config[c] EXCEPT !.mint_authority =
                                  config'[c].mint_authority]
  <1> USE DEF Settled
  <1>0. /\ config \in [Config -> ConfigType \cup {NoConfig}]
        /\ delegate \in [Config -> Key \cup {NoKey}]
        /\ config[c] \in ConfigType
    BY DEF IInv, TypeOK, Exists
  <1>1. CASE config' = config /\ delegate' = delegate
    BY <1>1
  <1>2. ASSUME NEW d \in Config, NEW k \in Key, IsAdmin(k, d),
               NEW new \in ConfigType, Settled(config[d], new),
               new.mint_authority = config[d].mint_authority,
               config' = [config EXCEPT ![d] = new], delegate' = delegate, k \in signers'
        PROVE  /\ Settled(config[c], config'[c])
               /\ \/ config'[c] = config[c] /\ delegate'[c] = delegate[c]
                  \/ /\ config[c].admin \in signers'
                     /\ config'[c].mint_authority = config[c].mint_authority
    BY <1>0, <1>2 DEF IsAdmin
  <1>3. ASSUME NEW d \in Config, NEW p \in Key, NEW a \in Key, NEW s \in SharedDecimals,
               NEW m \in Key \cup {NoKey}, Register(d, p, a, s, m)
        PROVE  config'[c] = config[c] /\ delegate'[c] = delegate[c]
    <2>1. c # d
      BY <1>3 DEF Register, Free
    <2> QED BY <1>0, <1>3, <2>1 DEF Register
  <1>4. CASE HandOver
    BY <1>1, <1>4 DEF HandOver
  <1>5. CASE \E p, a \in Key, s \in SharedDecimals, m \in Key \cup {NoKey} :
               InitONft(p, a, s, m)
    BY <1>3, <1>5 DEF InitONft, Config
  <1>6. CASE \E p, a \in Key, s \in SharedDecimals, e \in Escrow :
               InitAdapterONft(p, e, a, s)
    BY <1>3, <1>6 DEF InitAdapterONft, Config
  <1>7. ASSUME NEW d \in Config, NEW k \in Key, NEW n \in Key, NEW a \in Key,
               TransferAdmin(d, k, n, a)
        PROVE  /\ Settled(config[c], config'[c])
               /\ \/ config'[c] = config[c] /\ delegate'[c] = delegate[c]
                  \/ /\ config[c].admin \in signers'
                     /\ config'[c].mint_authority = config[c].mint_authority
    <2>1. config[d] \in ConfigType /\ IsAdmin(k, d)
      BY <1>0, <1>7 DEF TransferAdmin, IsAdmin, Exists
    <2>2. /\ [config[d] EXCEPT !.admin = a] \in ConfigType
          /\ Settled(config[d], [config[d] EXCEPT !.admin = a])
          /\ [config[d] EXCEPT !.admin = a].mint_authority = config[d].mint_authority
      BY <2>1 DEF ConfigType
    <2>3. /\ config' = [config EXCEPT ![d] = [config[d] EXCEPT !.admin = a]]
          /\ delegate' = delegate /\ k \in signers'
      BY <1>7 DEF TransferAdmin
    <2> QED BY <1>2, <2>1, <2>2, <2>3
  <1>8. ASSUME NEW d \in Config, NEW k \in Key, NEW p \in PeerAddress, SetPeer(d, k, p)
        PROVE  /\ Settled(config[c], config'[c])
               /\ \/ config'[c] = config[c] /\ delegate'[c] = delegate[c]
                  \/ /\ config[c].admin \in signers'
                     /\ config'[c].mint_authority = config[c].mint_authority
    <2>1. config[d] \in ConfigType /\ IsAdmin(k, d)
      BY <1>0, <1>8 DEF SetPeer, IsAdmin, Exists
    <2>2. /\ [config[d] EXCEPT !.peer = p] \in ConfigType
          /\ Settled(config[d], [config[d] EXCEPT !.peer = p])
          /\ [config[d] EXCEPT !.peer = p].mint_authority = config[d].mint_authority
      BY <2>1 DEF ConfigType
    <2>3. /\ config' = [config EXCEPT ![d] = [config[d] EXCEPT !.peer = p]]
          /\ delegate' = delegate /\ k \in signers'
      BY <1>8 DEF SetPeer
    <2> QED BY <1>2, <2>1, <2>2, <2>3
  <1>9. ASSUME NEW d \in Config, NEW k \in Key, NEW o \in Options,
               SetEnforcedOptions(d, k, o)
        PROVE  /\ Settled(config[c], config'[c])
               /\ \/ config'[c] = config[c] /\ delegate'[c] = delegate[c]
                  \/ /\ config[c].admin \in signers'
                     /\ config'[c].mint_authority = config[c].mint_authority
    <2>1. config[d] \in ConfigType /\ IsAdmin(k, d)
      BY <1>0, <1>9 DEF SetEnforcedOptions, IsAdmin, Exists
    <2>2. /\ [config[d] EXCEPT !.enforced_options = o] \in ConfigType
          /\ Settled(config[d], [config[d] EXCEPT !.enforced_options = o])
          /\ [config[d] EXCEPT !.enforced_options = o].mint_authority
               = config[d].mint_authority
      BY <2>1 DEF ConfigType
    <2>3. /\ config' = [config EXCEPT ![d] = [config[d] EXCEPT !.enforced_options = o]]
          /\ delegate' = delegate /\ k \in signers'
      BY <1>9 DEF SetEnforcedOptions
    <2> QED BY <1>2, <2>1, <2>2, <2>3
  <1>10. ASSUME NEW d \in Config, NEW k \in Key, NEW on \in BOOLEAN, SetRateLimit(d, k, on)
        PROVE  /\ Settled(config[c], config'[c])
               /\ \/ config'[c] = config[c] /\ delegate'[c] = delegate[c]
                  \/ /\ config[c].admin \in signers'
                     /\ config'[c].mint_authority = config[c].mint_authority
    <2>1. config[d] \in ConfigType /\ IsAdmin(k, d)
      BY <1>0, <1>10 DEF SetRateLimit, IsAdmin, Exists
    <2>2. /\ [config[d] EXCEPT !.rate_limited = on] \in ConfigType
          /\ Settled(config[d], [config[d] EXCEPT !.rate_limited = on])
          /\ [config[d] EXCEPT !.rate_limited = on].mint_authority
               = config[d].mint_authority
      BY <2>1 DEF ConfigType
    <2>3. /\ config' = [config EXCEPT ![d] = [config[d] EXCEPT !.rate_limited = on]]
          /\ delegate' = delegate /\ k \in signers'
      BY <1>10 DEF SetRateLimit
    <2> QED BY <1>2, <2>1, <2>2, <2>3
  <1>11. ASSUME NEW d \in Config, NEW k \in Key, NEW n \in Key, SetDelegate(d, k, n)
         PROVE  /\ config' = config
                /\ delegate'[c] = delegate[c] \/ config[c].admin \in signers'
    BY <1>0, <1>11 DEF SetDelegate, IsAdmin
  <1>12. ASSUME NEW k \in Key, NEW m \in Key \cup {NoKey}, SetMintAuthority(k, m)
         PROVE  /\ Settled(config[c], config'[c])
                /\ \/ config'[c] = config[c] /\ delegate'[c] = delegate[c]
                   \/ /\ c = Native
                      /\ config[c].mint_authority # NoKey
                      /\ \/ config[c].admin \in signers'
                         \/ config[c].mint_authority \in signers'
                      /\ config'[c] = [config[c] EXCEPT !.mint_authority =
                                         config'[c].mint_authority]
    <2>1. /\ config' = [config EXCEPT ![Native] =
                          [config[Native] EXCEPT !.mint_authority = m]]
          /\ delegate' = delegate /\ signers' = {k} /\ IsValidSigner(k)
      BY <1>12 DEF SetMintAuthority
    <2>2. CASE c # Native
      BY <1>0, <2>1, <2>2
    <2>3. CASE c = Native
      <3>1. config'[c] = [config[c] EXCEPT !.mint_authority = m]
        BY <1>0, <2>1, <2>3
      <3>2. config'[c] = [config[c] EXCEPT !.mint_authority = config'[c].mint_authority]
            /\ Settled(config[c], config'[c])
        BY <1>0, <3>1 DEF ConfigType
      <3> QED BY <2>1, <2>3, <3>2 DEF IsValidSigner
    <2> QED BY <2>2, <2>3
  <1>13. CASE \E k \in Key : MintTo(k)
    BY <1>1, <1>13 DEF MintTo
  <1>14. CASE UNCHANGED vars
    BY <1>1, <1>14 DEF vars
  <1> QED
    BY <1>4, <1>5, <1>6, <1>7, <1>8, <1>9, <1>10, <1>11, <1>12, <1>13, <1>14 DEF Next

(***************************************************************************)
(* Types, for any keys, mints and widths: in particular the rate that      *)
(* onft.rs init computes fits its u64 and is never zero.                   *)
(***************************************************************************)
THEOREM TypeCorrect == Spec => []TypeOK
  <1>1. IInv => TypeOK
    BY DEF IInv
  <1> QED BY <1>1, Invariance, PTL

(***************************************************************************)
(* The conversion rate of every configuration is exact (onft.rs:45),       *)
(* whatever decimals a mint and an initialisation name.                    *)
(***************************************************************************)
THEOREM ExactRate == Spec => []RateIsExact
  <1>1. IInv => RateIsExact
    BY DEF IInv
  <1> QED BY <1>1, Invariance, PTL

(***************************************************************************)
(* No instruction changes the rate or the shared decimals of a             *)
(* configuration, or gives an adapter a mint authority.                    *)
(***************************************************************************)
THEOREM ImmutableSettings == Spec => SettledOnce
  <1>1. ASSUME IInv, [Next]_vars PROVE SettingsStay
    <2>1. ASSUME NEW c \in Config, Exists(c), c # Native
          PROVE  config[c].mint_authority = NoKey
      BY <1>1, <2>1 DEF IInv, AdapterHasNoAuthority, Config
    <2>2. ASSUME NEW c \in Config, Exists(c), c # Native
          PROVE  config'[c].mint_authority = NoKey
      BY <1>1, <2>1, <2>2, StepOnConfig
    <2>3. ASSUME NEW c \in Config, Exists(c)
          PROVE  Settled(config[c], config'[c])
      BY <1>1, <2>3, StepOnConfig
    <2> QED BY <2>2, <2>3 DEF SettingsStay, Settled
  <1> QED BY <1>1, Invariance, PTL DEF Spec, SettledOnce

(***************************************************************************)
(* A removed mint authority stays removed, and nothing is minted by        *)
(* mint_to afterwards, under any sequence of instructions.                 *)
(***************************************************************************)
THEOREM NeverMintedAgain == Spec => RemovedForever
  <1>1. ASSUME IInv, [Next]_vars PROVE RemovedStays
    <2>1. SUFFICES ASSUME Exists(Native), config[Native].mint_authority = NoKey
                   PROVE  config'[Native].mint_authority = NoKey /\ issued' = issued
      BY DEF RemovedStays
    <2>2. Native \in Config
      BY DEF Config
    <2>3. config'[Native].mint_authority = NoKey
      BY <1>1, <2>1, <2>2, StepOnConfig
    <2>4. issued' = issued
      <3>1. ASSUME NEW k \in Key, MintTo(k) PROVE FALSE
        BY <2>1, <3>1, AdminAssumption DEF MintTo
      <3> QED
        BY <1>1, <3>1
        DEF Next, vars, HandOver, InitONft, InitAdapterONft, Register, TransferAdmin,
            SetPeer, SetEnforcedOptions, SetRateLimit, SetDelegate, SetMintAuthority
    <2> QED BY <2>3, <2>4
  <1> QED BY <1>1, Invariance, PTL DEF Spec, RemovedForever

(***************************************************************************)
(* A configuration changes only with the signature of the admin of that    *)
(* moment; its mint authority also with that authority's own.              *)
(***************************************************************************)
THEOREM OwnersOnly == Spec => OnlyItsOwners
  <1>1. ASSUME IInv, [Next]_vars PROVE OwnersSigned
    BY <1>1, StepOnConfig DEF OwnersSigned
  <1> QED BY <1>1, Invariance, PTL DEF Spec, OnlyItsOwners

=============================================================================
