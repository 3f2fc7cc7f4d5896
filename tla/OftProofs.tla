----------------------------- MODULE OftProofs ------------------------------
(***************************************************************************)
(* The fungible path of zealot_nft with its rate limiter, for any amounts, *)
(* fees, widths and conversion rates.                                      *)
(*                                                                         *)
(* First the fee: calculate_pre_fee_amount returns the least amount that   *)
(* leaves what is wanted (an argument about rounding up, with products as  *)
(* opaque terms).  Then the units: what is owed abroad is what the         *)
(* messages and the peers hold, and the escrow backs it to the unit.       *)
(* Last the limiter: it only takes steps away, and bounds what goes out.   *)
(***************************************************************************)
EXTENDS LimitedOft, SumTheorems

-----------------------------------------------------------------------------
(***************************************************************************)
(* The fee and its inverse.  Products of two variables are kept as terms   *)
(* of their own, so that what remains is linear.                           *)
(***************************************************************************)
Times(x, y) == x * y

LEMMA TimesNat == \A x, y \in Nat : Times(x, y) \in Nat
  BY DEF Times

LEMMA TimesComplement ==
  \A x, r, d \in Nat : d + r = 10000 => Times(x, d) + Times(x, r) = 10000 * x
  BY DEF Times

LEMMA TimesSucc == \A x, d \in Nat : Times(x + 1, d) = Times(x, d) + d
  BY DEF Times

LEMMA TimesRate ==
  \A x, r \in Nat : r <= 10000 =>
    /\ Times(x, r) <= 10000 * x
    /\ r = 0 \/ x = 0 => Times(x, r) = 0
    /\ r = 10000 => Times(x, r) = 10000 * x
  BY DEF Times

LEMMA DivIs ==
  ASSUME NEW n \in Nat, NEW d \in Nat, d # 0
  PROVE  /\ n \div d \in Nat
         /\ Times(n \div d, d) <= n
         /\ n < Times(n \div d, d) + d
  BY DEF Times

LEMMA TimesMonotone ==
  ASSUME NEW x \in Nat, NEW y \in Nat, NEW d \in Nat, x <= y
  PROVE  Times(x, d) <= Times(y, d)
  BY DEF Times

LEMMA FeeFields ==
  ASSUME NEW f \in TransferFees
  PROVE  /\ f.transfer_fee_basis_points \in Nat
         /\ f.transfer_fee_basis_points <= 10000
         /\ f.maximum_fee \in Nat
  <1> DEFINE r == f.transfer_fee_basis_points
             max == f.maximum_fee
  <1>1. r \in 0 .. MAX_FEE_BASIS_POINTS /\ max \in Amounts
    BY DEF TransferFees
  <1> HIDE DEF r, max
  <1>2. r \in Nat /\ r <= 10000 /\ max \in Nat
    BY <1>1, FeeWidthAssumption DEF MAX_FEE_BASIS_POINTS, Amounts
  <1> QED BY <1>2 DEF r, max

\* What the token program withholds: the rate rounded up, or the maximum.
LEMMA FeeOnIs ==
  ASSUME NEW f \in TransferFees, NEW x \in Nat
  PROVE  \E c \in Nat :
           /\ 10000 * c >= Times(x, f.transfer_fee_basis_points)
           /\ 10000 * c < Times(x, f.transfer_fee_basis_points) + 10000
           /\ c <= x
           /\ FeeOn(f, x) = IF f.maximum_fee < c THEN f.maximum_fee ELSE c
  <1> DEFINE r == f.transfer_fee_basis_points
             k == Times(x, r)
             c == (k + 10000 - 1) \div 10000
  <1>1. r \in Nat /\ r <= 10000
    BY FeeFields
  <1>2. FeeOn(f, x) = IF f.maximum_fee < c THEN f.maximum_fee ELSE c
    BY DEF FeeOn, Least, MAX_FEE_BASIS_POINTS, Times
  <1>3. c \in Nat /\ 10000 * c >= k /\ 10000 * c < k + 10000 /\ c <= x
    <2> HIDE DEF r
    <2>1. k \in Nat /\ k <= 10000 * x
      BY <1>1, TimesRate, TimesNat
    <2> HIDE DEF k
    <2> QED BY <2>1
  <1> HIDE DEF c
  <1> QED BY <1>2, <1>3

LEMMA PostFeeIs ==
  ASSUME NEW f \in TransferFees, NEW x \in Nat
  PROVE  PostFeeAmount(f, x) \in Nat /\ PostFeeAmount(f, x) <= x
  <1>1. f.maximum_fee \in Nat
    BY FeeFields
  <1>2. FeeOn(f, x) \in Nat /\ FeeOn(f, x) <= x
    BY <1>1, FeeOnIs
  <1> QED BY <1>2 DEF PostFeeAmount

\* The rate leaves d of 10000.
Leaves(f, d) == d \in Nat /\ d + f.transfer_fee_basis_points = 10000

\* raw is the first amount of which at least R is left by the rate alone.
RawFor(raw, d, R) ==
  /\ raw \in Nat
  /\ Times(raw, d) \in Nat
  /\ Times(raw, d) >= 10000 * R
  /\ Times(raw, d) < 10000 * R + d

LEMMA RawIs ==
  ASSUME NEW f \in TransferFees, NEW R \in Nat, NEW d \in Nat, d # 0, Leaves(f, d)
  PROVE  RawFor(RawPreFeeAmount(f, R), d, R)
  <1> DEFINE r == f.transfer_fee_basis_points
             n == R * 10000 + d - 1
  <1>1. RawPreFeeAmount(f, R) = n \div d
    <2>1. r \in Nat /\ r <= 10000
      BY FeeFields
    <2>2. RawPreFeeAmount(f, R) = (R * 10000 + (10000 - r) - 1) \div (10000 - r)
      BY DEF RawPreFeeAmount, CeilDiv, MAX_FEE_BASIS_POINTS
    <2>3. d + r = 10000
      BY DEF Leaves
    <2> HIDE DEF r
    <2>4. 10000 - r = d
      BY <2>1, <2>3
    <2> QED BY <2>2, <2>4
  <1>2. n \in Nat /\ n = 10000 * R + d - 1
    OBVIOUS
  <1> HIDE DEF n
  <1> DEFINE p == n \div d
  <1>3. p \in Nat /\ Times(p, d) <= n /\ n < Times(p, d) + d
    BY <1>2, DivIs
  <1> HIDE DEF p
  <1>4. Times(p, d) \in Nat
    BY <1>3, TimesNat
  <1>5. Times(p, d) >= 10000 * R /\ Times(p, d) < 10000 * R + d
    BY <1>2, <1>3, <1>4
  <1> QED BY <1>1, <1>3, <1>4, <1>5 DEF p, RawFor

-----------------------------------------------------------------------------
\* The inverse in plain numbers, of a rate r that leaves d of 10000.
LEMMA InverseByRate ==
  ASSUME NEW f \in TransferFees, NEW R \in Nat, NEW d \in Nat, Leaves(f, d),
         NEW raw \in Nat, RawFor(raw, d, R)
  PROVE  /\ raw >= R
         /\ \A x \in Nat : x < raw => Times(x, d) < 10000 * R
  <1> DEFINE r == f.transfer_fee_basis_points
  <1>0. r \in Nat
    BY FeeFields
  <1>e. d + r = 10000
    BY DEF Leaves
  <1> HIDE DEF r
  <1> DEFINE t == Times(raw, d)
  <1>1. t \in Nat /\ t <= 10000 * raw
    <2>1. t \in Nat
      BY TimesNat
    <2>2. Times(raw, r) \in Nat
      BY <1>0, TimesNat
    <2>3. t + Times(raw, r) = 10000 * raw
      BY <1>0, <1>e, TimesComplement
    <2> HIDE DEF t
    <2> QED BY <2>1, <2>2, <2>3
  <1>2. t >= 10000 * R /\ t < 10000 * R + d
    BY DEF RawFor
  <1>3. raw >= R
    <2> HIDE DEF t
    <2> QED BY <1>1, <1>2
  <1>4. ASSUME NEW x \in Nat, x < raw PROVE Times(x, d) < 10000 * R
    <2> DEFINE s == Times(x, d)
    <2>1. x + 1 \in Nat /\ x + 1 <= raw
      BY <1>4
    <2>2. Times(x + 1, d) <= t
      BY <2>1, TimesMonotone
    <2>3. Times(x + 1, d) = s + d
      BY TimesSucc
    <2>4. s \in Nat
      BY TimesNat
    <2> HIDE DEF s, t
    <2>5. s < 10000 * R
      BY <2>2, <2>3, <2>4, <1>1, <1>2
    <2> QED BY <2>5 DEF s
  <1> QED BY <1>3, <1>4

\* What is withheld of x is c, unless that is above the maximum.
Withheld(f, x, d, c) ==
  /\ c \in Nat
  /\ 10000 * c + Times(x, d) >= 10000 * x
  /\ 10000 * c + Times(x, d) < 10000 * x + 10000
  /\ PostFeeAmount(f, x) = IF f.maximum_fee < c THEN x - f.maximum_fee ELSE x - c

LEMMA PostFeeByRate ==
  ASSUME NEW f \in TransferFees, NEW x \in Nat, NEW d, Leaves(f, d)
  PROVE  \E c : Withheld(f, x, d, c)
  <1> DEFINE r == f.transfer_fee_basis_points
             max == f.maximum_fee
             k == Times(x, r)
             t == Times(x, d)
  <1>0. r \in Nat /\ d \in Nat
    BY FeeFields DEF Leaves
  <1>1. d + r = 10000
    BY DEF Leaves
  <1>2. PICK c \in Nat : /\ 10000 * c >= k /\ 10000 * c < k + 10000
                        /\ FeeOn(f, x) = IF max < c THEN max ELSE c
    BY FeeOnIs
  <1>3. PostFeeAmount(f, x) = IF max < c THEN x - max ELSE x - c
    BY <1>2 DEF PostFeeAmount
  <1>4. 10000 * c + t >= 10000 * x /\ 10000 * c + t < 10000 * x + 10000
    <2> HIDE DEF r, max
    <2>1. k \in Nat
      BY <1>0, TimesNat
    <2>2. t \in Nat
      BY <1>0, TimesNat
    <2>3. t + k = 10000 * x
      BY <1>0, <1>1, TimesComplement
    <2> HIDE DEF k, t
    <2> QED BY <1>2, <2>1, <2>2, <2>3
  <1> QED BY <1>3, <1>4 DEF Withheld

(***************************************************************************)
(* The inverse charges what makes R arrive, and a unit less would not do:  *)
(* no rate and no maximum is an exception.                                 *)
(***************************************************************************)
Inverts(f, R, p) ==
  /\ p \in Nat
  /\ p >= R
  /\ PostFeeAmount(f, p) = R
  /\ \A less \in Nat : less < p => PostFeeAmount(f, less) < R

LEMMA InvertsNoFee ==
  ASSUME NEW f \in TransferFees, NEW R \in Nat,
         f.transfer_fee_basis_points = 0 \/ R = 0
  PROVE  Inverts(f, R, R)
  <1> DEFINE r == f.transfer_fee_basis_points
             max == f.maximum_fee
             k == Times(R, r)
  <1>1. r \in Nat /\ r <= 10000 /\ max \in Nat
    BY FeeFields
  <1>2. k = 0
    <2>1. r = 0 \/ R = 0
      OBVIOUS
    <2> HIDE DEF r
    <2> QED BY <1>1, <2>1, TimesRate
  <1>3. FeeOn(f, R) = 0
    <2>1. PICK c \in Nat : 10000 * c < k + 10000 /\ FeeOn(f, R) = IF max < c THEN max ELSE c
      BY FeeOnIs
    <2>2. c = 0
      <3> HIDE DEF k
      <3> QED BY <1>2, <2>1
    <2> HIDE DEF max
    <2> QED BY <1>1, <2>1, <2>2
  <1>4. PostFeeAmount(f, R) = R
    BY <1>3 DEF PostFeeAmount
  <1>5. ASSUME NEW less \in Nat, less < R PROVE PostFeeAmount(f, less) < R
    BY <1>5, PostFeeIs
  <1> QED BY <1>4, <1>5 DEF Inverts

LEMMA InvertsFullRate ==
  ASSUME NEW f \in TransferFees, NEW R \in Nat, R # 0,
         f.transfer_fee_basis_points = 10000
  PROVE  Inverts(f, R, R + f.maximum_fee)
  <1> DEFINE max == f.maximum_fee
  <1>1. max \in Nat
    BY FeeFields
  <1>2. ASSUME NEW x \in Nat
        PROVE  PostFeeAmount(f, x) = IF max < x THEN x - max ELSE 0
    <2>1. Leaves(f, 0)
      BY DEF Leaves
    <2>2. PICK c : Withheld(f, x, 0, c)
      BY <2>1, PostFeeByRate
    <2>3. Times(x, 0) = 0
      BY DEF Times
    <2>4. c = x
      BY <2>2, <2>3 DEF Withheld
    <2> QED BY <2>2, <2>4 DEF Withheld
  <1> HIDE DEF max
  <1>3. R + max \in Nat /\ PostFeeAmount(f, R + max) = R
    BY <1>1, <1>2
  <1>4. ASSUME NEW less \in Nat, less < R + max PROVE PostFeeAmount(f, less) < R
    BY <1>1, <1>2, <1>4
  <1> QED BY <1>1, <1>3, <1>4 DEF Inverts, max

NothingLeft(f) == f.transfer_fee_basis_points = 10000

LEMMA InvertsPartialRate ==
  ASSUME NEW f \in TransferFees, NEW R \in Nat,
         ~ NothingLeft(f)
  PROVE  LET raw == RawPreFeeAmount(f, R)
             max == f.maximum_fee
         IN  Inverts(f, R, IF raw - R >= max THEN R + max ELSE raw)
  <1> DEFINE r == f.transfer_fee_basis_points
             max == f.maximum_fee
             raw == RawPreFeeAmount(f, R)
             d == 10000 - r
             post(x) == PostFeeAmount(f, x)
  <1>1. /\ r \in Nat /\ r <= 10000 /\ max \in Nat
        /\ d \in Nat /\ d # 0 /\ d + r = 10000
    <2>1. r \in Nat /\ r <= 10000 /\ r # 10000 /\ max \in Nat
      BY FeeFields DEF NothingLeft
    <2> HIDE DEF r
    <2> QED BY <2>1
  <1>0. Leaves(f, d)
    BY <1>1 DEF Leaves
  <1> HIDE DEF d
  <1>r. RawFor(raw, d, R)
    BY <1>1, <1>0, RawIs
  <1>2. /\ raw \in Nat /\ Times(raw, d) \in Nat
        /\ Times(raw, d) >= 10000 * R /\ Times(raw, d) < 10000 * R + d
    BY <1>r DEF RawFor
  <1>3. ASSUME NEW x \in Nat
        PROVE  \E c : /\ c \in Nat
                      /\ 10000 * c + Times(x, d) >= 10000 * x
                      /\ 10000 * c + Times(x, d) < 10000 * x + 10000
                      /\ post(x) = IF max < c THEN x - max ELSE x - c
    <2>1. PICK c : Withheld(f, x, d, c)
      BY <1>0, PostFeeByRate
    <2> QED BY <2>1 DEF Withheld
  <1> HIDE DEF r, max, raw, post
  <1>4. d <= 10000
    BY <1>1
  <1>5. raw >= R /\ \A x \in Nat : x < raw => Times(x, d) < 10000 * R
    <2>1. d \in Nat /\ raw \in Nat
      BY <1>1, <1>2
    <2> QED BY <1>0, <1>r, <2>1, InverseByRate
  <1>6. ASSUME NEW x \in Nat PROVE Times(x, d) \in Nat
    BY <1>1, TimesNat
  <1>7. ASSUME NEW x \in Nat, x < raw, x < R + max PROVE post(x) < R
    <2>1. PICK c \in Nat :
            /\ 10000 * c + Times(x, d) >= 10000 * x
            /\ post(x) = IF max < c THEN x - max ELSE x - c
      BY <1>3
    <2> DEFINE t == Times(x, d)
    <2>2. t \in Nat /\ t < 10000 * R /\ 10000 * c + t >= 10000 * x
      BY <1>5, <1>6, <1>7, <2>1
    <2> HIDE DEF t
    <2>3. c > x - R
      BY <2>2
    <2> QED BY <1>1, <1>7, <2>1, <2>3
  <1>8. CASE raw - R >= max
    <2> DEFINE p == R + max
    <2>0. p \in Nat /\ p = R + max /\ p >= R /\ p <= raw
      BY <1>1, <1>2, <1>8
    <2> HIDE DEF p
    <2>a. p \in Nat
      BY <2>0
    <2>1. PICK c : /\ c \in Nat
                   /\ 10000 * c + Times(p, d) >= 10000 * p
                   /\ post(p) = IF max < c THEN p - max ELSE p - c
      BY <2>a, <1>3
    <2>b. c \in Nat
      BY <2>1
    <2>2. c >= max
      <3>1. CASE max = 0
        BY <2>b, <3>1
      <3>2. CASE max # 0
        <4> DEFINE y == p - 1
                   t == Times(y, d)
        <4>1. y \in Nat /\ y < raw /\ y + 1 = p
          BY <1>1, <1>2, <2>0, <3>2
        <4> HIDE DEF y
        <4>2. t \in Nat /\ t < 10000 * R
          BY <1>5, <1>6, <4>1
        <4>3. Times(p, d) = t + d
          BY <1>1, <4>1, TimesSucc
        <4> HIDE DEF t
        <4>4. 10000 * c + t + d >= 10000 * p
          BY <2>1, <4>2, <4>3, <1>1
        <4> QED BY <1>1, <1>4, <2>0, <2>b, <4>2, <4>4
      <3> QED BY <3>1, <3>2
    <2>3. post(p) = R
      BY <1>1, <2>0, <2>1, <2>2
    <2>4. ASSUME NEW less \in Nat, less < p PROVE post(less) < R
      BY <1>1, <1>2, <1>7, <2>0, <2>4
    <2>5. Inverts(f, R, p)
      BY <2>0, <2>3, <2>4 DEF Inverts, post
    <2> QED BY <1>8, <2>5 DEF p, raw, max
  <1>9. CASE ~ (raw - R >= max)
    <2>0. raw \in Nat
      BY <1>2
    <2>1. PICK c : /\ c \in Nat
                   /\ 10000 * c + Times(raw, d) >= 10000 * raw
                   /\ 10000 * c + Times(raw, d) < 10000 * raw + 10000
                   /\ post(raw) = IF max < c THEN raw - max ELSE raw - c
      BY <1>3, <2>0
    <2> DEFINE t == Times(raw, d)
    <2>2. /\ t \in Nat /\ t >= 10000 * R /\ t < 10000 * R + d
          /\ 10000 * c + t >= 10000 * raw /\ 10000 * c + t < 10000 * raw + 10000
      BY <1>2, <2>1
    <2> HIDE DEF t
    <2>3. c = raw - R
      <3>1. raw \in Nat /\ R \in Nat /\ c \in Nat /\ d \in Nat /\ d <= 10000
        BY <1>1, <1>2, <1>4, <2>1
      <3>2. 10000 * c + d > 10000 * (raw - R) /\ 10000 * c < 10000 * (raw - R) + 10000
        BY <2>2, <3>1
      <3> QED BY <3>1, <3>2
    <2>4. post(raw) = R
      BY <1>1, <1>2, <1>9, <2>1, <2>3
    <2>5. ASSUME NEW less \in Nat, less < raw PROVE post(less) < R
      BY <1>1, <1>2, <1>7, <1>9, <2>5
    <2> QED BY <1>2, <1>5, <1>9, <2>4, <2>5 DEF Inverts, post, raw, max
  <1> QED BY <1>8, <1>9 DEF raw, max

LEMMA PreFeeInverts ==
  ASSUME NEW f \in TransferFees, NEW R \in Nat
  PROVE  Inverts(f, R, PreFeeAmount(f, R))
  <1>1. CASE f.transfer_fee_basis_points = 0 \/ R = 0
    BY <1>1, InvertsNoFee DEF PreFeeAmount
  <1>2. CASE ~ (f.transfer_fee_basis_points = 0 \/ R = 0)
    <2>1. CASE f.transfer_fee_basis_points = 10000
      BY <1>2, <2>1, InvertsFullRate
         DEF PreFeeAmount, MaximumFeeReached, MAX_FEE_BASIS_POINTS
    <2>2. CASE f.transfer_fee_basis_points # 10000
      BY <1>2, <2>2, InvertsPartialRate
         DEF NothingLeft, PreFeeAmount, MaximumFeeReached, MAX_FEE_BASIS_POINTS
    <2> QED BY <2>1, <2>2
  <1> QED BY <1>1, <1>2

LEMMA DustIs ==
  ASSUME NEW x \in Nat
  PROVE  /\ RemoveDust(x) \in Nat
         /\ RemoveDust(x) <= x
         /\ RemoveDust(x) \div Ld2sdRate \in Nat
         /\ Times(Ld2sdRate, RemoveDust(x) \div Ld2sdRate) = RemoveDust(x)
  <1> DEFINE q == x \div Ld2sdRate
             n == Ld2sdRate
  <1>1. n \in Nat \ {0}
    BY FeeWidthAssumption
  <1>2. q \in Nat /\ x - (x % n) = n * q /\ n * q \in Nat /\ n * q <= x
    BY <1>1
  <1>3. (n * q) \div n = q
    <2> HIDE DEF q, n
    <2> QED BY <1>1, <1>2
  <1> QED BY <1>2, <1>3 DEF RemoveDust, Times

-----------------------------------------------------------------------------
(***************************************************************************)
(* Sums of balances and of messages, and products with the rate.           *)
(***************************************************************************)
LEMMA SumUpdate ==
  ASSUME NEW S, IsFiniteSet(S), NEW f \in [S -> Nat], NEW a \in S, NEW v \in Nat
  PROVE  SumFunction([f EXCEPT ![a] = v]) = SumFunction(f) - f[a] + v
  <1> DEFINE g == [f EXCEPT ![a] = v]
  <1>1. DOMAIN f = S /\ DOMAIN g = S
    OBVIOUS
  <1>2. (\A x \in S : f[x] \in Int) /\ g[a] = v /\ v \in Int /\ \A x \in S \ {a} : g[x] = f[x]
    OBVIOUS
  <1> HIDE DEF g
  <1>3. SumFunctionOnSet(g, S) = SumFunctionOnSet(f, S) - f[a] + g[a]
    BY <1>2, SumChange
  <1> QED BY <1>1, <1>2, <1>3 DEF SumFunction, g

LEMMA SumNat ==
  ASSUME NEW S, IsFiniteSet(S), NEW f \in [S -> Nat]
  PROVE  SumFunction(f) \in Nat /\ \A x \in S : f[x] <= SumFunction(f)
  <1>1. DOMAIN f = S /\ \A x \in S : f[x] \in Nat
    OBVIOUS
  <1> QED BY <1>1, SumOfNaturals DEF SumFunction

LEMMA SumSame ==
  ASSUME NEW S, IsFiniteSet(S), NEW n \in Nat
  PROVE  SumFunction([x \in S |-> n]) = Cardinality(S) * n
  <1> DEFINE f == [x \in S |-> n]
  <1>1. DOMAIN f = S /\ \A x \in S : f[x] = n
    OBVIOUS
  <1> HIDE DEF f
  <1>2. SumFunctionOnSet(f, S) = Cardinality(S) * n
    BY <1>1, SumConstant
  <1> QED BY <1>1, <1>2 DEF SumFunction, f

Sized(box) == IsFiniteSet(box) /\ \A m \in box : m.amount_sd \in Nat

LEMMA UnitsNat ==
  ASSUME NEW box, Sized(box)
  PROVE  UnitsIn(box) \in Nat /\ \A m \in box : m.amount_sd <= UnitsIn(box)
  <1> DEFINE f == [m \in box |-> m.amount_sd]
  <1>1. f \in [box -> Nat] /\ IsFiniteSet(box) /\ \A m \in box : f[m] = m.amount_sd
    BY DEF Sized
  <1> HIDE DEF f
  <1>2. SumFunction(f) \in Nat /\ \A m \in box : f[m] <= SumFunction(f)
    BY <1>1, SumNat
  <1> QED BY <1>1, <1>2 DEF UnitsIn, f

LEMMA UnitsNone == UnitsIn({}) = 0
  <1>1. DOMAIN [m \in {} |-> m.amount_sd] = {}
    OBVIOUS
  <1> QED BY <1>1, SumEmpty DEF UnitsIn, SumFunction

LEMMA UnitsAdd ==
  ASSUME NEW box, Sized(box), NEW m, m \notin box, m.amount_sd \in Nat
  PROVE  /\ Sized(box \cup {m})
         /\ UnitsIn(box \cup {m}) = UnitsIn(box) + m.amount_sd
  <1> DEFINE more == box \cup {m}
             f == [x \in box |-> x.amount_sd]
             g == [x \in more |-> x.amount_sd]
  <1>1. IsFiniteSet(box) /\ IsFiniteSet(more) /\ Sized(more)
    BY FS_AddElement DEF Sized
  <1>2. /\ \A x \in more : g[x] \in Int
        /\ \A x \in box : f[x] = g[x] /\ f[x] \in Int
        /\ g[m] = m.amount_sd /\ DOMAIN f = box /\ DOMAIN g = more
    BY <1>1 DEF Sized
  <1> HIDE DEF f, g
  <1>3. SumFunctionOnSet(g, more) = g[m] + SumFunctionOnSet(g, box)
    BY <1>1, <1>2, SumAdd
  <1>4. SumFunctionOnSet(f, box) = SumFunctionOnSet(g, box)
    BY <1>1, <1>2, SumAgree
  <1>5. SumFunctionOnSet(g, box) \in Int
    BY <1>1, <1>2, SumType
  <1>6. UnitsIn(box) = SumFunctionOnSet(f, box) /\ UnitsIn(more) = SumFunctionOnSet(g, more)
    BY <1>2 DEF UnitsIn, SumFunction, f, g
  <1> QED BY <1>1, <1>2, <1>3, <1>4, <1>5, <1>6

LEMMA UnitsRemove ==
  ASSUME NEW box, Sized(box), NEW m \in box
  PROVE  /\ Sized(box \ {m})
         /\ m.amount_sd \in Nat
         /\ UnitsIn(box \ {m}) \in Nat
         /\ UnitsIn(box) = UnitsIn(box \ {m}) + m.amount_sd
  <1> DEFINE rest == box \ {m}
  <1>1. /\ Sized(rest) /\ m \notin rest /\ m.amount_sd \in Nat
        /\ rest \cup {m} = box
    BY FS_RemoveElement DEF Sized
  <1> HIDE DEF rest
  <1>2. UnitsIn(box) = UnitsIn(rest) + m.amount_sd /\ UnitsIn(rest) \in Nat
    BY <1>1, UnitsAdd, UnitsNat
  <1> QED BY <1>1, <1>2 DEF rest

\* Local units of so many shared units.
Local(sd) == Times(Ld2sdRate, sd)

LEMMA LocalIs ==
  ASSUME NEW sd \in Nat
  PROVE  /\ Local(sd) \in Nat
         /\ Sd2ld(sd) = Local(sd)
         /\ Ld2sdRate * sd = Local(sd)
         /\ sd <= Local(sd)
  BY FeeWidthAssumption DEF Local, Times, Sd2ld

LEMMA LocalSum ==
  ASSUME NEW x \in Nat, NEW y \in Nat
  PROVE  Local(x + y) = Local(x) + Local(y)
  BY FeeWidthAssumption DEF Local, Times

LEMMA LocalDifference ==
  ASSUME NEW x \in Nat, NEW y \in Nat, y <= x
  PROVE  Local(x - y) = Local(x) - Local(y) /\ Local(y) <= Local(x)
  BY FeeWidthAssumption DEF Local, Times

-----------------------------------------------------------------------------
(***************************************************************************)
(* The inductive invariant.  Backed needs the inverse of the fee only; to  *)
(* know that a balance, the escrow or the supply still fits its u64 when   *)
(* tokens move, the proof follows all tokens of the mint (Kept); to know   *)
(* that a message put in a box was not in it, that nonces are fresh.       *)
(***************************************************************************)
Kept ==
  /\ Adapter => SumFunction(wallet) + escrow <= MaxU64
  /\ ~ Adapter => SumFunction(wallet) = supply

Fresh ==
  /\ IsFiniteSet(outbox) /\ \A m \in outbox : m.nonce <= outNonce
  /\ IsFiniteSet(inbox) /\ \A m \in inbox : m.nonce <= inNonce

IInv == TypeOK /\ Backed /\ AbroadIsSum /\ Kept /\ Fresh

LEMMA Facts ==
  ASSUME IInv
  PROVE  /\ fee \in TransferFees /\ MaxU64 \in Nat
         /\ wallet \in [User -> Nat] /\ remote \in [Peer -> Nat]
         /\ escrow \in Nat /\ supply \in Nat /\ supply <= MaxU64 /\ escrow <= MaxU64
         /\ abroad \in Nat /\ minted \in Nat /\ misread \in Nat
         /\ outNonce \in Nat /\ inNonce \in Nat
         /\ Sized(outbox) /\ Sized(inbox)
         /\ UnitsIn(outbox) \in Nat /\ UnitsIn(inbox) \in Nat
         /\ SumFunction(wallet) \in Nat /\ SumFunction(remote) \in Nat
         /\ \A u \in User : wallet[u] <= SumFunction(wallet)
         /\ \A p \in Peer : remote[p] <= SumFunction(remote)
  <1>1. /\ fee \in TransferFees /\ MaxU64 \in Nat
        /\ wallet \in [User -> Nat] /\ remote \in [Peer -> Nat]
        /\ escrow \in Nat /\ supply \in Nat /\ supply <= MaxU64 /\ escrow <= MaxU64
        /\ abroad \in Nat /\ minted \in Nat /\ misread \in Nat
        /\ outNonce \in Nat /\ inNonce \in Nat
    BY FeeWidthAssumption, OftAssumption DEF IInv, TypeOK, Amounts
  <1>2. Sized(outbox) /\ Sized(inbox)
    BY DEF IInv, TypeOK, Fresh, Sized, OutMessage, InMessage
  <1>3. UnitsIn(outbox) \in Nat /\ UnitsIn(inbox) \in Nat
    BY <1>2, UnitsNat
  <1>4. /\ SumFunction(wallet) \in Nat /\ \A u \in User : wallet[u] <= SumFunction(wallet)
        /\ SumFunction(remote) \in Nat /\ \A p \in Peer : remote[p] <= SumFunction(remote)
    BY <1>1, OftAssumption, SumNat
  <1> QED BY <1>1, <1>2, <1>3, <1>4

LEMMA BackedIs ==
  ASSUME abroad \in Nat
  PROVE  Backed <=> (Adapter => escrow = Local(abroad))
                    /\ (~ Adapter => minted - supply = Local(abroad))
  BY LocalIs DEF Backed, Issued

LEMMA InitIInv == Init => IInv
  <1> SUFFICES ASSUME Init PROVE IInv
    OBVIOUS
  <1> USE DEF Init
  <1> DEFINE total == Cardinality(User) * Holding
  <1>1. /\ Holding \in Nat /\ Holding <= MaxU64 /\ MaxU64 \in Nat /\ total <= MaxU64
        /\ IsFiniteSet(User) /\ IsFiniteSet(Peer) /\ MaxNonce \in Nat
        /\ Ext \subseteq {"adapter", "mintable", "native"}
    BY FeeWidthAssumption, OftAssumption DEF Amounts
  <1>2. SumFunction(wallet) = total /\ total \in Nat
    <2>1. Cardinality(User) \in Nat /\ total \in Nat
      BY <1>1, FS_CardinalityType
    <2> QED BY <1>1, <2>1, SumSame
  <1>3. SumFunction(remote) = 0
    <2>1. Cardinality(Peer) * 0 = 0
      BY <1>1, FS_CardinalityType
    <2> QED BY <1>1, <2>1, SumSame
  <1> HIDE DEF total
  <1>4. TypeOK
    BY <1>1, <1>2 DEF TypeOK, Amounts
  <1>5. Backed
    <2>1. Local(0) = 0 /\ abroad \in Nat
      BY FeeWidthAssumption DEF Local, Times
    <2> QED BY <1>2, <2>1, BackedIs
  <1>6. AbroadIsSum
    BY <1>3, UnitsNone DEF AbroadIsSum
  <1>7. Kept
    BY <1>1, <1>2 DEF Kept
  <1>8. Fresh
    BY FS_EmptySet DEF Fresh
  <1> QED BY <1>4, <1>5, <1>6, <1>7, <1>8 DEF IInv

-----------------------------------------------------------------------------
(***************************************************************************)
(* What a send charges and promises.                                       *)
(***************************************************************************)
LEMMA PostFeeLd ==
  ASSUME NEW f \in TransferFees, NEW x \in Nat
  PROVE  PostFeeAmountLd(f, x) \in Nat /\ PostFeeAmountLd(f, x) <= x
  BY PostFeeIs DEF PostFeeAmountLd

LEMMA ChargeIs ==
  ASSUME NEW f \in TransferFees, NEW a \in Nat
  PROVE  LET promised == AmountReceivedLd(f, a)
             paid == AmountSentLd(f, a)
         IN  /\ promised \in Nat /\ paid \in Nat
             /\ Ld2sd(promised) \in Nat /\ Local(Ld2sd(promised)) = promised
             /\ promised <= paid /\ paid <= a
             /\ PostFeeAmountLd(f, paid) = promised
             /\ \A less \in Nat : less < paid => PostFeeAmountLd(f, less) < promised
  <1> DEFINE after == PostFeeAmountLd(f, a)
             promised == AmountReceivedLd(f, a)
             paid == AmountSentLd(f, a)
  <1>1. after \in Nat /\ after <= a
    BY PostFeeLd
  <1>2. /\ promised \in Nat /\ promised <= after
        /\ Ld2sd(promised) \in Nat /\ Local(Ld2sd(promised)) = promised
    <2> HIDE DEF after
    <2>1. promised = RemoveDust(after)
      BY DEF AmountReceivedLd, after
    <2> QED BY <1>1, <2>1, DustIs DEF Ld2sd, Local
  <1>3. /\ paid \in Nat /\ promised <= paid
        /\ PostFeeAmountLd(f, paid) = promised
        /\ \A less \in Nat : less < paid => PostFeeAmountLd(f, less) < promised
    <2> HIDE DEF promised
    <2>1. paid = PreFeeAmountLd(f, promised)
      BY DEF AmountSentLd, promised
    <2> HIDE DEF paid
    <2>2. CASE Adapter
      <3>1. paid = PreFeeAmount(f, promised)
        BY <2>1, <2>2 DEF PreFeeAmountLd
      <3>2. Inverts(f, promised, paid)
        BY <1>2, <3>1, PreFeeInverts
      <3> QED BY <2>2, <3>2 DEF Inverts, PostFeeAmountLd
    <2>3. CASE ~ Adapter
      BY <1>2, <2>1, <2>3 DEF PreFeeAmountLd, PostFeeAmountLd
    <2> QED BY <2>2, <2>3
  <1>4. paid <= a
    <2> HIDE DEF promised, paid
    <2> QED BY <1>1, <1>2, <1>3
  <1> QED BY <1>2, <1>3, <1>4

-----------------------------------------------------------------------------
(***************************************************************************)
(* One lemma per action.                                                   *)
(***************************************************************************)
LEMMA WalletFits ==
  ASSUME NEW w \in [User -> Nat], SumFunction(w) <= MaxU64
  PROVE  w \in [User -> Amounts]
  <1>1. SumFunction(w) \in Nat /\ \A u \in User : w[u] <= SumFunction(w)
    BY OftAssumption, SumNat
  <1> QED BY <1>1, FeeWidthAssumption DEF Amounts

LEMMA SendStep ==
  ASSUME IInv, NEW u \in User, NEW a \in Amount, NEW min \in QuotedMinimum,
         Send(u, a, min)
  PROVE  IInv'
  <1> DEFINE promised == AmountReceivedLd(fee, a)
             paid == AmountSentLd(fee, a)
             sd == Ld2sd(promised)
             m == [nonce |-> outNonce + 1, receiver |-> peer, amount_sd |-> sd]
  <1>1. /\ fee \in TransferFees /\ MaxU64 \in Nat /\ a \in Nat
        /\ wallet \in [User -> Nat] /\ escrow \in Nat /\ escrow <= MaxU64
        /\ supply \in Nat /\ supply <= MaxU64
        /\ abroad \in Nat /\ minted \in Nat /\ outNonce \in Nat
        /\ Sized(outbox) /\ UnitsIn(outbox) \in Nat /\ UnitsIn(inbox) \in Nat
        /\ SumFunction(wallet) \in Nat /\ SumFunction(remote) \in Nat /\ misread \in Nat
        /\ wallet[u] <= SumFunction(wallet)
    BY Facts, OftAssumption DEF Amounts
  <1>2. /\ promised \in Nat /\ paid \in Nat /\ sd \in Nat /\ Local(sd) = promised
        /\ promised <= paid /\ PostFeeAmountLd(fee, paid) = promised
    BY <1>1, ChargeIs
  <1>3. /\ peer \in Peer /\ outNonce < MaxNonce /\ wallet[u] >= paid
        /\ wallet' = [wallet EXCEPT ![u] = wallet[u] - paid]
        /\ Adapter => escrow' = escrow + promised /\ supply' = supply
        /\ ~ Adapter => escrow' = escrow /\ supply' = supply - paid /\ promised = paid
        /\ outbox' = outbox \cup {m} /\ outNonce' = outNonce + 1
        /\ abroad' = abroad + sd
        /\ UNCHANGED <<fee, ext, peer, inbox, inNonce, remote, composed, minted, misread>>
    BY <1>2 DEF Send, LockOrBurn, IInv, TypeOK, PostFeeAmountLd
  <1>4. m.amount_sd = sd /\ m.nonce = outNonce + 1 /\ m.receiver = peer /\ m \in [nonce : {outNonce + 1}, receiver : {peer}, amount_sd : {sd}]
    OBVIOUS
  <1> HIDE DEF promised, paid, sd, m
  <1>5. m \notin outbox
    BY <1>1, <1>4 DEF IInv, Fresh
  <1>6. /\ Sized(outbox') /\ UnitsIn(outbox') = UnitsIn(outbox) + sd
    BY <1>1, <1>2, <1>3, <1>4, <1>5, UnitsAdd
  <1>7. /\ wallet' \in [User -> Nat]
        /\ SumFunction(wallet') = SumFunction(wallet) - paid
    <2> DEFINE left == wallet[u] - paid
    <2>1. left \in Nat /\ wallet' = [wallet EXCEPT ![u] = left]
      BY <1>1, <1>2, <1>3
    <2>2. left = wallet[u] - paid /\ wallet[u] \in Nat
      BY <1>1
    <2> HIDE DEF left
    <2>3. SumFunction(wallet') = SumFunction(wallet) - wallet[u] + left
      <3>1. wallet \in [User -> Nat] /\ u \in User
        BY <1>1
      <3> HIDE DEF IInv
      <3> QED BY <2>1, <3>1, OftAssumption, SumUpdate
    <2>4. SumFunction(wallet') = SumFunction(wallet) - paid
      BY <1>1, <1>2, <2>2, <2>3
    <2> QED BY <1>1, <2>1, <2>4
  <1>8. Kept'
    <2>1. Adapter => SumFunction(wallet') + escrow' <= MaxU64
      BY <1>1, <1>2, <1>3, <1>7 DEF IInv, Kept
    <2>2. ~ Adapter => SumFunction(wallet') = supply'
      BY <1>1, <1>2, <1>3, <1>7 DEF IInv, Kept
    <2> QED BY <1>3, <2>1, <2>2 DEF Kept, Adapter
  <1>9. Backed'
    <2>1. abroad' \in Nat /\ Local(abroad') = Local(abroad) + promised /\ Local(abroad) \in Nat
      <3>1. abroad' = abroad + sd /\ abroad' \in Nat
        BY <1>1, <1>2, <1>3
      <3>2. Local(abroad + sd) = Local(abroad) + Local(sd)
        BY <1>1, <1>2, LocalSum
      <3>3. Local(abroad) \in Nat
        BY <1>1, LocalIs
      <3> QED BY <1>2, <3>1, <3>2, <3>3
    <2>2. (Adapter => escrow = Local(abroad)) /\ (~ Adapter => minted - supply = Local(abroad))
      BY <1>1, BackedIs DEF IInv
    <2>3. (Adapter => escrow' = Local(abroad'))
      BY <1>3, <2>1, <2>2
    <2>4. ~ Adapter => minted - supply' = Local(abroad')
      BY <1>1, <1>2, <1>3, <2>1, <2>2
    <2>5. Ld2sdRate * abroad' = Local(abroad')
      BY <2>1, LocalIs
    <2> QED BY <1>3, <2>3, <2>4, <2>5 DEF Backed, Issued, Adapter
  <1>10. AbroadIsSum'
    <2>1. abroad' = SumFunction(remote) + UnitsIn(outbox') + UnitsIn(inbox) + misread
      BY <1>1, <1>2, <1>3, <1>6 DEF IInv, AbroadIsSum
    <2>2. UnitsIn(outbox)' = UnitsIn(outbox') /\ UnitsIn(inbox)' = UnitsIn(inbox)
      BY <1>3 DEF UnitsIn
    <2> QED BY <1>3, <2>1, <2>2 DEF AbroadIsSum
  <1>11. Fresh'
    <2>1. IsFiniteSet(outbox')
      BY <1>6 DEF Sized
    <2>2. ASSUME NEW x \in outbox' PROVE x.nonce <= outNonce'
      <3>1. CASE x = m
        BY <1>1, <1>3, <1>4, <3>1
      <3>2. CASE x \in outbox
        <4>1. x.nonce <= outNonce /\ x.nonce \in Nat
          BY <3>2 DEF IInv, Fresh, TypeOK, OutMessage
        <4> QED BY <1>1, <1>3, <4>1
      <3> QED BY <1>3, <3>1, <3>2
    <2> QED BY <1>3, <2>1, <2>2 DEF Fresh, IInv
  <1>12. TypeOK'
    <2>1. wallet' \in [User -> Amounts] /\ escrow' \in Amounts /\ supply' \in Amounts
      <3>1. SumFunction(wallet') <= MaxU64 /\ SumFunction(wallet') \in Nat
        <4>1. SumFunction(wallet') \in Nat
          BY <1>7, SumNat, OftAssumption
        <4>2. SumFunction(wallet) <= MaxU64
          BY <1>1 DEF IInv, Kept
        <4> QED BY <1>1, <1>2, <1>7, <4>1, <4>2
      <3>2. wallet' \in [User -> Amounts]
        BY <1>7, <3>1, WalletFits
      <3>3. escrow' \in Nat /\ escrow' <= MaxU64
        BY <1>1, <1>2, <1>3, <1>7, <3>1 DEF IInv, Kept
      <3>4. supply' \in Nat /\ supply' <= MaxU64
        <4>1. CASE Adapter
          BY <1>1, <1>3, <4>1
        <4>2. CASE ~ Adapter
          <5>1. SumFunction(wallet) = supply
            BY <4>2 DEF IInv, Kept
          <5> QED BY <1>1, <1>2, <1>3, <4>2, <5>1
        <4> QED BY <4>1, <4>2
      <3> QED BY <1>1, <3>2, <3>3, <3>4 DEF Amounts
    <2>2. m \in OutMessage /\ outNonce' \in 0 .. MaxNonce
      BY <1>1, <1>2, <1>3, <1>4, OftAssumption DEF OutMessage
    <2>3. abroad' \in Nat
      BY <1>1, <1>2, <1>3
    <2> QED BY <1>3, <2>1, <2>2, <2>3 DEF IInv, TypeOK
  <1> QED BY <1>8, <1>9, <1>10, <1>11, <1>12 DEF IInv

\* The ledger stays as it is.
LedgerSame == UNCHANGED <<fee, wallet, escrow, supply, ext, composed, abroad, minted>>

LEMMA LedgerSameStep ==
  ASSUME IInv, LedgerSame
  PROVE  Backed' /\ Kept'
  BY DEF IInv, LedgerSame, Backed, Issued, Kept, Adapter

LEMMA ReceiveRemoteStep ==
  ASSUME IInv, NEW m \in outbox, ReceiveRemote(m)
  PROVE  IInv'
  <1> DEFINE sd == m.amount_sd
             p == m.receiver
             more == remote[p] + sd
  <1>1. /\ remote \in [Peer -> Nat] /\ Sized(outbox) /\ UnitsIn(outbox) \in Nat
        /\ UnitsIn(inbox) \in Nat /\ SumFunction(remote) \in Nat /\ misread \in Nat
        /\ abroad \in Nat
    BY Facts
  <1>2. p \in Peer /\ sd \in Nat
    BY DEF IInv, TypeOK, OutMessage
  <1>3. /\ outbox' = outbox \ {m} /\ remote' = [remote EXCEPT ![p] = more]
        /\ LedgerSame /\ UNCHANGED <<peer, inbox, outNonce, inNonce, misread>>
    BY DEF ReceiveRemote, ledger, history, LedgerSame
  <1>4. /\ Sized(outbox') /\ UnitsIn(outbox') \in Nat
        /\ UnitsIn(outbox) = UnitsIn(outbox') + sd
    BY <1>1, <1>3, UnitsRemove
  <1>5. more \in Nat /\ remote[p] \in Nat /\ more = remote[p] + sd
    BY <1>1, <1>2
  <1> HIDE DEF sd, p, more
  <1>6. remote' \in [Peer -> Nat] /\ SumFunction(remote') = SumFunction(remote) + sd
    <2>1. SumFunction(remote') = SumFunction(remote) - remote[p] + more
      <3>1. more \in Nat
        BY <1>5
      <3>2. IsFiniteSet(Peer) /\ remote \in [Peer -> Nat] /\ p \in Peer
        BY <1>1, <1>2, OftAssumption
      <3>3. SumFunction([remote EXCEPT ![p] = more]) = SumFunction(remote) - remote[p] + more
        BY <3>1, <3>2, SumUpdate
      <3> QED BY <1>3, <3>3
    <2>2. SumFunction(remote') = SumFunction(remote) + sd
      BY <1>1, <1>2, <1>5, <2>1
    <2> QED BY <1>1, <1>3, <1>5, <2>2
  <1>7. AbroadIsSum'
    <2>1. abroad = SumFunction(remote') + UnitsIn(outbox') + UnitsIn(inbox) + misread
      BY <1>1, <1>2, <1>4, <1>6 DEF IInv, AbroadIsSum
    <2>2. UnitsIn(outbox)' = UnitsIn(outbox') /\ UnitsIn(inbox)' = UnitsIn(inbox)
      BY <1>3 DEF UnitsIn
    <2> QED BY <1>3, <2>1, <2>2 DEF AbroadIsSum, LedgerSame
  <1>8. Fresh' /\ TypeOK'
    BY <1>3, <1>4, <1>6 DEF IInv, Fresh, TypeOK, LedgerSame, Sized
  <1> QED BY <1>3, <1>7, <1>8, LedgerSameStep DEF IInv

LEMMA SendRemoteStep ==
  ASSUME IInv, NEW p \in Peer, NEW u \in User, NEW sd \in 1 .. MaxU64,
         NEW c \in BOOLEAN, SendRemote(p, u, sd, c)
  PROVE  IInv'
  <1> DEFINE m == [nonce |-> inNonce + 1, sender |-> p, send_to |-> u,
                   amount_sd |-> sd, compose |-> c]
             left == remote[p] - sd
  <1>1. /\ remote \in [Peer -> Nat] /\ Sized(inbox) /\ UnitsIn(outbox) \in Nat
        /\ UnitsIn(inbox) \in Nat /\ SumFunction(remote) \in Nat /\ misread \in Nat
        /\ abroad \in Nat /\ inNonce \in Nat /\ MaxU64 \in Nat
    BY Facts
  <1>2. sd \in Nat
    BY <1>1
  <1>3. /\ inNonce < MaxNonce /\ inNonce' = inNonce + 1 /\ remote[p] >= sd
        /\ remote' = [remote EXCEPT ![p] = left] /\ inbox' = inbox \cup {m}
        /\ LedgerSame /\ UNCHANGED <<peer, outbox, outNonce, misread>>
    BY DEF SendRemote, ledger, history, LedgerSame
  <1>4. m.amount_sd = sd /\ m.nonce = inNonce + 1
    OBVIOUS
  <1>5. m \in InMessage /\ inNonce' \in 0 .. MaxNonce
    BY <1>1, <1>2, <1>3, OftAssumption DEF InMessage
  <1>6. left \in Nat /\ remote[p] \in Nat /\ left = remote[p] - sd
    BY <1>1, <1>2, <1>3
  <1> HIDE DEF m, left
  <1>7. m \notin inbox
    BY <1>1, <1>4 DEF IInv, Fresh
  <1>8. Sized(inbox') /\ UnitsIn(inbox') = UnitsIn(inbox) + sd
    BY <1>1, <1>2, <1>3, <1>4, <1>7, UnitsAdd
  <1>9. remote' \in [Peer -> Nat] /\ SumFunction(remote') = SumFunction(remote) - sd
    <2>1. SumFunction(remote') = SumFunction(remote) - remote[p] + left
      <3>1. left \in Nat
        BY <1>6
      <3>2. IsFiniteSet(Peer) /\ remote \in [Peer -> Nat] /\ p \in Peer
        BY <1>1, OftAssumption
      <3>3. SumFunction([remote EXCEPT ![p] = left]) = SumFunction(remote) - remote[p] + left
        BY <3>1, <3>2, SumUpdate
      <3> QED BY <1>3, <3>3
    <2>2. SumFunction(remote') = SumFunction(remote) - sd
      BY <1>1, <1>2, <1>6, <2>1
    <2> QED BY <1>1, <1>3, <1>6, <2>2
  <1>10. AbroadIsSum'
    <2>1. abroad = SumFunction(remote') + UnitsIn(outbox) + UnitsIn(inbox') + misread
      BY <1>1, <1>2, <1>8, <1>9 DEF IInv, AbroadIsSum
    <2>2. UnitsIn(outbox)' = UnitsIn(outbox) /\ UnitsIn(inbox)' = UnitsIn(inbox')
      BY <1>3 DEF UnitsIn
    <2> QED BY <1>3, <2>1, <2>2 DEF AbroadIsSum, LedgerSame
  <1>11. Fresh'
    <2>1. ASSUME NEW x \in inbox' PROVE x.nonce <= inNonce'
      <3>1. CASE x = m
        BY <1>1, <1>3, <1>4, <3>1
      <3>2. CASE x \in inbox
        <4>1. x.nonce <= inNonce /\ x.nonce \in Nat
          BY <3>2 DEF IInv, Fresh, TypeOK, InMessage
        <4> QED BY <1>1, <1>3, <4>1
      <3> QED BY <1>3, <3>1, <3>2
    <2> QED BY <1>3, <1>8, <2>1 DEF Fresh, IInv, Sized
  <1>12. TypeOK'
    BY <1>3, <1>5, <1>9 DEF IInv, TypeOK, LedgerSame
  <1> QED BY <1>3, <1>10, <1>11, <1>12, LedgerSameStep DEF IInv

LEMMA TakeFromInbox ==
  ASSUME IInv, NEW m \in inbox, Clear(m)
  PROVE  /\ m.amount_sd \in Nat /\ m.amount_sd <= abroad
         /\ inbox' \subseteq inbox /\ IsFiniteSet(inbox')
         /\ UnitsIn(inbox') \in Nat /\ UnitsIn(inbox) = UnitsIn(inbox') + m.amount_sd
  <1> DEFINE sd == m.amount_sd
  <1>1. /\ Sized(inbox) /\ UnitsIn(outbox) \in Nat /\ UnitsIn(inbox) \in Nat
        /\ SumFunction(remote) \in Nat /\ misread \in Nat /\ abroad \in Nat
    BY Facts
  <1>2. /\ inbox' = inbox \ {m} /\ Sized(inbox') /\ sd \in Nat /\ UnitsIn(inbox') \in Nat
        /\ UnitsIn(inbox) = UnitsIn(inbox') + sd
    BY <1>1, UnitsRemove DEF Clear
  <1> HIDE DEF sd
  <1>3. sd <= abroad
    BY <1>1, <1>2 DEF IInv, AbroadIsSum
  <1> QED BY <1>2, <1>3 DEF Sized, sd

LEMMA LzReceiveAsNftStep ==
  ASSUME IInv, NEW m \in inbox, LzReceiveAsNft(m)
  PROVE  IInv'
  <1> DEFINE sd == m.amount_sd
  <1>1. /\ UnitsIn(outbox) \in Nat /\ UnitsIn(inbox) \in Nat /\ SumFunction(remote) \in Nat
        /\ misread \in Nat
    BY Facts
  <1>2. /\ Clear(m) /\ misread' = misread + sd
        /\ LedgerSame /\ UNCHANGED <<peer, outbox, outNonce, inNonce, remote>>
    BY DEF LzReceiveAsNft, ledger, LedgerSame
  <1>3. /\ sd \in Nat /\ inbox' \subseteq inbox /\ IsFiniteSet(inbox')
        /\ UnitsIn(inbox') \in Nat /\ UnitsIn(inbox) = UnitsIn(inbox') + sd
    BY <1>2, TakeFromInbox
  <1> HIDE DEF sd
  <1>4. AbroadIsSum'
    <2>1. abroad = SumFunction(remote) + UnitsIn(outbox) + UnitsIn(inbox') + misread'
      BY <1>1, <1>2, <1>3 DEF IInv, AbroadIsSum
    <2>2. UnitsIn(outbox)' = UnitsIn(outbox) /\ UnitsIn(inbox)' = UnitsIn(inbox')
      BY <1>2 DEF UnitsIn
    <2> QED BY <1>2, <2>1, <2>2 DEF AbroadIsSum, LedgerSame
  <1>5. misread' \in Nat
    BY <1>1, <1>2, <1>3
  <1>6. Fresh' /\ TypeOK'
    BY <1>2, <1>3, <1>5 DEF IInv, Fresh, TypeOK, LedgerSame
  <1> QED BY <1>2, <1>4, <1>6, LedgerSameStep DEF IInv

LEMMA LzReceiveStep ==
  ASSUME IInv, NEW m \in inbox, LzReceive(m)
  PROVE  IInv'
  <1> DEFINE sd == m.amount_sd
             u == m.send_to
             net == PostFeeAmountLd(fee, Sd2ld(sd))
             more == wallet[u] + net
             note == [nonce |-> m.nonce, to |-> u, amount_ld |-> net]
  <1>1. /\ fee \in TransferFees /\ MaxU64 \in Nat
        /\ wallet \in [User -> Nat] /\ escrow \in Nat /\ escrow <= MaxU64
        /\ supply \in Nat /\ supply <= MaxU64
        /\ abroad \in Nat /\ minted \in Nat /\ misread \in Nat
        /\ UnitsIn(outbox) \in Nat /\ UnitsIn(inbox) \in Nat
        /\ SumFunction(wallet) \in Nat /\ SumFunction(remote) \in Nat
    BY Facts
  <1>2. Clear(m) /\ u \in User /\ m.nonce \in 1 .. MaxNonce
    BY DEF LzReceive, IInv, TypeOK, InMessage
  <1>3. /\ sd \in Nat /\ sd <= abroad /\ inbox' \subseteq inbox /\ IsFiniteSet(inbox')
        /\ UnitsIn(inbox') \in Nat /\ UnitsIn(inbox) = UnitsIn(inbox') + sd
    BY <1>2, TakeFromInbox
  <1>4. Local(sd) \in Nat /\ Sd2ld(sd) = Local(sd)
    BY <1>3, LocalIs
  <1>5. /\ Local(sd) <= MaxU64
        /\ Adapter => Local(sd) <= escrow
        /\ ~ Adapter => supply + Local(sd) <= MaxU64
    BY <1>4 DEF LzReceive, Creditable
  <1>6. net \in Nat /\ net <= Local(sd) /\ (~ Adapter => net = Local(sd))
    BY <1>1, <1>4, PostFeeLd DEF PostFeeAmountLd
  <1>7. /\ wallet' = [wallet EXCEPT ![u] = more]
        /\ Adapter => escrow' = escrow - Local(sd) /\ supply' = supply
        /\ ~ Adapter => escrow' = escrow /\ supply' = supply + Local(sd)
        /\ composed' \subseteq composed \cup {note}
        /\ abroad' = abroad - sd
        /\ UNCHANGED <<fee, ext, peer, outbox, outNonce, inNonce, remote, minted, misread>>
    BY <1>4 DEF LzReceive, Credit, Announced
  <1>8. more \in Nat /\ wallet[u] \in Nat /\ more = wallet[u] + net
    BY <1>1, <1>2, <1>6
  <1>9. note \in [nonce : 1 .. MaxNonce, to : User, amount_ld : Amounts]
    BY <1>1, <1>2, <1>4, <1>5, <1>6 DEF Amounts
  <1> HIDE DEF sd, u, net, more, note
  <1>10. wallet' \in [User -> Nat] /\ SumFunction(wallet') = SumFunction(wallet) + net
    <2>1. more \in Nat
      BY <1>8
    <2>2. IsFiniteSet(User) /\ wallet \in [User -> Nat] /\ u \in User
      BY <1>1, <1>2, OftAssumption
    <2>3. SumFunction([wallet EXCEPT ![u] = more]) = SumFunction(wallet) - wallet[u] + more
      BY <2>1, <2>2, SumUpdate
    <2>4. SumFunction(wallet') = SumFunction(wallet) + net
      BY <1>1, <1>6, <1>7, <1>8, <2>3
    <2> QED BY <1>7, <2>1, <2>2, <2>4
  <1>11. Kept'
    <2>1. Adapter => SumFunction(wallet') + escrow' <= MaxU64
      BY <1>1, <1>4, <1>5, <1>6, <1>7, <1>10 DEF IInv, Kept
    <2>2. ~ Adapter => SumFunction(wallet') = supply'
      BY <1>6, <1>7, <1>10 DEF IInv, Kept
    <2> QED BY <1>7, <2>1, <2>2 DEF Kept, Adapter
  <1>12. abroad' \in Nat /\ Backed'
    <2>1. abroad - sd \in Nat
      BY <1>1, <1>3
    <2>2. Local(abroad - sd) = Local(abroad) - Local(sd) /\ Local(abroad) \in Nat
      BY <1>1, <1>3, LocalDifference, LocalIs
    <2>3. (Adapter => escrow = Local(abroad)) /\ (~ Adapter => minted - supply = Local(abroad))
      BY <1>1, BackedIs DEF IInv
    <2>4. Adapter => escrow' = Local(abroad')
      BY <1>7, <2>2, <2>3
    <2>5. ~ Adapter => minted - supply' = Local(abroad')
      BY <1>1, <1>4, <1>7, <2>2, <2>3
    <2>6. Ld2sdRate * abroad' = Local(abroad')
      BY <1>7, <2>1, LocalIs
    <2> QED BY <1>7, <2>1, <2>4, <2>5, <2>6 DEF Backed, Issued, Adapter
  <1>13. AbroadIsSum'
    <2>1. abroad' = SumFunction(remote) + UnitsIn(outbox) + UnitsIn(inbox') + misread
      BY <1>1, <1>3, <1>7 DEF IInv, AbroadIsSum
    <2>2. UnitsIn(outbox)' = UnitsIn(outbox) /\ UnitsIn(inbox)' = UnitsIn(inbox')
      BY <1>7 DEF UnitsIn
    <2> QED BY <1>7, <2>1, <2>2 DEF AbroadIsSum
  <1>14. Fresh'
    BY <1>3, <1>7 DEF IInv, Fresh
  <1>15. TypeOK'
    <2>1. escrow' \in Nat /\ escrow' <= MaxU64
      BY <1>1, <1>4, <1>5, <1>7
    <2>2. supply' \in Nat /\ supply' <= MaxU64
      BY <1>1, <1>4, <1>5, <1>7
    <2>3. SumFunction(wallet') <= MaxU64
      <3>1. SumFunction(wallet') \in Nat
        BY <1>10, SumNat, OftAssumption
      <3>2. (Adapter => SumFunction(wallet') + escrow' <= MaxU64)
            /\ (~ Adapter => SumFunction(wallet') = supply')
        BY <1>7, <1>11 DEF Kept, Adapter
      <3> QED BY <1>1, <2>1, <2>2, <3>1, <3>2
    <2>4. wallet' \in [User -> Amounts] /\ escrow' \in Amounts /\ supply' \in Amounts
      BY <1>1, <1>10, <2>1, <2>2, <2>3, WalletFits DEF Amounts
    <2> QED BY <1>3, <1>7, <1>9, <1>12, <2>4 DEF IInv, TypeOK
  <1> QED BY <1>11, <1>12, <1>13, <1>14, <1>15 DEF IInv

LEMMA MintToStep ==
  ASSUME IInv, NEW u \in User, NEW a \in Amount, MintTo(u, a)
  PROVE  IInv'
  <1> DEFINE more == wallet[u] + a
  <1>1. /\ wallet \in [User -> Nat] /\ supply \in Nat /\ minted \in Nat /\ MaxU64 \in Nat
        /\ SumFunction(wallet) \in Nat
    BY Facts
  <1>2. a \in Nat
    BY <1>1, OftAssumption DEF Amounts
  <1>3. /\ ~ Adapter /\ supply + a <= MaxU64
        /\ wallet' = [wallet EXCEPT ![u] = more]
        /\ supply' = supply + a /\ minted' = minted + a
        /\ UNCHANGED <<fee, escrow, ext, peer, outbox, inbox, outNonce, inNonce, remote,
                       composed, abroad, misread>>
    BY DEF MintTo, Adapter, channel
  <1>4. more \in Nat /\ wallet[u] \in Nat /\ more = wallet[u] + a
    BY <1>1, <1>2
  <1> HIDE DEF more
  <1>5. wallet' \in [User -> Nat] /\ SumFunction(wallet') = SumFunction(wallet) + a
    <2>1. more \in Nat
      BY <1>4
    <2>2. IsFiniteSet(User) /\ wallet \in [User -> Nat] /\ u \in User
      BY <1>1, OftAssumption
    <2>3. SumFunction([wallet EXCEPT ![u] = more]) = SumFunction(wallet) - wallet[u] + more
      BY <2>1, <2>2, SumUpdate
    <2>4. SumFunction(wallet') = SumFunction(wallet) + a
      BY <1>1, <1>2, <1>3, <1>4, <2>3
    <2> QED BY <1>3, <2>1, <2>2, <2>4
  <1>6. SumFunction(wallet') = supply' /\ supply' \in Nat /\ supply' <= MaxU64
    BY <1>1, <1>2, <1>3, <1>5 DEF IInv, Kept
  <1>7. Kept'
    BY <1>3, <1>6 DEF Kept, Adapter
  <1>8. Backed'
    <2>1. minted' - supply' = minted - supply
      BY <1>1, <1>2, <1>3
    <2> QED BY <1>3, <2>1 DEF IInv, Backed, Issued, Adapter
  <1>9. AbroadIsSum' /\ Fresh'
    BY <1>3 DEF IInv, AbroadIsSum, UnitsIn, Fresh
  <1>10. TypeOK'
    <2>1. wallet' \in [User -> Amounts]
      BY <1>5, <1>6, WalletFits
    <2>2. supply' \in Amounts /\ minted' \in Nat
      BY <1>1, <1>2, <1>3, <1>6 DEF Amounts
    <2> QED BY <1>3, <2>1, <2>2 DEF IInv, TypeOK
  <1> QED BY <1>7, <1>8, <1>9, <1>10 DEF IInv

\* Settings and epochs move no tokens.
Balances == <<wallet, escrow, supply, outbox, inbox, outNonce, inNonce, remote, composed,
              abroad, minted, misread>>

LEMMA SettingStep ==
  ASSUME IInv, UNCHANGED Balances, Adapter' = Adapter,
         fee' \in Fee, ext' \in {"adapter", "mintable", "native"}, peer' \in Peer \cup {NoPeer}
  PROVE  IInv'
  <1>1. TypeOK'
    BY DEF IInv, TypeOK, Balances
  <1>2. Backed' /\ Kept'
    BY DEF IInv, Backed, Issued, Kept, Balances
  <1>3. AbroadIsSum' /\ Fresh'
    BY DEF IInv, AbroadIsSum, UnitsIn, Fresh, Balances
  <1> QED BY <1>1, <1>2, <1>3 DEF IInv

LEMMA StepIInv == ASSUME IInv, [Next]_oftVars PROVE IInv'
  <1>1. ASSUME NEW u \in User, NEW a \in Amount, NEW min \in QuotedMinimum, Send(u, a, min)
        PROVE  IInv'
    BY <1>1, SendStep
  <1>2. ASSUME NEW m \in outbox, ReceiveRemote(m) PROVE IInv'
    BY <1>2, ReceiveRemoteStep
  <1>3. ASSUME NEW p \in Peer, NEW u \in User, NEW sd \in 1 .. MaxU64, NEW c \in BOOLEAN,
               SendRemote(p, u, sd, c)
        PROVE  IInv'
    BY <1>3, SendRemoteStep
  <1>4. ASSUME NEW m \in inbox, LzReceive(m) PROVE IInv'
    BY <1>4, LzReceiveStep
  <1>5. ASSUME NEW m \in inbox, LzReceiveAsNft(m) PROVE IInv'
    BY <1>5, LzReceiveAsNftStep
  <1>6. ASSUME NEW u \in User, NEW a \in Amount, MintTo(u, a) PROVE IInv'
    BY <1>6, MintToStep
  <1>7. CASE RemoveMintAuthority
    <2>1. /\ UNCHANGED Balances /\ Adapter' = Adapter /\ fee' = fee /\ peer' = peer
          /\ ext' = "native"
      BY <1>7 DEF RemoveMintAuthority, Balances, ledger, channel, history, Adapter
    <2> QED BY <2>1, SettingStep DEF IInv, TypeOK
  <1>8. ASSUME NEW p \in Peer, SetPeer(p) PROVE IInv'
    <2>1. UNCHANGED Balances /\ Adapter' = Adapter /\ fee' = fee /\ peer' = p /\ ext' = ext
      BY <1>8 DEF SetPeer, Balances, ledger, channel, history, Adapter
    <2> QED BY <2>1, SettingStep DEF IInv, TypeOK
  <1>9. ASSUME NEW f \in Fee, NewEpoch(f) PROVE IInv'
    <2>1. UNCHANGED Balances /\ Adapter' = Adapter /\ fee' = f /\ peer' = peer /\ ext' = ext
      BY <1>9 DEF NewEpoch, Balances, ledger, channel, history, Adapter
    <2> QED BY <2>1, SettingStep DEF IInv, TypeOK
  <1>10. CASE UNCHANGED oftVars
    <2>1. UNCHANGED Balances /\ Adapter' = Adapter /\ fee' = fee /\ peer' = peer /\ ext' = ext
      BY <1>10 DEF oftVars, Balances, ledger, channel, history, Adapter
    <2> QED BY <2>1, SettingStep DEF IInv, TypeOK
  <1> QED
    BY <1>1, <1>2, <1>3, <1>4, <1>5, <1>6, <1>7, <1>8, <1>9, <1>10 DEF Next

LEMMA Invariance == Spec => []IInv
  <1>1. Init => IInv
    BY InitIInv
  <1>2. IInv /\ [Next]_oftVars => IInv'
    BY StepIInv
  <1> QED BY <1>1, <1>2, PTL DEF Spec

-----------------------------------------------------------------------------
LEMMA LimitedIsStep == ASSUME [LimitedNext]_vars PROVE [Next]_oftVars
  <1>1. ASSUME NEW u \in User, NEW a \in Amount, NEW min \in QuotedMinimum,
               LimitedSend(u, a, min)
        PROVE  Next
    BY <1>1 DEF LimitedSend, Next
  <1>2. ASSUME NEW m \in inbox, LimitedReceive(m) PROVE Next
    BY <1>2 DEF LimitedReceive, Next
  <1>3. CASE Configure \/ Tick \/ UNCHANGED vars
    BY <1>3 DEF Configure, Tick, vars
  <1>4. CASE Unlimited
    BY <1>4 DEF Unlimited, Next
  <1> QED BY <1>1, <1>2, <1>3, <1>4 DEF LimitedNext

(***************************************************************************)
(* The limiter only takes steps away: every step of LimitedOft is one of   *)
(* SolanaOft, or leaves all that SolanaOft speaks of as it is.  What is    *)
(* proved of the program without its limiter holds with it.                *)
(***************************************************************************)
THEOREM LimiterOnlyRestricts == LimitedSpec => Spec
  <1>1. LimitedInit => Init
    BY DEF LimitedInit
  <1>2. [LimitedNext]_vars => [Next]_oftVars
    BY LimitedIsStep
  <1> QED BY <1>1, <1>2, PTL DEF LimitedSpec, Spec

(***************************************************************************)
(* Every state is well typed; in particular no balance, escrow or supply   *)
(* leaves its u64.                                                         *)
(***************************************************************************)
THEOREM TypeCorrect == LimitedSpec => []TypeOK
  <1>1. IInv => TypeOK
    BY DEF IInv
  <1> QED BY <1>1, Invariance, LimiterOnlyRestricts, PTL

(***************************************************************************)
(* What the program holds is exactly what its messages promised abroad,    *)
(* for any fees, epochs, amounts and conversion rate.                      *)
(***************************************************************************)
THEOREM Solvent == LimitedSpec => []Backed
  <1>1. IInv => Backed
    BY DEF IInv
  <1> QED BY <1>1, Invariance, LimiterOnlyRestricts, PTL

(***************************************************************************)
(* Every unit abroad is in one place.                                      *)
(***************************************************************************)
THEOREM UnitsConserved == LimitedSpec => []AbroadIsSum
  <1>1. IInv => AbroadIsSum
    BY DEF IInv
  <1> QED BY <1>1, Invariance, LimiterOnlyRestricts, PTL

(***************************************************************************)
(* The escrow can pay each message under way, in whatever order they come: *)
(* a message is one of the units abroad, and the escrow backs them all.    *)
(***************************************************************************)
THEOREM EscrowPays == LimitedSpec => []AlwaysCreditable
  <1>1. ASSUME IInv, Adapter, NEW m \in inbox PROVE Creditable(m.amount_sd)
    <2> DEFINE sd == m.amount_sd
    <2>1. /\ abroad \in Nat /\ escrow \in Nat /\ escrow <= MaxU64 /\ MaxU64 \in Nat
          /\ Sized(inbox) /\ UnitsIn(outbox) \in Nat /\ UnitsIn(inbox) \in Nat
          /\ SumFunction(remote) \in Nat /\ misread \in Nat
      BY <1>1, Facts
    <2>2. sd \in Nat /\ sd <= UnitsIn(inbox)
      BY <2>1, UnitsNat DEF Sized
    <2> HIDE DEF sd
    <2>3. sd <= abroad
      BY <1>1, <2>1, <2>2 DEF IInv, AbroadIsSum
    <2>4. Local(sd) <= Local(abroad) /\ Local(sd) \in Nat /\ Sd2ld(sd) = Local(sd)
      BY <2>1, <2>2, <2>3, LocalDifference, LocalIs
    <2>5. escrow = Local(abroad)
      BY <1>1, <2>1, BackedIs DEF IInv
    <2>6. Sd2ld(sd) <= escrow /\ Sd2ld(sd) <= MaxU64
      BY <2>1, <2>4, <2>5
    <2> QED BY <1>1, <2>6 DEF Creditable, sd
  <1>2. IInv => AlwaysCreditable
    BY <1>1 DEF AlwaysCreditable
  <1> QED BY <1>2, Invariance, LimiterOnlyRestricts, PTL

(***************************************************************************)
(* A sender pays no more than named and no more than it takes, and what is *)
(* promised is at least the minimum: because the program inverts the fee   *)
(* exactly, at every rate and maximum.                                     *)
(***************************************************************************)
THEOREM SendersChargedFairly == LimitedSpec => FairCharge
  <1>1. ASSUME IInv, NEW u \in User, NEW a \in Amount, NEW min \in QuotedMinimum,
               Send(u, a, min)
        PROVE  ChargeIsFair(u, a, min)
    <2> DEFINE promised == AmountReceivedLd(fee, a)
               paid == AmountSentLd(fee, a)
    <2>1. /\ fee \in TransferFees /\ MaxU64 \in Nat /\ a \in Nat
          /\ wallet \in [User -> Nat] /\ abroad \in Nat
      BY <1>1, Facts, OftAssumption DEF Amounts
    <2>2. /\ promised \in Nat /\ paid \in Nat /\ paid <= a
          /\ Ld2sd(promised) \in Nat /\ Local(Ld2sd(promised)) = promised
          /\ \A less \in Nat : less < paid => PostFeeAmountLd(fee, less) < promised
      BY <2>1, ChargeIs
    <2>3. /\ promised >= min
          /\ wallet' = [wallet EXCEPT ![u] = @ - paid]
          /\ abroad' = abroad + Ld2sd(promised)
      BY <1>1 DEF Send, LockOrBurn
    <2> HIDE DEF promised, paid
    <2>4. wallet[u] - wallet'[u] = paid
      BY <2>1, <2>2, <2>3
    <2>5. Ld2sdRate * (abroad' - abroad) = promised
      <3>1. abroad' - abroad = Ld2sd(promised)
        BY <2>1, <2>2, <2>3
      <3> QED BY <2>2, <3>1, LocalIs
    <2>6. \A less \in 0 .. paid - 1 : PostFeeAmountLd(fee, less) < promised
      BY <2>2
    <2> QED BY <2>2, <2>3, <2>4, <2>5, <2>6 DEF ChargeIsFair
  <1>2. IInv /\ [Next]_oftVars
          => (outNonce' # outNonce =>
                \A u \in User, a \in Amount, min \in QuotedMinimum :
                  Send(u, a, min) => ChargeIsFair(u, a, min))
    BY <1>1
  <1> QED BY <1>2, Invariance, LimiterOnlyRestricts, PTL DEF Spec, FairCharge

(***************************************************************************)
(* What a composer is told is what its wallet received.                    *)
(***************************************************************************)
THEOREM ComposersToldTheTruth == LimitedSpec => ComposerToldTheTruth
  <1>1. ASSUME IInv, NEW m \in inbox, LzReceive(m), NEW c \in composed' \ composed
        PROVE  wallet'[c.to] - wallet[c.to] = c.amount_ld
    <2> DEFINE sd == m.amount_sd
               u == m.send_to
               net == PostFeeAmountLd(fee, Sd2ld(sd))
    <2>1. fee \in TransferFees /\ wallet \in [User -> Nat]
      BY <1>1, Facts
    <2>2. sd \in Nat /\ u \in User
      BY <1>1 DEF IInv, TypeOK, InMessage
    <2>3. net \in Nat
      BY <2>1, <2>2, LocalIs, PostFeeLd
    <2>4. c.to = u /\ c.amount_ld = net /\ wallet' = [wallet EXCEPT ![u] = @ + net]
      BY <1>1 DEF LzReceive, Credit, Announced
    <2> HIDE DEF u, net
    <2> QED BY <2>1, <2>2, <2>3, <2>4
  <1>2. ASSUME IInv, [Next]_oftVars PROVE TellsTheTruth
    <2>1. CASE \E m \in inbox : LzReceive(m)
      BY <1>1, <1>2, <2>1 DEF TellsTheTruth
    <2>2. CASE ~ \E m \in inbox : LzReceive(m)
      <3>1. composed' = composed
        BY <1>2, <2>2 DEF Next, oftVars, Send, ReceiveRemote, SendRemote, LzReceiveAsNft, MintTo,
             RemoveMintAuthority, SetPeer, NewEpoch
      <3> QED BY <3>1 DEF TellsTheTruth
    <2> QED BY <2>1, <2>2
  <1> QED BY <1>2, Invariance, LimiterOnlyRestricts, PTL DEF Spec, ComposerToldTheTruth

(***************************************************************************)
(* What a native OFT has at home and abroad together stays as it is when   *)
(* it sends and receives; only mint_to adds to it.                         *)
(***************************************************************************)
THEOREM OnlyMintOverfills == LimitedSpec => OnlyMintingOverfills
  <1>1. ASSUME IInv, ~ Adapter, NEW u \in User, NEW a \in Amount, NEW min \in QuotedMinimum,
               Send(u, a, min)
        PROVE  supply' + Ld2sdRate * abroad' = supply + Ld2sdRate * abroad
    <2> DEFINE promised == AmountReceivedLd(fee, a)
               paid == AmountSentLd(fee, a)
               sd == Ld2sd(promised)
    <2>1. /\ fee \in TransferFees /\ MaxU64 \in Nat /\ a \in Nat
          /\ supply \in Nat /\ abroad \in Nat
      BY <1>1, Facts, OftAssumption DEF Amounts
    <2>2. /\ promised \in Nat /\ paid \in Nat /\ sd \in Nat /\ Local(sd) = promised
          /\ PostFeeAmountLd(fee, paid) = promised
      BY <2>1, ChargeIs
    <2>3. promised = paid /\ supply' = supply - paid /\ abroad' = abroad + sd
      BY <1>1, <2>2 DEF Send, LockOrBurn, PostFeeAmountLd
    <2> HIDE DEF promised, paid, sd
    <2>4. Local(abroad') = Local(abroad) + Local(sd) /\ Local(abroad) \in Nat
      BY <2>1, <2>2, <2>3, LocalSum, LocalIs
    <2>5. abroad + sd \in Nat
      BY <2>1, <2>2
    <2>6. Ld2sdRate * abroad' = Local(abroad') /\ Ld2sdRate * abroad = Local(abroad)
      BY <2>1, <2>3, <2>5, LocalIs
    <2> QED BY <2>1, <2>2, <2>3, <2>4, <2>6
  <1>2. ASSUME IInv, ~ Adapter, NEW m \in inbox, LzReceive(m)
        PROVE  supply' + Ld2sdRate * abroad' = supply + Ld2sdRate * abroad
    <2> DEFINE sd == m.amount_sd
    <2>1. supply \in Nat /\ abroad \in Nat
      BY <1>2, Facts
    <2>2. Clear(m) /\ supply' = supply + Sd2ld(sd) /\ abroad' = abroad - sd
      BY <1>2 DEF LzReceive, Credit
    <2>3. sd \in Nat /\ sd <= abroad
      BY <1>2, <2>2, TakeFromInbox
    <2> HIDE DEF sd
    <2>4. Local(abroad - sd) = Local(abroad) - Local(sd) /\ Local(abroad) \in Nat
          /\ Local(sd) \in Nat /\ Sd2ld(sd) = Local(sd)
      BY <2>1, <2>3, LocalDifference, LocalIs
    <2>5. abroad - sd \in Nat
      BY <2>1, <2>3
    <2>6. Ld2sdRate * abroad' = Local(abroad') /\ Ld2sdRate * abroad = Local(abroad)
      BY <2>1, <2>2, <2>5, LocalIs
    <2> QED BY <2>1, <2>2, <2>4, <2>6
  <1>3. ASSUME IInv, [Next]_oftVars PROVE OverfillsByMinting
    <2>1. CASE \E u \in User, a \in Amount, min \in QuotedMinimum : Send(u, a, min)
      BY <1>1, <1>3, <2>1 DEF OverfillsByMinting, Redeemable
    <2>2. CASE \E m \in inbox : LzReceive(m)
      BY <1>2, <1>3, <2>2 DEF OverfillsByMinting, Redeemable
    <2>3. CASE \E u \in User, a \in Amount : MintTo(u, a)
      BY <2>3 DEF OverfillsByMinting
    <2>4. CASE UNCHANGED <<supply, abroad>>
      BY <2>4 DEF OverfillsByMinting, Redeemable
    <2>5. \/ \E u \in User, a \in Amount, min \in QuotedMinimum : Send(u, a, min)
          \/ \E m \in inbox : LzReceive(m)
          \/ \E u \in User, a \in Amount : MintTo(u, a)
          \/ UNCHANGED <<supply, abroad>>
      BY <1>3 DEF Next, oftVars, ledger, history, ReceiveRemote, SendRemote, LzReceiveAsNft,
                  RemoveMintAuthority, SetPeer, NewEpoch
    <2> QED BY <2>1, <2>2, <2>3, <2>4, <2>5
  <1> QED BY <1>3, Invariance, LimiterOnlyRestricts, PTL DEF Spec, OnlyMintingOverfills

-----------------------------------------------------------------------------
(***************************************************************************)
(* The limiter.  RLP is RateLimiter with its proofs, as LimitedOft uses    *)
(* it: any u64 may be sent or received.                                    *)
(***************************************************************************)
RLP == INSTANCE RateLimiterProofs WITH Amount <- Amounts, Rate <- RefillRate

LEMMA LimiterAssumed ==
  /\ MaxU64 \in Nat
  /\ Amounts \subseteq 0 .. MaxU64
  /\ Capacity \subseteq 0 .. MaxU64
  /\ RefillRate \subseteq 0 .. MaxU64
  /\ NotGiven \notin Nat
  /\ NoLimiter \notin RLP!Limiter
  BY FeeWidthAssumption, LimiterAssumption DEF Amounts, RLP!Limiter, RL!Limiter, RLP!U64, RL!U64

\* RL, in which LimitedOft is written, and RLP say the same.
LEMMA SameRefill ==
  /\ RL!Limited <=> RLP!Limited
  /\ \A r, x : RL!RefillFits(r, x) <=> RLP!RefillFits(r, x)
  /\ \A r, x : RL!Refilled(r, x) = RLP!Refilled(r, x)
  BY DEF RL!Limited, RLP!Limited, RL!RefillFits, RLP!RefillFits, RL!Refilled, RLP!Refilled,
         RL!Earned, RLP!Earned, RL!Elapsed, RLP!Elapsed, RL!Capped, RLP!Capped

LEMMA SameTransfers ==
  /\ \A a : RL!Send(a) <=> RLP!Send(a)
  /\ \A a : RL!Receive(a) <=> RLP!Receive(a)
  BY SameRefill DEF RL!Send, RLP!Send, RL!Receive, RLP!Receive

LEMMA SameSettings ==
  /\ RL!Disable <=> RLP!Disable
  /\ RL!StartWindow <=> RLP!StartWindow
  /\ RL!Tick <=> RLP!Tick
  /\ \A c, n : RL!SetRateLimit(c, n) <=> RLP!SetRateLimit(c, n)
  <1>1. RL!Tick <=> RLP!Tick
    BY DEF RL!Tick, RLP!Tick
  <1>2. RL!OpenWindow <=> RLP!OpenWindow
    BY DEF RL!OpenWindow, RLP!OpenWindow
  <1>3. (RL!Disable <=> RLP!Disable) /\ (RL!StartWindow <=> RLP!StartWindow)
    BY <1>2 DEF RL!Disable, RLP!Disable, RL!StartWindow, RLP!StartWindow
  <1>4. \A c, n : RL!SetRateLimit(c, n) <=> RLP!SetRateLimit(c, n)
    BY <1>2, SameRefill DEF RL!SetRateLimit, RLP!SetRateLimit, RL!WithCapacity,
         RLP!WithCapacity, RL!WithRate, RLP!WithRate, RL!DefaultLimiter, RLP!DefaultLimiter
  <1> QED BY <1>1, <1>3, <1>4

(***************************************************************************)
(* What was sent since windowStart is at least what is owed more than at   *)
(* that moment, and what was received at most what is owed less.           *)
(***************************************************************************)
Flow ==
  /\ abroadAtStart \in Nat
  /\ RL!Limited => Ld2sdRate * abroad + received <= Ld2sdRate * abroadAtStart + sent

LimitedIInv == IInv /\ RLP!IInv /\ Flow

LEMMA LimiterFacts ==
  ASSUME RLP!IInv
  PROVE  /\ now \in Nat /\ sent \in Nat /\ received \in Nat /\ windowStart \in Nat
         /\ windowStart <= now
         /\ RL!Limited => /\ limiter.capacity \in 0 .. MaxU64
                          /\ limiter.tokens \in 0 .. MaxU64
                          /\ limiter.refill_per_second \in 0 .. MaxU64
                          /\ limiter.last_refill_time \in Nat
  BY DEF RLP!IInv, RLP!TypeOK, RLP!Limiter, RLP!U64, RL!Limited

\* What a send takes from the bucket and what a receive puts back are u64s.
LEMMA SendTakes ==
  ASSUME IInv, NEW u \in User, NEW a \in Amount, NEW min \in QuotedMinimum, Send(u, a, min)
  PROVE  LET paid == AmountSentLd(fee, a)
         IN  /\ paid \in Amounts
             /\ abroad' \in Nat
             /\ Local(abroad') <= Local(abroad) + paid
  <1> DEFINE promised == AmountReceivedLd(fee, a)
             paid == AmountSentLd(fee, a)
             sd == Ld2sd(promised)
  <1>1. fee \in TransferFees /\ MaxU64 \in Nat /\ a \in Nat /\ abroad \in Nat
    BY Facts, OftAssumption DEF Amounts
  <1>2. /\ promised \in Nat /\ paid \in Nat /\ sd \in Nat /\ Local(sd) = promised
        /\ promised <= paid
    BY <1>1, ChargeIs
  <1>3. paid <= MaxU64 /\ abroad' = abroad + sd
    BY DEF Send
  <1> HIDE DEF promised, paid, sd
  <1>4. Local(abroad + sd) = Local(abroad) + Local(sd) /\ Local(abroad) \in Nat
    BY <1>1, <1>2, LocalSum, LocalIs
  <1>5. abroad' \in Nat
    BY <1>1, <1>2, <1>3
  <1>6. Local(abroad') <= Local(abroad) + paid
    BY <1>2, <1>3, <1>4
  <1> QED BY <1>1, <1>2, <1>3, <1>5, <1>6 DEF Amounts, paid

LEMMA ReceivePutsBack ==
  ASSUME IInv, NEW m \in inbox, LzReceive(m)
  PROVE  LET net == ReceivedLd(m)
         IN  /\ net \in Amounts
             /\ abroad' \in Nat
             /\ Local(abroad') + net <= Local(abroad)
  <1> DEFINE sd == m.amount_sd
             net == ReceivedLd(m)
  <1>1. fee \in TransferFees /\ MaxU64 \in Nat /\ abroad \in Nat
    BY Facts
  <1>2. Clear(m) /\ abroad' = abroad - sd /\ Sd2ld(sd) <= MaxU64
    BY DEF LzReceive, Creditable
  <1>3. sd \in Nat /\ sd <= abroad
    BY <1>2, TakeFromInbox
  <1>4. Local(sd) \in Nat /\ Sd2ld(sd) = Local(sd)
    BY <1>3, LocalIs
  <1>5. net \in Nat /\ net <= Local(sd)
    BY <1>1, <1>4, PostFeeLd DEF ReceivedLd
  <1> HIDE DEF sd, net
  <1>6. Local(abroad - sd) = Local(abroad) - Local(sd) /\ Local(abroad) \in Nat
    BY <1>1, <1>3, LocalDifference, LocalIs
  <1>7. abroad' \in Nat
    BY <1>1, <1>2, <1>3
  <1>8. Local(abroad') + net <= Local(abroad)
    BY <1>2, <1>4, <1>5, <1>6
  <1>9. net <= MaxU64
    BY <1>1, <1>2, <1>4, <1>5
  <1> QED BY <1>1, <1>5, <1>7, <1>8, <1>9 DEF Amounts, net

LEMMA LimiterStep == ASSUME RLP!IInv, [RLP!Next]_limiterVars PROVE RLP!IInv'
  BY RLP!StepIInv, LimiterAssumed DEF limiterVars, RLP!vars

LEMMA FlowIs ==
  ASSUME abroad \in Nat, abroadAtStart \in Nat
  PROVE  Flow <=> (RL!Limited => Local(abroad) + received <= Local(abroadAtStart) + sent)
  BY LocalIs DEF Flow

LEMMA LimitedInitIInv == LimitedInit => LimitedIInv
  <1> SUFFICES ASSUME LimitedInit PROVE LimitedIInv
    OBVIOUS
  <1>1. IInv
    BY InitIInv DEF LimitedInit
  <1>2. RLP!IInv
    <2>1. RLP!Init
      BY DEF LimitedInit, RL!Init, RLP!Init
    <2> QED BY <2>1, RLP!InitIInv, LimiterAssumed
  <1>3. Flow
    BY DEF LimitedInit, RL!Init, RL!Limited, Flow
  <1> QED BY <1>1, <1>2, <1>3 DEF LimitedIInv

\* What a step of the whole is to the limiter, and to what is owed abroad.
LEMMA LimitedStepParts ==
  ASSUME LimitedIInv, [LimitedNext]_vars
  PROVE  [RLP!Next]_limiterVars /\ Flow'
  <1> USE DEF LimitedIInv
  <1>1. IInv'
    BY LimitedIsStep, StepIInv
  <1>2. /\ abroad \in Nat /\ abroad' \in Nat /\ abroadAtStart \in Nat
        /\ sent \in Nat /\ received \in Nat
        /\ Local(abroad) \in Nat /\ Local(abroadAtStart) \in Nat
    <2>1. abroad \in Nat /\ abroad' \in Nat
      BY <1>1 DEF IInv, TypeOK
    <2>2. abroadAtStart \in Nat
      BY DEF Flow
    <2>3. Local(abroad) \in Nat /\ Local(abroadAtStart) \in Nat
      BY <2>1, <2>2, LocalIs
    <2> QED BY <2>1, <2>2, <2>3, LimiterFacts
  <1>3. RL!Limited => Local(abroad) + received <= Local(abroadAtStart) + sent
    BY <1>2, FlowIs
  <1>4. ASSUME NEW u \in User, NEW a \in Amount, NEW min \in QuotedMinimum, LimitedSend(u, a, min)
        PROVE  [RLP!Next]_limiterVars /\ Flow'
    <2> DEFINE paid == AmountSentLd(fee, a)
    <2>1. /\ Send(u, a, min) /\ abroadAtStart' = abroadAtStart
          /\ RL!Limited => RL!Send(paid)
          /\ ~ RL!Limited => UNCHANGED limiterVars
      BY <1>4 DEF LimitedSend
    <2>2. paid \in Amounts /\ Local(abroad') <= Local(abroad) + paid
      BY <2>1, SendTakes
    <2> HIDE DEF paid
    <2>3. paid \in Nat /\ Local(abroad') \in Nat
      BY <1>2, <2>2, FeeWidthAssumption, LocalIs DEF Amounts
    <2>4. CASE RL!Limited
      <3>1. RLP!Next
        BY <2>1, <2>2, <2>4, SameTransfers DEF RLP!Next
      <3>2. sent' = sent + paid /\ received' = received
        BY <2>1, <2>4 DEF RL!Send
      <3>3. Local(abroad') + received' <= Local(abroadAtStart) + sent'
        BY <1>2, <1>3, <2>2, <2>3, <2>4, <3>2
      <3>4. Ld2sdRate * abroad' = Local(abroad') /\ Ld2sdRate * abroadAtStart = Local(abroadAtStart)
        BY <1>2, LocalIs
      <3> QED BY <1>2, <2>1, <3>1, <3>3, <3>4 DEF Flow
    <2>5. CASE ~ RL!Limited
      BY <1>2, <2>1, <2>5 DEF limiterVars, RL!Limited, Flow
    <2> QED BY <2>4, <2>5
  <1>5. ASSUME NEW m \in inbox, LimitedReceive(m)
        PROVE  [RLP!Next]_limiterVars /\ Flow'
    <2> DEFINE net == ReceivedLd(m)
    <2>1. /\ LzReceive(m) /\ abroadAtStart' = abroadAtStart
          /\ RL!Limited => RL!Receive(net)
          /\ ~ RL!Limited => UNCHANGED limiterVars
      BY <1>5 DEF LimitedReceive, Refill
    <2>2. net \in Amounts /\ Local(abroad') + net <= Local(abroad)
      BY <2>1, ReceivePutsBack
    <2> HIDE DEF net
    <2>3. net \in Nat /\ Local(abroad') \in Nat
      BY <1>2, <2>2, FeeWidthAssumption, LocalIs DEF Amounts
    <2>4. CASE RL!Limited
      <3>1. RLP!Next
        BY <2>1, <2>2, <2>4, SameTransfers DEF RLP!Next
      <3>2. sent' = sent /\ received' = received + net
        BY <2>1, <2>4 DEF RL!Receive
      <3>3. Local(abroad') + received' <= Local(abroadAtStart) + sent'
        BY <1>2, <1>3, <2>2, <2>3, <2>4, <3>2
      <3>4. Ld2sdRate * abroad' = Local(abroad') /\ Ld2sdRate * abroadAtStart = Local(abroadAtStart)
        BY <1>2, LocalIs
      <3> QED BY <1>2, <2>1, <3>1, <3>3, <3>4 DEF Flow
    <2>5. CASE ~ RL!Limited
      BY <1>2, <2>1, <2>5 DEF limiterVars, RL!Limited, Flow
    <2> QED BY <2>4, <2>5
  <1>6. ASSUME Configure PROVE [RLP!Next]_limiterVars /\ Flow'
    <2>1. RLP!Next
      BY <1>6, SameSettings DEF Configure, RLP!Next
    <2>2. abroadAtStart' = abroad /\ abroad' = abroad /\ sent' = 0 /\ received' = 0
      BY <1>6 DEF Configure, oftVars, history, RL!Disable, RL!StartWindow, RL!SetRateLimit, RL!OpenWindow
    <2>3. Ld2sdRate * abroad \in Nat
      BY <1>2, LocalIs
    <2> QED BY <1>2, <2>1, <2>2, <2>3 DEF Flow
  <1>7. ASSUME Tick PROVE [RLP!Next]_limiterVars /\ Flow'
    <2>1. RLP!Next
      BY <1>7, SameSettings DEF Tick, RLP!Next
    <2>2. UNCHANGED <<abroad, abroadAtStart, limiter, sent, received>>
      BY <1>7 DEF Tick, RL!Tick, oftVars, history
    <2> QED BY <2>1, <2>2 DEF Flow, RL!Limited
  <1>8. ASSUME Unlimited \/ UNCHANGED vars PROVE [RLP!Next]_limiterVars /\ Flow'
    <2>1. UNCHANGED <<limiterVars, abroad, abroadAtStart>>
      BY <1>8 DEF Unlimited, vars, oftVars, history, ReceiveRemote, SendRemote, LzReceiveAsNft,
                  MintTo, RemoveMintAuthority, SetPeer, NewEpoch
    <2> QED BY <2>1 DEF limiterVars, Flow, RL!Limited
  <1> QED BY <1>4, <1>5, <1>6, <1>7, <1>8 DEF LimitedNext

LEMMA LimitedStepIInv == ASSUME LimitedIInv, [LimitedNext]_vars PROVE LimitedIInv'
  <1>1. IInv'
    BY LimitedIsStep, StepIInv DEF LimitedIInv
  <1>2. [RLP!Next]_limiterVars /\ Flow'
    BY LimitedStepParts
  <1>3. RLP!IInv'
    BY <1>2, LimiterStep DEF LimitedIInv
  <1> QED BY <1>1, <1>2, <1>3 DEF LimitedIInv

LEMMA LimitedInvariance == LimitedSpec => []LimitedIInv
  <1>1. LimitedInit => LimitedIInv
    BY LimitedInitIInv
  <1>2. LimitedIInv /\ [LimitedNext]_vars => LimitedIInv'
    BY LimitedStepIInv
  <1> QED BY <1>1, <1>2, PTL DEF LimitedSpec

(***************************************************************************)
(* Seen at its own variables, the limiter of the whole program is the one  *)
(* of RateLimiter: send and lz_receive ask it with amounts it is made for, *)
(* also where fees and dust are taken, and nothing else touches it.  So    *)
(* what holds of RateLimiter holds of the program.                         *)
(***************************************************************************)
THEOREM LimiterImplemented == LimitedSpec => RL!Spec
  <1>1. LimitedInit => RL!Init
    BY DEF LimitedInit
  <1>2. LimitedIInv /\ [LimitedNext]_vars => [RL!Next]_(RL!vars)
    <2> SUFFICES ASSUME LimitedIInv, [LimitedNext]_vars PROVE [RL!Next]_(RL!vars)
      OBVIOUS
    <2>1. RL!Next <=> RLP!Next
      BY SameTransfers, SameSettings DEF RL!Next, RLP!Next
    <2>2. RL!vars = limiterVars /\ RL!vars' = limiterVars'
      BY DEF RL!vars, limiterVars
    <2>3. RLP!Next \/ limiterVars' = limiterVars
      BY LimitedStepParts
    <2> QED BY <2>1, <2>2, <2>3
  <1> QED BY <1>1, <1>2, LimitedInvariance, PTL DEF LimitedSpec, RL!Spec

(***************************************************************************)
(* What the program owes abroad grows, under one setting of the limiter,   *)
(* by no more than the capacity and what the refill grants in the time.    *)
(***************************************************************************)
THEOREM OutflowBounded == LimitedSpec => []NetOutflowBound
  <1>1. ASSUME LimitedIInv, RL!Limited
        PROVE  Ld2sdRate * abroad <=
                 Ld2sdRate * abroadAtStart + limiter.capacity
                   + 2 * ((now - windowStart) * limiter.refill_per_second)
    <2> DEFINE granted == 2 * ((now - windowStart) * limiter.refill_per_second)
               capacity == limiter.capacity
               rate == limiter.refill_per_second
    <2>1. sent <= capacity + received + granted
      BY <1>1, RLP!BudgetBounds, LimiterAssumed, SameRefill DEF LimitedIInv, RLP!WindowBound
    <2>2. /\ sent \in Nat /\ received \in Nat /\ capacity \in 0 .. MaxU64 /\ rate \in 0 .. MaxU64
          /\ now \in Nat /\ windowStart \in Nat /\ windowStart <= now
      BY <1>1, LimiterFacts DEF LimitedIInv
    <2>3. abroad \in Nat /\ abroadAtStart \in Nat
      BY <1>1 DEF LimitedIInv, IInv, TypeOK, Flow
    <2>4. /\ Ld2sdRate * abroad = Local(abroad) /\ Local(abroad) \in Nat
          /\ Ld2sdRate * abroadAtStart = Local(abroadAtStart) /\ Local(abroadAtStart) \in Nat
      BY <2>3, LocalIs
    <2>5. Ld2sdRate * abroad + received <= Ld2sdRate * abroadAtStart + sent
      BY <1>1 DEF LimitedIInv, Flow
    <2>6. granted \in Nat /\ capacity \in Nat
      <3> HIDE DEF rate, capacity
      <3>1. rate \in Nat /\ capacity \in Nat
        BY <2>2, FeeWidthAssumption
      <3>2. (now - windowStart) * rate \in Nat
        BY <2>2, <3>1
      <3> QED BY <3>1, <3>2 DEF rate
    <2> HIDE DEF granted, capacity
    <2>7. Local(abroad) <= Local(abroadAtStart) + capacity + granted
      BY <2>1, <2>2, <2>4, <2>5, <2>6
    <2> QED BY <2>4, <2>7 DEF granted, capacity
  <1>2. LimitedIInv => NetOutflowBound
    BY <1>1 DEF NetOutflowBound
  <1> QED BY <1>2, LimitedInvariance, PTL

\* A bucket that was refilled at this moment has earned nothing.
LEMMA FreshBucket ==
  ASSUME now \in Nat, now' = now,
         limiter'.last_refill_time = now, limiter'.refill_per_second \in Nat,
         NEW x \in Nat, x <= MaxU64
  PROVE  x + 2 * ((IF now' > limiter'.last_refill_time
                     THEN now' - limiter'.last_refill_time ELSE 0)
                  * limiter'.refill_per_second) <= MaxU64
  <1> DEFINE rate == limiter'.refill_per_second
             last == limiter'.last_refill_time
  <1>1. rate \in Nat
    OBVIOUS
  <1>2. last = now /\ now' = now
    OBVIOUS
  <1> HIDE DEF rate, last
  <1>3. (IF now' > last THEN now' - last ELSE 0) = 0
    BY <1>2
  <1>4. 0 * rate = 0
    BY <1>1
  <1>5. x + 2 * ((IF now' > last THEN now' - last ELSE 0) * rate) <= MaxU64
    BY <1>3, <1>4, FeeWidthAssumption
  <1> QED BY <1>5 DEF rate, last

(***************************************************************************)
(* A transfer never makes the bucket refuse a message that it would have   *)
(* taken: only time, a new setting or a new fee does.                      *)
(***************************************************************************)
THEOREM TransfersHoldUpNothing == LimitedSpec => HeldOnlyByOverflow
  <1>1. ASSUME LimitedIInv, NEW m \in inbox, ~ Held(m),
               RL!Limited, NEW x \in Amounts,
               \/ limiter' = RL!Refilled(limiter, x)
               \/ \E n : limiter' = [RL!Refilled(limiter, 0) EXCEPT !.tokens = n],
               UNCHANGED <<now, fee, ext>>
        PROVE  ~ Held(m)'
    <2> DEFINE net == ReceivedLd(m)
               sd == m.amount_sd
    <2>1. fee \in TransferFees /\ sd \in Nat /\ now \in Nat /\ MaxU64 \in Nat
      BY <1>1, Facts, LimiterFacts DEF LimitedIInv, Sized
    <2>2. net \in Nat /\ net' = net
      <3>1. Sd2ld(sd) \in Nat
        BY <2>1, LocalIs
      <3>2. net' = net
        BY <1>1 DEF ReceivedLd, PostFeeAmountLd, Adapter
      <3> QED BY <2>1, <3>1, <3>2, PostFeeLd DEF ReceivedLd
    <2>3. limiter'.last_refill_time = now /\ limiter'.refill_per_second = limiter.refill_per_second
          /\ limiter.refill_per_second \in 0 .. MaxU64 /\ limiter.last_refill_time \in Nat
      BY <1>1, LimiterFacts DEF LimitedIInv, RL!Refilled, RLP!IInv, RLP!TypeOK, RLP!Limiter, RL!Limited
    <2>4. net <= MaxU64
      <3> DEFINE rate == limiter.refill_per_second
                 last == limiter.last_refill_time
                 gap == IF now > last THEN now - last ELSE 0
      <3>1. net + 2 * (gap * rate) <= MaxU64
        BY <1>1 DEF Held, RL!RefillFits, RL!Earned, RL!Elapsed
      <3>2. rate \in 0 .. MaxU64 /\ last \in Nat
        BY <2>3
      <3> HIDE DEF rate, last
      <3>3. rate \in Nat /\ gap \in Nat
        BY <2>1, <3>2
      <3> HIDE DEF gap
      <3>4. gap * rate \in Nat
        BY <3>3
      <3> QED BY <2>1, <2>2, <3>1, <3>4
    <2>5. limiter'.refill_per_second \in Nat
      <3> DEFINE rate == limiter.refill_per_second
      <3>1. rate \in 0 .. MaxU64
        BY <2>3
      <3> HIDE DEF rate
      <3>2. rate \in Nat
        BY <2>1, <3>1
      <3> QED BY <2>3, <3>2 DEF rate
    <2>6. net' + 2 * ((IF now' > limiter'.last_refill_time
                         THEN now' - limiter'.last_refill_time ELSE 0)
                      * limiter'.refill_per_second) <= MaxU64
      <3> HIDE DEF net
      <3>1. now' = now
        BY <1>1
      <3> QED BY <2>1, <2>2, <2>3, <2>4, <2>5, <3>1, FreshBucket
    <2> QED BY <2>6 DEF Held, RL!RefillFits, RL!Earned, RL!Elapsed
  <1>2. ASSUME NEW m \in inbox, ~ Held(m), UNCHANGED <<now, limiter, fee>>, Adapter' = Adapter
        PROVE  ~ Held(m)'
    BY <1>2 DEF Held, RL!Limited, RL!RefillFits, RL!Earned, RL!Elapsed, ReceivedLd, PostFeeAmountLd
  <1>3. ASSUME LimitedIInv, [LimitedNext]_vars PROVE HeldUpByOverflow
    <2> SUFFICES ASSUME NEW m \in inbox, ~ Held(m), Held(m)'
                 PROVE  Tick \/ Configure \/ \E f \in Fee : NewEpoch(f)
      BY DEF HeldUpByOverflow
    <2>1. ASSUME NEW u \in User, NEW a \in Amount, NEW min \in QuotedMinimum,
                 LimitedSend(u, a, min)
          PROVE  FALSE
      <3>1. UNCHANGED <<fee, ext>>
        BY <2>1 DEF LimitedSend, Send
      <3>2. CASE RL!Limited
        <4>1. RL!Send(AmountSentLd(fee, a))
          BY <2>1, <3>2 DEF LimitedSend
        <4>2. now' = now /\ \E n : limiter' = [RL!Refilled(limiter, 0) EXCEPT !.tokens = n]
          BY <4>1 DEF RL!Send
        <4>3. 0 \in Amounts
          BY FeeWidthAssumption DEF Amounts
        <4> QED BY <1>1, <1>3, <3>1, <3>2, <4>2, <4>3
      <3>3. CASE ~ RL!Limited
        BY <1>2, <2>1, <3>1, <3>3 DEF LimitedSend, limiterVars, Adapter
      <3> QED BY <3>2, <3>3
    <2>2. ASSUME NEW r \in inbox, LimitedReceive(r) PROVE FALSE
      <3>1. UNCHANGED <<fee, ext>> /\ LzReceive(r)
        BY <2>2 DEF LimitedReceive, LzReceive
      <3>2. CASE RL!Limited
        <4>1. RL!Receive(ReceivedLd(r))
          BY <2>2, <3>2 DEF LimitedReceive, Refill
        <4>2. now' = now /\ limiter' = RL!Refilled(limiter, ReceivedLd(r))
          BY <4>1 DEF RL!Receive
        <4>3. ReceivedLd(r) \in Amounts
          BY <1>3, <3>1, ReceivePutsBack DEF LimitedIInv
        <4> QED BY <1>1, <1>3, <3>1, <3>2, <4>2, <4>3
      <3>3. CASE ~ RL!Limited
        BY <1>2, <2>2, <3>1, <3>3 DEF LimitedReceive, Refill, limiterVars, Adapter
      <3> QED BY <3>2, <3>3
    <2>3. ASSUME Unlimited, ~ \E f \in Fee : NewEpoch(f) PROVE FALSE
      <3>1. UNCHANGED <<now, limiter>>
        BY <2>3 DEF Unlimited, limiterVars
      <3>2. fee' = fee /\ Adapter' = Adapter
        BY <2>3 DEF Unlimited, ReceiveRemote, SendRemote, LzReceiveAsNft, MintTo,
                    RemoveMintAuthority, SetPeer, Adapter
      <3> QED BY <1>2, <3>1, <3>2
    <2>4. CASE UNCHANGED vars
      BY <1>2, <2>4 DEF vars, oftVars, limiterVars, Adapter
    <2> QED BY <1>3, <2>1, <2>2, <2>3, <2>4 DEF LimitedNext
  <1> QED BY <1>3, LimitedInvariance, PTL DEF LimitedSpec, HeldOnlyByOverflow

=============================================================================
