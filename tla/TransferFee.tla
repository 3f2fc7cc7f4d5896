---------------------------- MODULE TransferFee -----------------------------
(***************************************************************************)
(* The transfer fee of a Token-2022 mint and its inverse, as quote.rs      *)
(* computes them for an adapter.  A fee has a rate in basis points and a   *)
(* maximum.  The token program rounds it up, so many amounts before the    *)
(* fee lead to one amount after it, and some amounts after it cannot be    *)
(* reached; the program needs the inverse to charge a sender exactly what  *)
(* makes the promised amount arrive.                                       *)
(*                                                                         *)
(* Intermediate results are u128 in the code and cannot overflow.          *)
(***************************************************************************)
EXTENDS Integers

CONSTANTS
  MaxU64,    \* the largest u64
  Ld2sdRate  \* local units in one unit of the shared decimals

ASSUME FeeWidthAssumption == MaxU64 \in Nat /\ Ld2sdRate \in Nat \ {0}

Amounts == 0 .. MaxU64

MAX_FEE_BASIS_POINTS == 10000

TransferFees ==
  [transfer_fee_basis_points : 0 .. MAX_FEE_BASIS_POINTS, maximum_fee : Amounts]

\* (The mutant rounds down.)
FloorDiv(numerator, denominator) == numerator \div denominator
CeilDiv(numerator, denominator) == (numerator + denominator - 1) \div denominator

Least(m, n) == IF m < n THEN m ELSE n

-----------------------------------------------------------------------------
\* What the token program withholds of a transfer of amount.
FeeOn(fee, amount) ==
  Least(fee.maximum_fee,
        (amount * fee.transfer_fee_basis_points + MAX_FEE_BASIS_POINTS - 1)
          \div MAX_FEE_BASIS_POINTS)

PostFeeAmount(fee, amount) == amount - FeeOn(fee, amount)

-----------------------------------------------------------------------------
RawPreFeeAmount(fee, amount) ==
  CeilDiv(amount * MAX_FEE_BASIS_POINTS,
          MAX_FEE_BASIS_POINTS - fee.transfer_fee_basis_points)

MaximumFeeReached(fee, amount) ==
  \/ fee.transfer_fee_basis_points = MAX_FEE_BASIS_POINTS
  \/ RawPreFeeAmount(fee, amount) - amount >= fee.maximum_fee

PreFeeAmount(fee, amount) ==
  IF fee.transfer_fee_basis_points = 0 \/ amount = 0 THEN amount
  ELSE IF MaximumFeeReached(fee, amount)
  THEN amount + fee.maximum_fee
  ELSE RawPreFeeAmount(fee, amount)

-----------------------------------------------------------------------------
RemoveDust(amount) == amount - (amount % Ld2sdRate)

=============================================================================
