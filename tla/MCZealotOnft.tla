---------------------------- MODULE MCZealotOnft ----------------------------
(***************************************************************************)
(* ZealotOnft for TLC: a collection at home on an EVM chain, a near chain  *)
(* that is connected with it, and a far chain that is connected with the   *)
(* near one.                                                               *)
(***************************************************************************)
EXTENDS ZealotOnft, FiniteSets, TLC

CONSTANTS
  evm, near, far,
  MaxWrong,   \* bound: wrong addresses that are set at the same time
  MaxFungible \* bound: fungible messages that travel at the same time

LockingAbroad == evm :> "onft_adapter" @@ near :> "adapter" @@ far :> "onft"
MintingAbroad == evm :> "onft_adapter" @@ near :> "onft" @@ far :> "native"
LockAdapter   == evm :> "lock_adapter" @@ near :> "adapter" @@ far :> "native"

Deployments == {LockingAbroad, MintingAbroad, LockAdapter}

InBounds ==
  LET Set(address) == {x \in Chain \X Chain : peer[x[1]][x[2]] = address}
  IN  /\ peer[evm][far] = "none" /\ peer[far][evm] = "none"
      /\ Cardinality(Set("wrong")) <= MaxWrong
      /\ Cardinality({m \in msgs : ~ m.nft}) <= MaxFungible

\* No property tells one user from another.
UserSymmetry == Permutations(User)

=============================================================================
