---------------------------- MODULE MCLimitedOft ----------------------------
(***************************************************************************)
(* LimitedOft for TLC: nothing is withheld, or a quarter of every amount,  *)
(* with and without a maximum; both roundings matter with it.              *)
(***************************************************************************)
EXTENDS LimitedOft, TLC

EpochFees ==
  {[transfer_fee_basis_points |-> 0, maximum_fee |-> 0]}
    \cup [transfer_fee_basis_points : {2500}, maximum_fee : {2, MaxU64}]

\* Nothing tells the addresses of a peer apart.
PeerSymmetry == Permutations(Peer)

=============================================================================
