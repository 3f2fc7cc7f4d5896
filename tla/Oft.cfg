SPECIFICATION LimitedSpec
CONSTANTS
  MaxU64 = 16
  Ld2sdRate = 4
  Ext = {"adapter", "mintable"}
  Fee <- EpochFees
  User = {u1}
  Peer = {p1, p2}
  NoPeer = noPeer
  Amount = {10}
  Holding = 16
  CpiErrorAborts = TRUE
  MaxNonce = 2
  Capacity = {9}
  RefillRate = {4}
  NoLimiter = noLimiter
  NotGiven = notGiven
  MaxTime = 1
  MaxReceived = 8
SYMMETRY PeerSymmetry
INVARIANTS Backed AbroadIsSum AlwaysCreditable NetOutflowBound
PROPERTIES FairCharge ComposerToldTheTruth OnlyMintingOverfills HeldOnlyByOverflow
