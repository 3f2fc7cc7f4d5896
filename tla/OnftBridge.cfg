SPECIFICATION Spec
CONSTANTS
  Home = h
  Chain = {h, r}
  Token = {t1, t2, t3, t4}
  User = {u}
  Rejecting = {}
  Recipient = {u}
  Bridge = bridge
  NoOne = noOne
  BatchLimit = 2
  Payload <- MCPayload
  NoPayload = noPayload
  NoPath = noPath
  MaxNonce <- MCMaxNonce
  Outward = 4
  Back = 1
SYMMETRY TokenSymmetry
INVARIANTS TypeOK NoDuplication EscrowBacking WaitingIsCreditable
PROPERTIES CreditsKept LostInThreeWays
