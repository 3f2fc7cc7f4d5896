SPECIFICATION FairSpec
CONSTANTS
  Home = h
  Chain = {h, r}
  Token = {t1, t2}
  User = {u, v}
  Rejecting = {v}
  Recipient = {u, v, bridge, noOne}
  Bridge = bridge
  NoOne = noOne
  BatchLimit = 2
  Payload <- MCPayload
  NoPayload = noPayload
  NoPath = noPath
  MaxNonce <- MCMaxNonce
  Outward = 2
  Back = 2
PROPERTIES OneOmniToken CreditsCleared
