SPECIFICATION Spec
CONSTANTS
  Home = h
  Chain = {h, r}
  Token = {t1, t2, t3}
  User = {u}
  Rejecting = {}
  Recipient = {u}
  Bridge = bridge
  NoOne = noOne
  BatchLimit = 1
  Payload <- MCPayload
  NoPayload = noPayload
  NoPath = noPath
  MaxNonce <- MCMaxNonce
  Outward = 3
  Back = 3
PROPERTY FailedMessageKept
