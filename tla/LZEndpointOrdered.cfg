SPECIFICATION Spec
CONSTANTS
  Chain = {a, b}
  Payload = {m}
  NoPayload = noPayload
  NoPath = noPath
  MaxNonce <- MCMaxNonce
  Messages = 4
INVARIANT OrderedDelivery
