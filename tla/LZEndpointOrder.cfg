SPECIFICATION Spec
CONSTANTS
  Chain = {a, b}
  Payload = {m}
  NoPayload = noPayload
  NoPath = noPath
  MaxNonce <- MCMaxNonce
  Messages = 5
INVARIANTS TypeOK ExactlyOnePlace DisorderOnlyAfterRetry
PROPERTY NeverPastStored
