SPECIFICATION InstructionsSpec
CONSTANTS
  Key = {k1, k2}
  NoKey = noKey
  Escrow = {e1}
  MintKinds <- Mints
  SharedDecimals = {0, 1, 3}
  U8Size = 5
  MaxRate = 1000
  PeerAddress = {p}
  Options = {o}
  Unset = unset
  NoConfig = noConfig
  MaxIssued = 1
  MaxU64 = 20
  Ld2sdRate = 2
  Fee <- EpochFees
  Message <- Messages
  NoMessage = noMessage
  ClearLen = 9
  ComposeLen = 7
  Enforced <- EnforcedOptions
  Extra <- ExtraOptions
  NoOptions = noOptions
  Legacy = legacy
  ComposeLengths <- ComposedLengths
  NoCompose = noCompose
  NotSet = notSet
  Price = {1, 3}
  None = none
INVARIANTS TypeOK RateIsExact AccountsFit QuoteSuffices
PROPERTIES SettledOnce RemovedForever OnlyItsOwners EnforcedOptionsHold
