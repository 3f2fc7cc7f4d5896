SPECIFICATION Spec
CONSTANTS
  alice = alice
  bob = bob
  User = {alice, bob}
  Dead = dead
  Transform = transform
  NoOne = noOne
  CollectionOwner = bob
  Ronin = {r1, r2}
  OldId = {1, 2}
  FirstRonin = r1
  Holdings <- OldTokensOrChips
  Chip = {1, 2}
  MAX_SUPPLY = 2
  MaxBatch = 2
  MaxMinted = 3
INVARIANTS UpgradeConserves SupplyCapped
PROPERTIES ReRollPaysChips
