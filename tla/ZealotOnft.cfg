SPECIFICATION Spec
CONSTANTS
  evm = evm
  near = near
  far = far
  Chain = {evm, near, far}
  Deployment <- Deployments
  Home = evm
  Token = {0, 2}
  U64Ids = 2
  User = {u1, u2}
  App = app
  MaxSends = 3
  MaxWrong = 1
  MaxFungible = 1
INVARIANTS OnePlace NoSecondMint Deliverable
PROPERTIES OneOmniToken
CONSTRAINT InBounds
SYMMETRY UserSymmetry
