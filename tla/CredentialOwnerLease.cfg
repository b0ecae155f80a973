CONSTANTS
  a = a
  b = b
  Replicas = {a, b}
  Holders <- MCHolders
  NoHolder = NoHolder
  Vaults = {1, 2}
  NoVault = 0
  MaxEpoch = 2
  MaxRevision = 3
  TTL = 3
  Margin = 1
  MaxBoots = 0
  Scopes <- MCRecovery
SYMMETRY Symmetry
SPECIFICATION CSpec
INVARIANT ChildHoldsLease
